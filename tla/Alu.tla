-------------------------------- MODULE Alu ---------------------------------
(***************************************************************************)
(* The integer executors of core/src/exec_int.cpp: sums with carry and     *)
(* overflow, products, quotients, logic, shifts, rotates with a mask,      *)
(* compares, traps and branches, on words of W bits (32 in the code). The  *)
(* machine runs one of the short sequences compilers and libraries build   *)
(* from these instructions, and what such a sequence is for is what the    *)
(* properties state: they hold only if carry, sign and mask rules of       *)
(* several instructions fit together.                                      *)
(***************************************************************************)
EXTENDS AluOps, Sequences

CONSTANTS Idioms,     \* names of the sequences to run
          Inputs      \* words a register may start with

VARIABLES prog,     \* the sequence that runs
          in,       \* the registers it started with
          r,        \* the registers
          xer,      \* so, ov and ca
          cr0,      \* lt, gt, eq and so of the first condition field
          ctr, lr,
          pc,       \* index of the next instruction
          trapped   \* a trap instruction fired

vars == <<prog, in, r, xer, cr0, ctr, lr, pc, trapped>>

-----------------------------------------------------------------------------
(* An instruction, with the fields it has.                                  *)
Immediate == 6     \* in the place of a register: the operand is in x
I(op, d, a, b)      == [op |-> op, d |-> d, a |-> a, b |-> b, rc |-> FALSE, x |-> 0, y |-> 0]
Rc(op, d, a, b)     == [I(op, d, a, b) EXCEPT !.rc = TRUE]
Imm(op, d, a, v)    == [I(op, d, a, Immediate) EXCEPT !.x = v]
Rot(op, d, a, sh, mb, me) == [I(op, d, a, sh) EXCEPT !.x = mb, !.y = me]
Jump(op, target, lk) == [I(op, target, 0, 0) EXCEPT !.x = lk]

Operand(i) == IF i.b = Immediate THEN Word(i.x) ELSE r[i.b]

(* The sequences. r0 to r3 come in, r4 and r5 go out.                       *)
Program(p) ==
  CASE p = "add2" -> <<I("addc", 4, 0, 2), Rc("adde", 5, 1, 3)>>
    [] p = "sub2" -> <<I("subfc", 4, 2, 0), Rc("subfe", 5, 3, 1)>>
    [] p = "neg2" -> <<Imm("subfic", 4, 0, 0), I("subfze", 5, 1, 1)>>
    [] p = "dec2" -> <<Imm("addic", 4, 0, -1), I("addme", 5, 1, 1)>>
    [] p = "mul2" -> <<Rc("mullw", 4, 0, 1), I("mulhw", 5, 0, 1)>>
    [] p = "mul2u" -> <<I("mullw", 4, 0, 1), I("mulhwu", 5, 0, 1)>>
    [] p = "shift2" -> <<Imm("subfic", 4, 2, W), I("slw", 5, 1, 2), I("srw", 4, 0, 4), I("or", 5, 5, 4),
                         Imm("addi", 4, 2, -W), I("slw", 4, 0, 4), I("or", 5, 5, 4), I("slw", 4, 0, 2)>>
    [] p = "divrem" -> <<Rc("divw", 4, 0, 1), I("mullw", 5, 4, 1), I("subf", 5, 5, 0)>>
    [] p = "divremu" -> <<Rc("divwu", 4, 0, 1), I("mullw", 5, 4, 1), I("subf", 5, 5, 0)>>
    [] p = "half" -> <<Imm("srawi", 4, 0, 2), I("addze", 4, 4, 4)>>
    [] p = "abs" -> <<Imm("srawi", 4, 0, W - 1), I("xor", 5, 4, 0), Rc("subf", 5, 4, 5)>>
    [] p = "min" -> <<I("subfc", 4, 1, 0), I("subfe", 5, 5, 5), I("and", 4, 4, 5), I("add", 4, 4, 1)>>
    [] p = "field" -> <<Rot("rlwimi", 1, 0, 1, W - 3, W - 2), Rot("rlwinm", 4, 1, W - 1, W - 2, W - 1),
                        Rot("rlwinm", 5, 1, 0, W - 1, W - 4)>>
    [] p = "extend" -> <<I("extsb", 4, 0, 0), Imm("slw", 5, 0, 3 * (W \div 4)), Imm("sraw", 5, 5, 3 * (W \div 4))>>
    [] p = "select" -> <<I("xor", 4, 0, 1), I("and", 4, 4, 2), I("xor", 4, 4, 1),
                         I("and", 5, 0, 2), I("andc", 1, 1, 2), I("nor", 5, 5, 1), I("nand", 5, 5, 5)>>
    [] p = "bounds" -> <<Imm("cmp", 0, 0, 0), [I("tw", 0, 0, 1) EXCEPT !.x = {"gtu", "eq"}], I("or", 4, 0, 0)>>
    [] p = "count" -> <<Jump("mtctr", 0, FALSE), Imm("addi", 4, 4, 1), Jump("bdnz", 2, FALSE)>>
    [] p = "call" -> <<Jump("b", 4, TRUE), I("or", 5, 1, 1), Jump("b", 7, FALSE),
                       I("or", 4, 0, 0), Jump("bclr", 0, TRUE), I("or", 4, 1, 1)>>

Code == Program(prog)
-----------------------------------------------------------------------------
(* recordRc and the OE bit: what the tail of an executor writes. The        *)
(* overflow is known before CR0 copies SO.                                  *)
Record(i, v, oe, ov) ==
  LET so == xer.so \/ (oe /\ ov)
  IN  /\ r' = [r EXCEPT ![i.d] = v]
      /\ cr0' = IF i.rc THEN Compared(Signed(v), 0, so) ELSE cr0
      /\ UNCHANGED <<ctr, lr, trapped>>

XerAfter(oe, ov, ca) == [so |-> xer.so \/ (oe /\ ov), ov |-> IF oe THEN ov ELSE xer.ov, ca |-> ca]

Sum(i) ==
  /\ i.op \in SumOps
  /\ LET args == SumArgs(i.op, r[i.a], Operand(i), xer.ca)
         s    == Addc3(args[1], args[2], args[3])
     IN  /\ Record(i, s.r, i.rc, s.ov)
         /\ xer' = XerAfter(i.rc, s.ov, IF i.op \in CarryOps THEN s.ca ELSE xer.ca)
  /\ pc' = pc + 1

Multiply(i) ==
  /\ i.op \in ProductOps
  /\ LET p == Product(i.op, r[i.a], Operand(i))
         oe == i.rc /\ i.op \notin NoOverflowForm
     IN  /\ Record(i, p.r, oe, p.ov)
         /\ xer' = XerAfter(oe, p.ov, xer.ca)
  /\ pc' = pc + 1

Bitwise1(i) ==
  /\ i.op \in LogicOps \cup ShiftOps \cup {"rlwinm", "rlwimi", "rlwnm"}
  /\ Record(i, CASE i.op \in LogicOps -> Logic(i.op, r[i.a], Operand(i))
               [] i.op \in ShiftOps -> Shift(i.op, r[i.a], Operand(i))
               [] i.op = "rlwinm" -> Rotl(r[i.a], i.b) & Mask(i.x, i.y)
               [] i.op = "rlwnm"  -> Rotl(r[i.a], r[i.b]) & Mask(i.x, i.y)
               [] i.op = "rlwimi" -> Insert(r[i.d], r[i.a], i.b, i.x, i.y), FALSE, FALSE)
  /\ xer' = IF i.op \in {"sraw", "srawi"} THEN [xer EXCEPT !.ca = ShiftCarry(r[i.a], Operand(i))] ELSE xer
  /\ pc' = pc + 1

Compare(i) ==
  /\ i.op \in {"cmp", "cmpl"}
  /\ cr0' = IF i.op = "cmp" THEN Compared(Signed(r[i.a]), Signed(Operand(i)), xer.so)
            ELSE Compared(r[i.a], Operand(i), xer.so)
  /\ pc' = pc + 1
  /\ UNCHANGED <<r, xer, ctr, lr, trapped>>

Trap(i) ==
  /\ i.op = "tw"
  /\ trapped' = TrapCond(i.x, r[i.a], Operand(i))
  /\ pc' = IF trapped' THEN Len(Code) + 1 ELSE pc + 1
  /\ UNCHANGED <<r, xer, cr0, ctr, lr>>

(* Mutant: the counter is tested before it is decremented. *)
BcTakenEarly(c) == <<Word(c - 1), c # 0>>

(* bcTaken, the counting forms: CTR counts down first, then is tested.      *)
BcTaken(c) == <<Word(c - 1), Word(c - 1) # 0>>

(* h_b, h_bc, h_bclr, mtctr: LR is written whether or not the branch is     *)
(* taken, and bclr has read its target before that.                         *)
Branch(i) ==
  /\ i.op \in {"b", "bdnz", "bclr", "mtctr"}
  /\ ctr' = CASE i.op = "bdnz" -> BcTaken(ctr)[1] [] i.op = "mtctr" -> r[0] [] OTHER -> ctr
  /\ lr' = IF i.x THEN pc + 1 ELSE lr
  /\ pc' = CASE i.op = "b" -> i.d
             [] i.op = "bclr" -> lr
             [] i.op = "mtctr" -> pc + 1
             [] i.op = "bdnz" -> IF BcTaken(ctr)[2] THEN i.d ELSE pc + 1
  /\ UNCHANGED <<r, xer, cr0, trapped>>

Running == pc <= Len(Code)

Next == /\ Running
        /\ \E i \in {Code[pc]} :
             Sum(i) \/ Multiply(i) \/ Bitwise1(i) \/ Compare(i) \/ Trap(i) \/ Branch(i)
        /\ UNCHANGED <<prog, in>>

(* The third and fourth registers only matter to the two-word sums.         *)
Init == /\ prog \in Idioms
        /\ in \in [0..3 -> Inputs]
        /\ (prog \notin {"add2", "sub2", "shift2", "select"} => in[2] = 0)
        /\ (prog \notin {"add2", "sub2"} => in[3] = 0)
        /\ r = [n \in 0..5 |-> IF n < 4 THEN in[n] ELSE 0]
        /\ xer \in [so : {FALSE}, ov : {FALSE}, ca : BOOLEAN]
        /\ cr0 = [lt |-> FALSE, gt |-> FALSE, eq |-> FALSE, so |-> FALSE]
        /\ ctr = 0 /\ lr = 0 /\ pc = 1 /\ trapped = FALSE

Spec == Init /\ [][Next]_vars
-----------------------------------------------------------------------------
TypeOK == /\ r \in [0..5 -> Words] /\ ctr \in Words /\ pc \in 1..9
          /\ xer \in [so : BOOLEAN, ov : BOOLEAN, ca : BOOLEAN]

Done(p) == prog = p /\ ~Running
Wide(lo, hi) == hi * M + lo
Out == Wide(r[4], r[5])

(* Two-word sums, differences, negations, decrements, products and shifts   *)
(* come out as one number of twice the width: what the carry out of one     *)
(* executor (addc3, h_slw) means is what the next one takes in.             *)
WideArithmetic ==
  LET x == Wide(in[0], in[1])  y == Wide(in[2], in[3])
  IN  /\ Done("add2") => Out = (x + y) % (M * M)
      /\ Done("sub2") => Out = (x - y) % (M * M)
      /\ Done("neg2") => Out = (-x) % (M * M)
      /\ Done("dec2") => Out = (x - 1) % (M * M)
      /\ Done("mul2") => Out = (Signed(in[0]) * Signed(in[1])) % (M * M)
      /\ Done("mul2u") => Out = in[0] * in[1]
      /\ (Done("shift2") /\ in[2] < 2 * W) => Out = (x * 2^in[2]) % (M * M)

(* Division, remainder, division by a power of two, absolute value and      *)
(* minimum built from h_divw, h_srawi with h_addze, and h_subfe.            *)
SignedIdioms ==
  LET a == Signed(in[0])  b == Signed(in[1])
  IN  /\ (Done("divrem") /\ b # 0 /\ ~(b = -1 /\ in[0] = M \div 2)) =>
           /\ Signed(r[4]) * b + Signed(r[5]) = a
           /\ Signed(r[5]) * a >= 0 /\ Signed(r[5]) * Signed(r[5]) < b * b
      /\ (Done("divremu") /\ in[1] # 0) => r[4] * in[1] + r[5] = in[0] /\ r[5] < in[1]
      /\ Done("half") => Signed(r[4]) = Trunc(a, 4)
      /\ Done("abs") => r[5] = (IF a < 0 THEN -a ELSE a)
      /\ Done("min") => r[4] = (IF in[0] < in[1] THEN in[0] ELSE in[1])

(* A field inserted under a mask is read back by the opposite rotate, the   *)
(* bits around it are the old ones, and a mask that wraps takes both ends   *)
(* (ppcmask, rotl); two ways to extend a sign or to merge two words under a *)
(* mask agree (the LOGIC family, h_extsb, h_sraw).                          *)
BitIdioms ==
  /\ Done("field") => /\ r[4] = in[0] % 4
                      /\ r[1] % 2 = in[1] % 2 /\ r[1] \div 8 = in[1] \div 8
                      /\ r[5] = (in[1] % 2) + (r[1] \div 8) * 8
  /\ Done("extend") => r[4] = r[5]
  /\ Done("select") => r[4] = r[5]

(* A counted loop runs CTR times, a CTR of zero the full range; a call      *)
(* comes back behind itself even when the return links; a bounds trap       *)
(* fires for a negative index too (bcTaken, h_bclr, trapCond).              *)
ControlIdioms ==
  /\ Done("count") => r[4] = in[0] /\ ctr = 0
  /\ Done("call") => r[4] = in[0] /\ r[5] = in[1] /\ lr = 6
  /\ Done("bounds") => (trapped <=> in[0] >= in[1]) /\ (cr0.lt <=> Signed(in[0]) < 0)

(* Over any sequence: the recorded condition tells the exact result unless  *)
(* it says overflow, and then SO is already part of it (setOv before        *)
(* setCr0).                                                                 *)
RecordedCondition ==
  LET d == Signed(in[1]) + Signed(in[3]) + (IF Wide(in[0], 0) + in[2] >= M THEN 1 ELSE 0)
  IN  /\ Done("add2") => /\ xer.ov = (d # Signed(r[5]))
                         /\ cr0.so = xer.ov
                         /\ ~cr0.so => cr0.lt = (d < 0) /\ cr0.eq = (d = 0)
      /\ Done("mul2") => cr0.so = (Signed(in[0]) * Signed(in[1]) # Signed(r[4]))
      /\ Done("divrem") => cr0.so = (in[1] = 0 \/ (Signed(in[1]) = -1 /\ in[0] = M \div 2))
      /\ Done("abs") => cr0.so = (in[0] = M \div 2)
=============================================================================
