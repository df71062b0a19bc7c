----------------------------- MODULE LoadStore ------------------------------
(***************************************************************************)
(* The loads and stores of core/src/exec_int.cpp that touch memory more    *)
(* than once or update a register besides: multiples, strings, update      *)
(* forms, floating-point forms. A translation fault part way leaves what   *)
(* was done; the handler maps the page and the instruction is executed     *)
(* again from its beginning. A register is a tuple of bytes, a byte a      *)
(* token; an address is a byte number.                                     *)
(***************************************************************************)
EXTENDS Naturals, Sequences

CONSTANTS NRegs,      \* registers (32 in the code)
          WB,         \* bytes of a word (4)
          PageBytes,  \* bytes of a page
          NPages,
          Programs    \* instructions to run: [op, rt, ra, ea, n]

(* What the constants must satisfy. *)
LoadStoreAssumption == {NRegs, WB, PageBytes, NPages} \subseteq Nat \ {0}

VARIABLES insn,     \* the instruction under test
          le,       \* MSR[LE]
          gpr, mem,
          mapped,   \* pages the handler has mapped
          state,    \* run, fault (the handler runs), align (raised), done
          first     \* registers and memory before the first execution

vars == <<insn, le, gpr, mem, mapped, state, first>>

Regs == 0..(NRegs - 1)
Addresses == 0..(NPages * PageBytes - 1)
Pages == 0..(NPages - 1)
Zero == "0"
ZeroWord == [b \in 1..WB |-> Zero]
Readable(a) == a \in Addresses /\ (a \div PageBytes) \in mapped
-----------------------------------------------------------------------------
(* The accesses of an instruction in order: a list of the addresses it     *)
(* touches, the register and the byte of it each belongs to.                *)
Multiple(i) == [k \in 1..((NRegs - i.rt) * WB) |->
                  [a |-> i.ea + k - 1, reg |-> i.rt + ((k - 1) \div WB), byte |-> ((k - 1) % WB) + 1]]

(* Mutant: a string that passes the last register stops there. *)
StringAtEnd(i) == [k \in 1..i.n |->
                [a |-> i.ea + k - 1,
                 reg |-> IF i.rt + ((k - 1) \div WB) >= NRegs THEN NRegs - 1 ELSE i.rt + ((k - 1) \div WB),
                 byte |-> ((k - 1) % WB) + 1]]

(* loadString and storeString: the register after the last is the first.    *)
String(i) == [k \in 1..i.n |->
                [a |-> i.ea + k - 1, reg |-> (i.rt + ((k - 1) \div WB)) % NRegs, byte |-> ((k - 1) % WB) + 1]]

Single(i) == [k \in 1..WB |-> [a |-> i.ea + k - 1, reg |-> i.rt, byte |-> k]]

Accesses(i) == CASE i.op \in {"lmw", "stmw"} -> Multiple(i)
                 [] i.op \in {"lsw", "stsw"} -> String(i)
                 [] i.op \in {"lwzu", "stwu", "lwz", "stw", "lwbrx", "stwbrx", "lfsu", "stfsu"} -> Single(i)

(* The word accesses fault as a whole, the strings byte by byte.            *)
Unit(i) == IF i.op \in {"lsw", "stsw"} THEN 1 ELSE WB

(* How many of the accesses are done before the first that faults.          *)
Completed(i) ==
  LET acc == Accesses(i)
      bad == {k \in DOMAIN acc : ~Readable(acc[k].a)}
  IN  IF bad = {} THEN Len(acc)
      ELSE LET k == CHOOSE x \in bad : \A y \in bad : x <= y
           IN  ((k - 1) \div Unit(i)) * Unit(i)

Loads == {"lmw", "lsw", "lwzu", "lwz", "lwbrx", "lfsu"}
Update == {"lwzu", "stwu", "lfsu", "stfsu"}
Swapped(i, b) == IF i.op \in {"lwbrx", "stwbrx"} THEN WB + 1 - b ELSE b

(* Mutant: a register is not cleared before its first byte arrives. *)
LoadedRawNoClear(i, n, r) ==
  LET acc == Accesses(i)
      got == {k \in 1..n : acc[k].reg = r}
  IN  [b \in 1..WB |-> IF \E k \in got : Swapped(i, acc[k].byte) = b
                       THEN mem[acc[CHOOSE k \in got : Swapped(i, acc[k].byte) = b].a]
                       ELSE gpr[r][b]]

(* What register r holds once the first n accesses are done. A string       *)
(* clears a register as it comes to it, even if the byte then faults.       *)
LoadedRaw(i, n, r) ==
  LET acc == Accesses(i)
      got == {k \in 1..n : acc[k].reg = r}
      reached == i.op = "lsw" /\ \E k \in DOMAIN acc : k <= n + 1 /\ acc[k].reg = r
  IN  [b \in 1..WB |-> IF \E k \in got : Swapped(i, acc[k].byte) = b
                       THEN mem[acc[CHOOSE k \in got : Swapped(i, acc[k].byte) = b].a]
                       ELSE IF reached THEN Zero ELSE gpr[r][b]]

Stored(i, n) ==
  LET acc == Accesses(i)
  IN  [a \in Addresses |-> IF \E k \in 1..n : acc[k].a = a
                           THEN LET k == CHOOSE k \in 1..n : acc[k].a = a
                                IN  gpr[acc[k].reg][Swapped(i, acc[k].byte)]
                           ELSE mem[a]]

(* lmw, stmw and the floating-point forms need a word boundary; multiples   *)
(* and strings need big-endian mode as well.                                *)
Misaligned(i) == \/ i.op \in {"lmw", "stmw"} /\ (i.ea % WB # 0 \/ le)
                 \/ i.op \in {"lsw", "stsw"} /\ le
                 \/ i.op \in {"lfsu", "stfsu"} /\ i.ea % WB # 0

(* Mutant: rA is updated before the access is known to succeed. *)
UpdatesEarly(i, whole) == i.op \in Update

(* The update forms write rA only when the access went through.             *)
Updates(i, whole) == i.op \in Update /\ whole
-----------------------------------------------------------------------------
(* The handler of one instruction, from its beginning.                      *)
Execute ==
  /\ state = "run"
  /\ \/ /\ Misaligned(insn)
        /\ state' = "align"
        /\ UNCHANGED <<gpr, mem>>
     \/ /\ ~Misaligned(insn)
        /\ \E n \in {Completed(insn)} :
             LET whole  == n = Len(Accesses(insn))
                 loaded == IF insn.op \in Loads
                           THEN [r \in Regs |-> LoadedRaw(insn, n, r)] ELSE gpr
             IN  /\ gpr' = IF Updates(insn, whole)
                           THEN [loaded EXCEPT ![insn.ra] = [b \in 1..WB |-> <<"ea", insn.ea, b>>]]
                           ELSE loaded
                 /\ mem' = IF insn.op \in Loads THEN mem ELSE Stored(insn, n)
                 /\ state' = IF whole THEN "done" ELSE "fault"
  /\ UNCHANGED <<insn, le, mapped, first>>

(* The guest's handler maps the page that was missing, and may give up      *)
(* another one the instruction has used already; rfi starts over.           *)
HandleFault(p, gone) ==
  /\ state = "fault"
  /\ p = Accesses(insn)[Completed(insn) + 1].a \div PageBytes
  /\ p \notin mapped
  /\ mapped' = (mapped \ gone) \cup {p}
  /\ state' = "run"
  /\ UNCHANGED <<insn, le, gpr, mem, first>>

Init ==
  /\ insn \in Programs /\ le \in BOOLEAN
  /\ gpr = [r \in Regs |-> [b \in 1..WB |-> <<"r", r, b>>]]
  /\ mem = [a \in Addresses |-> <<"m", a>>]
  /\ mapped \in SUBSET Pages
  /\ state = "run"
  /\ first = <<gpr, mem>>

Next == Execute \/ \E p \in Pages, gone \in SUBSET Pages : HandleFault(p, gone)

Spec == Init /\ [][Next]_vars
-----------------------------------------------------------------------------
TypeOK == /\ state \in {"run", "fault", "align", "done"} /\ mapped \subseteq Pages
          /\ DOMAIN gpr = Regs /\ DOMAIN mem = Addresses

(* What one execution with every page mapped would have left.               *)
Byte(a) == first[2][a]
Target(i) == {Accesses(i)[k].reg : k \in DOMAIN Accesses(i)}

(* However often an instruction faulted and was executed again, it ends     *)
(* with the registers and the memory of one clean execution: every byte     *)
(* loaded stands in its place, the rest of a string's last register is      *)
(* zero, what it does not name is untouched (h_lmw, loadString).            *)
RestartIsClean ==
  state = "done" =>
    /\ \A r \in Regs \ (Target(insn) \cup {insn.ra}) : gpr[r] = first[1][r]
    /\ insn.op \in {"lmw", "lwz", "lwzu", "lfsu"} =>
         \A k \in 0..(Len(Accesses(insn)) - 1) :
           gpr[insn.rt + (k \div WB)][(k % WB) + 1] = Byte(insn.ea + k)
    /\ insn.op = "lsw" =>
         \A r \in Regs, b \in 1..WB :
           LET k == ((r + NRegs - insn.rt) % NRegs) * WB + b - 1
           IN  k < ((insn.n + WB - 1) \div WB) * WB =>
                 gpr[r][b] = IF k < insn.n THEN Byte(insn.ea + k) ELSE Zero
    /\ insn.op \in Loads => mem = first[2]
    /\ insn.op \notin Loads =>
         \A a \in Addresses :
           mem[a] = IF a \in {Accesses(insn)[k].a : k \in DOMAIN Accesses(insn)}
                    THEN LET k == a - insn.ea
                             b == (k % WB) + 1
                         IN  first[1][(insn.rt + (k \div WB)) % NRegs]
                                     [IF insn.op = "stwbrx" THEN WB + 1 - b ELSE b]
                    ELSE Byte(a)

(* While the fault is handled the base register still holds what it held:   *)
(* without that the second execution would be somewhere else. An alignment  *)
(* exception has touched nothing.                                           *)
BaseSurvives ==
  /\ state = "fault" => gpr[insn.ra] = first[1][insn.ra]
  /\ state = "align" => gpr = first[1] /\ mem = first[2]
=============================================================================
