------------------------------- MODULE AluOps -------------------------------
(***************************************************************************)
(* What the integer executors of core/src/exec_int.cpp compute, on words   *)
(* of W bits (32 in the code).                                             *)
(***************************************************************************)
EXTENDS Integers, Bitwise

CONSTANT W          \* bits of a word, a power of two

M == 2^W
Words == 0..(M - 1)
Word(n) == n % M
Signed(x) == IF x >= M \div 2 THEN x - M ELSE x
Negative(x) == Signed(x) < 0
Flip(x) == M - 1 - x
-----------------------------------------------------------------------------
(* addc3: the sum with the carry out of the top, and overflow by signs.     *)
Addc3(a, b, cin) ==
  LET s == Word(a + b + cin)
  IN  [r |-> s, ca |-> a + b + cin >= M,
       ov |-> Negative(a) # Negative(s) /\ Negative(b) # Negative(s)]

(* Mutant: subtracting with a borrow adds one as subfc does. *)
SumArgsFresh(op, a, b, ca) ==
  LET cin == IF ca THEN 1 ELSE 0
  IN  CASE op \in {"add", "addc", "addi", "addic"} -> <<a, b, 0>>
        [] op = "adde"  -> <<a, b, cin>>
        [] op = "addme" -> <<a, M - 1, cin>>
        [] op = "addze" -> <<a, 0, cin>>
        [] op \in {"subf", "subfc", "subfic", "subfe"} -> <<Flip(a), b, 1>>
        [] op = "subfme" -> <<Flip(a), M - 1, cin>>
        [] op = "subfze" -> <<Flip(a), 0, cin>>

(* h_add .. h_subfze, h_addi, h_addic, h_subfic: what each adds.            *)
SumArgs(op, a, b, ca) ==
  LET cin == IF ca THEN 1 ELSE 0
  IN  CASE op \in {"add", "addc", "addi", "addic"} -> <<a, b, 0>>
        [] op = "adde"  -> <<a, b, cin>>
        [] op = "addme" -> <<a, M - 1, cin>>
        [] op = "addze" -> <<a, 0, cin>>
        [] op \in {"subf", "subfc", "subfic"} -> <<Flip(a), b, 1>>
        [] op = "subfe"  -> <<Flip(a), b, cin>>
        [] op = "subfme" -> <<Flip(a), M - 1, cin>>
        [] op = "subfze" -> <<Flip(a), 0, cin>>

SumOps == {"add", "addc", "addi", "addic", "adde", "addme", "addze", "subf", "subfc",
           "subfic", "subfe", "subfme", "subfze"}
CarryOps == SumOps \ {"add", "addi", "subf"}

Trunc(a, b) == LET q == (IF a < 0 THEN -a ELSE a) \div (IF b < 0 THEN -b ELSE b)
               IN  IF (a < 0) # (b < 0) THEN -q ELSE q

(* Mutant: the most negative word is divided by minus one. *)
DivFaultZero(a, b) == b = 0

(* h_divw: no quotient exists.                                              *)
DivFault(a, b) == b = 0 \/ (Signed(a) = -(M \div 2) /\ Signed(b) = -1)

(* h_neg, h_mullw, h_mulhw, h_mulhwu, h_divw, h_divwu: result and overflow. *)
Product(op, a, b) ==
  LET p == Signed(a) * Signed(b)
  IN  CASE op = "neg"    -> [r |-> Word(-a), ov |-> a = M \div 2]
        [] op = "mullw"  -> [r |-> Word(p), ov |-> p # Signed(Word(p))]
        [] op = "mulhw"  -> [r |-> Word(p \div M), ov |-> FALSE]
        [] op = "mulhwu" -> [r |-> (a * b) \div M, ov |-> FALSE]
        [] op = "divw"   -> [r |-> IF DivFault(a, b) THEN 0 ELSE Word(Trunc(Signed(a), Signed(b))),
                             ov |-> DivFault(a, b)]
        [] op = "divwu"  -> [r |-> IF b = 0 THEN 0 ELSE a \div b, ov |-> b = 0]

ProductOps == {"neg", "mullw", "mulhw", "mulhwu", "divw", "divwu"}
NoOverflowForm == {"mulhw", "mulhwu"}

(* The LOGIC family, h_cntlzw, h_extsb and h_extsh.                         *)
Narrow(s, n) == LET v == s % 2^n IN IF v >= 2^(n - 1) THEN Word(v - 2^n) ELSE v
Leading(s) == CHOOSE n \in 0..W : s < 2^(W - n) /\ (n = W \/ s >= 2^(W - n - 1))
Logic(op, s, b) ==
  CASE op = "and"  -> s & b          [] op = "andc" -> s & Flip(b)
    [] op = "or"   -> s | b          [] op = "orc"  -> s | Flip(b)
    [] op = "xor"  -> s ^^ b         [] op = "eqv"  -> Flip(s ^^ b)
    [] op = "nor"  -> Flip(s | b)     [] op = "nand" -> Flip(s & b)
    [] op = "cntlzw" -> Leading(s)
    [] op = "extsb" -> Narrow(s, W \div 4)
    [] op = "extsh" -> Narrow(s, W \div 2)

LogicOps == {"and", "andc", "or", "orc", "xor", "eqv", "nor", "nand", "cntlzw", "extsb", "extsh"}

(* Mutant: the shift amount is taken modulo the width, as a rotate takes it. *)
ShiftAmountWrapped(n) == n % W

(* h_slw, h_srw, h_sraw: one bit more than the width counts.                *)
ShiftAmount(n) == n % (2 * W)

Shift(op, s, b) ==
  LET n == ShiftAmount(b)
  IN  CASE op = "slw" -> IF n >= W THEN 0 ELSE Word(s * 2^n)
        [] op = "srw" -> IF n >= W THEN 0 ELSE s \div 2^n
        [] op \in {"sraw", "srawi"} -> Word(Signed(s) \div 2^(IF n >= W THEN W ELSE n))

(* Mutant: any negative word shifted right carries. *)
ShiftCarryAny(s, b) == Negative(s)

(* h_sraw and h_srawi: a one was shifted out of a negative word.            *)
ShiftCarry(s, b) ==
  LET n == ShiftAmount(b)
  IN  Negative(s) /\ (n >= W \/ (n # 0 /\ s % 2^n # 0))

ShiftOps == {"slw", "srw", "sraw", "srawi"}

(* rotl and ppcmask, bit 0 the most significant; mb beyond me wraps.        *)
Rotl(v, n) == LET k == n % W IN Word(v * 2^k) + (v \div 2^(W - k))
Mask(mb, me) ==
  LET x == (M - 1) \div 2^mb
      y == IF me = W - 1 THEN M - 1 ELSE Flip((M - 1) \div 2^(me + 1))
  IN  IF mb <= me THEN x & y ELSE x | y

(* Mutant: the bits outside the mask are cleared, as rlwinm clears them. *)
InsertClear(old, s, sh, mb, me) == Rotl(s, sh) & Mask(mb, me)

(* h_rlwimi: only the bits under the mask change.                           *)
Insert(old, s, sh, mb, me) ==
  (Rotl(s, sh) & Mask(mb, me)) | (old & Flip(Mask(mb, me)))

(* h_cmp, h_cmpl and their immediate forms; setCr0 compares with zero.      *)
Compared(a, b, so) == [lt |-> a < b, gt |-> a > b, eq |-> a = b, so |-> so]

(* trapCond.                                                                *)
TrapCond(to, a, b) ==
  \/ "lt" \in to /\ Signed(a) < Signed(b)
  \/ "gt" \in to /\ Signed(a) > Signed(b)
  \/ "eq" \in to /\ a = b
  \/ "ltu" \in to /\ a < b
  \/ "gtu" \in to /\ a > b
=============================================================================
