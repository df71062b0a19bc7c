------------------------------- MODULE Fpscr --------------------------------
(***************************************************************************)
(* The FPSCR state machine of the floating-point executors                 *)
(* (core/src/fpu.cpp): the common tail of the arithmetic instructions with *)
(* its short cut for results that raise nothing but inexact, the compares, *)
(* and the instructions that read and write the FPSCR. The register is the *)
(* set of its bits that are one; numeric results come from SoftFp and are  *)
(* the flags they raise.                                                   *)
(***************************************************************************)
EXTENDS Naturals

CONSTANTS Results,   \* sets of flags an operation may raise
          Values,    \* values mtfsf and mtfsfi may write, sets of bits
          Settable   \* bits mtfsb0 and mtfsb1 are used on

VARIABLES fpscr,   \* the set of bits that are one
          fe,      \* MSR[FE0] or MSR[FE1]
          wrote,   \* the last instruction wrote its target register
          trap,    \* the last instruction raised the program exception
          insn     \* the last instruction

vars == <<fpscr, fe, wrote, trap, insn>>

Invalids == {"VXSNAN", "VXISI", "VXIDI", "VXZDZ", "VXIMZ", "VXVC", "VXSOFT", "VXSQRT", "VXCVI"}
Exceptions == {"OX", "UX", "ZX", "XX"} \cup Invalids     \* fExcAll but FX
Derived == {"FEX", "VX"}
Enabled(f) == (("VX" \in f) /\ ("VE" \in f)) \/ (("OX" \in f) /\ ("OE" \in f))
              \/ (("UX" \in f) /\ ("UE" \in f)) \/ (("ZX" \in f) /\ ("ZE" \in f))
              \/ (("XX" \in f) /\ ("XE" \in f))

(* The eight fields of the register that hold these bits.                   *)
Fields == << {"FX", "FEX", "VX", "OX"}, {"UX", "ZX", "XX", "VXSNAN"},
             {"VXISI", "VXIDI", "VXZDZ", "VXIMZ"}, {"VXVC", "FR", "FI"}, {},
             {"VXSOFT", "VXSQRT", "VXCVI"}, {"VE", "OE", "UE", "ZE"}, {"XE"} >>

Bits == Exceptions \cup Derived \cup {"FX", "FR", "FI", "VE", "OE", "UE", "ZE", "XE"}

Only(cond, b) == IF cond THEN {b} ELSE {}
-----------------------------------------------------------------------------
(* refresh: VX from the invalid bits, then FEX from the enabled exceptions. *)
Refresh(f) ==
  LET v == (f \ Derived) \cup Only(f \cap Invalids # {}, "VX")
  IN  v \cup Only(Enabled(v), "FEX")

(* Mutant: the short cut forgets that XX may be enabled. *)
OrdinaryQuiet(f, fl) ==
  (f \ {"FR", "FI"}) \cup Only("FR" \in fl, "FR")
  \cup (IF "XX" \in fl THEN {"XX", "FI"} \cup Only("XX" \notin f, "FX") ELSE {})

(* commit, the ordinary result: nothing but inexact, so only XX can move    *)
(* and FEX only be set.                                                     *)
Ordinary(f, fl) ==
  LET nf == (f \ {"FR", "FI"}) \cup Only("FR" \in fl, "FR")
  IN  IF "XX" \in fl
      THEN nf \cup {"XX", "FI"} \cup Only("XX" \notin f, "FX") \cup Only("XE" \in f, "FEX")
      ELSE nf

(* Mutant: only a first exception sets FX. *)
GeneralOnce(f, fl) ==
  LET exc == fl \ {"FR"}
  IN  Refresh(((f \ {"FR", "FI"}) \cup exc
               \cup Only(f \cap Exceptions = {}, "FX")
               \cup Only("XX" \in fl, "FI")) \cup Only("FR" \in fl, "FR"))

(* commit, every other result.                                              *)
General(f, fl) ==
  LET exc == fl \ {"FR"}
  IN  Refresh(((f \ {"FR", "FI"}) \cup exc
               \cup Only(\E e \in exc : e \notin f, "FX")
               \cup Only("XX" \in fl, "FI")) \cup Only("FR" \in fl, "FR"))

(* Mutant: only the invalid operation is suppressed. *)
SuppressedInvalid(f, fl) == fl \cap Invalids # {} /\ "VE" \in f

(* commit: an enabled invalid operation or division by zero leaves the      *)
(* target register alone.                                                   *)
Suppressed(f, fl) ==
  (fl \cap Invalids # {} /\ "VE" \in f) \/ ("ZX" \in fl /\ "ZE" \in f)

(* trapIfEnabled.                                                           *)
Traps(f) == "FEX" \in f /\ fe
-----------------------------------------------------------------------------
Arithmetic(fl) ==
  /\ fpscr' = IF fl \subseteq {"XX", "FR"} THEN Ordinary(fpscr, fl) ELSE General(fpscr, fl)
  /\ wrote' = ~(~(fl \subseteq {"XX", "FR"}) /\ Suppressed(fpscr, fl))
  /\ trap' = Traps(fpscr')
  /\ insn' = "arithmetic"
  /\ UNCHANGED fe

(* compare: a signalling NaN, and for fcmpo any NaN; VXVC is added to       *)
(* VXSNAN only while the invalid operation is disabled.                     *)
CompareExc(f, snan, nan, ordered) ==
  CASE snan -> {"VXSNAN"} \cup Only(ordered /\ "VE" \notin f, "VXVC")
    [] ~snan /\ nan -> Only(ordered, "VXVC")
    [] ~snan /\ ~nan -> {}

Compare(snan, nan, ordered) ==
  /\ fpscr' = LET exc == CompareExc(fpscr, snan, nan, ordered)
              IN  Refresh(fpscr \cup exc \cup Only(\E e \in exc : e \notin fpscr, "FX"))
  /\ wrote' = FALSE
  /\ trap' = Traps(fpscr')
  /\ insn' = "compare"
  /\ UNCHANGED fe

(* Mutant: the enables that are copied are cleared as well. *)
McrfsClearsAll(f, k) == Refresh(f \ Fields[k])

(* mcrfs: the exception bits it copies are cleared; it never traps.         *)
McrfsClears(f, k) == Refresh(f \ (Fields[k] \cap (Exceptions \cup {"FX"})))

Mcrfs(k) ==
  /\ fpscr' = McrfsClears(fpscr, k)
  /\ wrote' = FALSE /\ trap' = FALSE /\ insn' = "mcrfs"
  /\ UNCHANGED fe

(* mtfsf and mtfsfi: the fields of the mask, but for FEX and VX.            *)
Mtfsf(fields, v) ==
  LET mask == (UNION {Fields[k] : k \in fields}) \ Derived
  IN  /\ fpscr' = Refresh((fpscr \ mask) \cup (v \cap mask))
      /\ wrote' = FALSE
      /\ trap' = Traps(fpscr')
      /\ insn' = "mtfsf"
      /\ UNCHANGED fe

(* mtfsb1 and mtfsb0; setting an exception bit sets FX as well.             *)
Mtfsb(bit, set) ==
  /\ fpscr' = IF bit \in Derived THEN fpscr
              ELSE IF ~set THEN Refresh(fpscr \ {bit})
              ELSE Refresh(fpscr \cup {bit} \cup Only(bit \in Exceptions /\ bit \notin fpscr, "FX"))
  /\ wrote' = FALSE
  /\ trap' = (bit \notin Derived /\ Traps(fpscr'))
  /\ insn' = IF set THEN "mtfsb1" ELSE "mtfsb0"
  /\ UNCHANGED fe

(* fmr, fneg, fabs, fnabs, fsel, mffs: no FPSCR bit moves.                  *)
Move ==
  /\ wrote' = TRUE /\ trap' = FALSE /\ insn' = "move"
  /\ UNCHANGED <<fpscr, fe>>

(* The guest turns the exception mode on or off (mtmsr, rfi).               *)
SetFe == /\ fe' = ~fe
         /\ wrote' = FALSE /\ trap' = FALSE /\ insn' = "mtmsr"
         /\ UNCHANGED fpscr
-----------------------------------------------------------------------------
Init == fpscr = {} /\ fe = FALSE /\ wrote = FALSE /\ trap = FALSE /\ insn = "mtmsr"

Next == \/ \E fl \in Results : Arithmetic(fl)
        \/ \E snan \in BOOLEAN, nan \in BOOLEAN, ordered \in BOOLEAN :
             (snan => nan) /\ Compare(snan, nan, ordered)
        \/ \E k \in 1..8 : Mcrfs(k)
        \/ \E fields \in {{7, 8}, 1..8}, v \in Values : Mtfsf(fields, v)
        \/ \E b \in Settable, set \in BOOLEAN : Mtfsb(b, set)
        \/ Move \/ SetFe

Spec == Init /\ [][Next]_vars
-----------------------------------------------------------------------------
TypeOK == fpscr \in SUBSET Bits /\ fe \in BOOLEAN /\ wrote \in BOOLEAN /\ trap \in BOOLEAN

(* VX and FEX are at every moment the ORs the architecture defines, though  *)
(* the ordinary result never recomputes them (commit, refresh).             *)
DerivedBits == /\ "VX" \in fpscr <=> fpscr \cap Invalids # {}
               /\ "FEX" \in fpscr <=> Enabled(fpscr)

(* An exception bit stands until an instruction that writes the FPSCR       *)
(* clears it, and whoever raises a new one by computing or by mtfsb1 sets   *)
(* FX as well.                                                              *)
StickyWithFx ==
  /\ (\E e \in Exceptions : e \in fpscr /\ e \notin fpscr') => insn' \in {"mcrfs", "mtfsf", "mtfsb0"}
  /\ (insn' # "mtfsf" /\ \E e \in Exceptions : e \notin fpscr /\ e \in fpscr') => "FX" \in fpscr'

(* With the exception mode on, no computing instruction leaves an enabled   *)
(* exception standing without the trap, and the one that brings about an    *)
(* enabled invalid operation or division by zero has not written its        *)
(* register (trapIfEnabled, the suppression of commit).                     *)
PreciseTraps ==
  insn' = "arithmetic" =>
    /\ trap' <=> (Enabled(fpscr') /\ fe)
    /\ ~(wrote' /\ ~Enabled(fpscr)
         /\ ({"VX", "VE"} \subseteq fpscr' \/ {"ZX", "ZE"} \subseteq fpscr'))

(* mcrfs takes away only exception bits: an enable it copies stays.         *)
EnablesSurviveMcrfs ==
  insn' = "mcrfs" => \A b \in {"VE", "OE", "UE", "ZE", "XE", "FR", "FI"} :
                        b \in fpscr => b \in fpscr'
=============================================================================
