---------------------------- MODULE Instructions ----------------------------
(***************************************************************************)
(* What one guest instruction does to the state the run loop cares about:  *)
(* the clock, MSR[EE], the sleep state, the performance-monitor request,   *)
(* and whether it ends the batch or leaves the straight line.              *)
(*                                                                         *)
(* An instruction is a record [kind, v].  Kinds:                           *)
(*   plain   no effect here           map     mtsr, mtspr BAT/SDR1, tlbie  *)
(*   branch  leaves the line: a taken branch, or a store into the block    *)
(*   fault   a synchronous exception                                       *)
(*   mftb    reads TB or DEC          mtdec   writes DEC := v              *)
(*   mttb    writes TB := v           device  touches a device register    *)
(*   mtmsr   MSR[EE] := v             nap     mtmsr with MSR[POW]          *)
(*   rfi     MSR[EE] := v, branches   halt    a handler nobody bound       *)
(*   pmc     a gated instruction whose performance-monitor count overflows *)
(***************************************************************************)
EXTENDS Timebase

CONSTANTS
  InsnCycles,   \* Cpu::insnCycles, architectural cycles per instruction
  ExtraCycles,  \* Cpu::extraCycles, added by the harness to every step
  Insns         \* the instructions the guest may execute

ASSUME InsnConstants ==
  /\ InsnCycles \in Nat /\ ExtraCycles \in Nat
  /\ InsnCycles + ExtraCycles > 0
  /\ \A i \in Insns :
       /\ i.kind \in {"plain", "map", "branch", "fault", "mftb", "mtdec",
                      "mttb", "device", "mtmsr", "nap", "rfi", "pmc", "halt"}
       /\ i.kind = "mtdec" => i.v \in 0 .. (DecModulus - 1)
       /\ i.kind = "mttb" => i.v \in Nat

CyclesPerStep == InsnCycles + ExtraCycles

\* Handlers that apply the charged cycles before they look at the clock.
Syncs(i) == i.kind \in {"mftb", "mtdec", "mttb"}

\* Mutant: a device access does not end the batch.
BreaksNotDevice(i) == i.kind \in {"mtdec", "mttb", "map", "nap", "halt"}

\* Handlers that set batchBreak (a halt ends the batch the same way).
\* mtmsr sets it only when it puts the core to sleep.
Breaks(i) == i.kind \in {"mtdec", "mttb", "map", "device", "nap", "halt"}

\* Instructions after which the pc is not the next word of the line.
LeavesLine(i) == i.kind \in {"branch", "rfi", "fault"}

TouchesDevice(i) == i.kind = "device"

\* The clock the handler leaves behind, before the instruction's own cycles.
ClockAfter(i, c) ==
  CASE i.kind = "mtdec" -> WriteDec(c, i.v)
    [] i.kind = "mttb"  -> WriteTb(c, i.v)
    [] OTHER            -> c

EeAfter(i, e) ==
  CASE i.kind \in {"mtmsr", "nap", "rfi"} -> i.v = 1
    [] i.kind = "fault"                   -> FALSE
    [] OTHER                              -> e

NapAfter(i) == i.kind = "nap"

PmAfter(i, pm) == pm \/ i.kind = "pmc"

\* A reading of the timebase: by whom, and what it was.
Reading == {"mftb", "device"} \X Nat

\* The timebase the guest or a device reads: exact, charged cycles included.
SeenAfter(i, now, s) ==
  IF i.kind \in {"mftb", "device"} THEN <<i.kind, now>> ELSE s

\* A halt returns before the instruction is charged.
CostOf(i) == IF i.kind = "halt" THEN 0 ELSE CyclesPerStep
-----------------------------------------------------------------------------
\* The instructions the model checker tries: every kind, with values of DEC
\* on both sides of its sign, a timebase, and interrupts switched on and off.
SampleInsns ==
  LET Op(k, vs) == {[kind |-> k, v |-> v] : v \in vs}
  IN  UNION {Op(k, {0}) : k \in {"plain", "map", "branch", "fault", "mftb", "device",
                                 "pmc", "halt"}}
      \cup Op("mtdec", {2, DecHalf}) \cup Op("mttb", {1}) \cup Op("rfi", {1})
      \cup Op("nap", {0, 1}) \cup Op("mtmsr", {0, 1})
=============================================================================
