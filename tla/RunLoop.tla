------------------------------ MODULE RunLoop -------------------------------
(***************************************************************************)
(* The instruction-paced run loop: opm_run (capi/src/capi.cpp) over        *)
(* napSkip, batchSteps and runBatch (machine/include/opm/pace.hpp) and     *)
(* Cpu::runSteps with its line executor (core/src/cpu.cpp).                *)
(*                                                                         *)
(* Instructions inside a batch CHARGE cycles and the end of the batch      *)
(* APPLIES them.  A straight line of instructions is run without asking    *)
(* about interrupts between them.                                          *)
(***************************************************************************)
EXTENDS Instructions

CONSTANTS
  LineWords,   \* instructions in a fetch line (8)
  Ahead,       \* how far ahead of TB a device may set its next deadline
  MaxBudget,   \* most instructions one opm_run call is asked for
  MaxTb        \* bound: no new call once the timebase has reached this

ASSUME LoopConstants ==
  /\ LineWords \in Nat \ {0}
  /\ Ahead \subseteq Nat \ {0}
  /\ MaxBudget \in Nat \ {0}
  /\ MaxTb \in Nat

\* No batch is half a decrementer range long (clockAdvance: "a number of cycles
\* no caller passes"), so DEC changes sign at most once inside one.
ASSUME BatchFitsDecrementer ==
  MaxBudget * CyclesPerStep <= DecHalf * CyclesPerTbTick

VARIABLES
  clk,         \* tb, dec, cycleAccum, decPending: behind by pendCycles
  pendCycles,  \* cycles charged and not yet applied
  napping, ee, extIrqLine, pmPending,
  due,         \* SawtoothBus::devDueTb_
  seen,        \* the last reading of the timebase by the guest or a device
  halted,
  budget,      \* until - executed of the opm_run in progress
  left,        \* until - i of the runSteps in progress, 0 outside one
  line,        \* words left in the line being executed, 0 at the outer loop
  late,        \* history: instructions run past an enabled pending interrupt
  total        \* history: every cycle charged since the timebase was written

vars == <<clk, pendCycles, napping, ee, extIrqLine, pmPending, due, seen,
          halted, budget, left, line, late, total>>

Init ==
  /\ clk = [tb |-> 0, dec |-> DecModulus - 1, cycleAccum |-> 0,
            decPending |-> FALSE]
  /\ pendCycles = 0
  /\ napping = FALSE /\ ee = FALSE /\ extIrqLine = FALSE /\ pmPending = FALSE
  /\ due = 0 /\ seen = <<"mftb", 0>> /\ halted = FALSE
  /\ budget = 0 /\ left = 0 /\ line = 0
  /\ late = 0 /\ total = 0

Waiting(c) == ee /\ (extIrqLine \/ c.decPending \/ pmPending)

Smaller(a, b) == IF a <= b THEN a ELSE b

\* Steps until the published device deadline, through the same cycles per
\* step the clock advances at.
StepsUntilDevice ==
  ((due - clk.tb) * CyclesPerTbTick) \div CyclesPerStep

\* napSkipSlow: sleeping steps that may be charged without stepping; 0 when
\* an interrupt is waiting, a device is due, or there is no room.
NapSkipSteps ==
  LET n == Smaller(Smaller(budget, StepsUntilDec(clk, CyclesPerStep)),
                   StepsUntilDevice)
  IN  IF budget < 2 \/ Waiting(clk) \/ due <= clk.tb \/ n < 2 THEN 0 ELSE n

\* Mutant: the device bound is rounded up.
BatchStepsCeil ==
  LET n == Smaller(Smaller(budget, StepsUntilDec(clk, CyclesPerStep)),
                   CeilDiv((due - clk.tb) * CyclesPerTbTick, CyclesPerStep))
  IN  IF budget < 2 THEN budget
      ELSE IF due <= clk.tb \/ n = 0 THEN 1
      ELSE n

\* Mutant: the caller's budget is not one of the bounds.
BatchStepsNoBudget ==
  LET n == Smaller(StepsUntilDec(clk, CyclesPerStep), StepsUntilDevice)
  IN  IF budget < 2 THEN budget
      ELSE IF due <= clk.tb \/ n = 0 THEN 1
      ELSE n

\* batchSteps: instructions that may run before anything outside the
\* processor could matter.
BatchSteps ==
  LET n == Smaller(Smaller(budget, StepsUntilDec(clk, CyclesPerStep)),
                   StepsUntilDevice)
  IN  IF budget < 2 THEN budget
      ELSE IF due <= clk.tb \/ n = 0 THEN 1
      ELSE n

\* SawtoothBus::serviceDevices: answer from the cache unless the guest
\* touched a device or one has fallen due.
ServiceDevices(tb, touched) ==
  IF touched \/ tb >= due
  THEN /\ extIrqLine' \in BOOLEAN
       /\ due' \in {tb + a : a \in Ahead} \cup {Never}
  ELSE UNCHANGED <<extIrqLine, due>>

\* A new opm_run call.
OpmRun ==
  /\ budget = 0 /\ ~halted
  /\ clk.tb < MaxTb
  /\ budget' \in 1 .. MaxBudget
  /\ UNCHANGED <<clk, pendCycles, napping, ee, extIrqLine, pmPending, due,
                 seen, halted, left, line, late, total>>

\* The loop's first arm: charge a run of sleeping steps at once.
NapSkip ==
  /\ budget > 0 /\ left = 0 /\ ~halted
  /\ napping /\ NapSkipSteps > 0
  /\ clk' = ClockAdvanceCycles(clk, NapSkipSteps * CyclesPerStep)
  /\ budget' = budget - NapSkipSteps
  /\ ServiceDevices(clk'.tb, FALSE)
  /\ total' = total + NapSkipSteps * CyclesPerStep
  /\ UNCHANGED <<pendCycles, napping, ee, pmPending, seen, halted, left,
                 line, late>>

\* The loop's second arm: size a batch and enter Cpu::runSteps.
StartBatch ==
  /\ budget > 0 /\ left = 0 /\ ~halted
  /\ ~(napping /\ NapSkipSteps > 0)
  /\ left' = BatchSteps
  /\ UNCHANGED <<clk, pendCycles, napping, ee, extIrqLine, pmPending, due,
                 seen, halted, budget, line, late, total>>

\* The end of a step: charge its cycles; if the batch is over, apply what it
\* owes and look at the devices; otherwise go on, with `words` left in line.
Retire(c, pend, brk, touched, words) ==
  /\ budget' = budget - 1
  /\ IF brk \/ left = 1
     THEN /\ clk' = SyncClock(c, pend)
          /\ pendCycles' = 0
          /\ left' = 0 /\ line' = 0
          /\ ServiceDevices(clk'.tb, touched)
     ELSE /\ clk' = c
          /\ pendCycles' = pend
          /\ left' = left - 1 /\ line' = words
          /\ UNCHANGED <<extIrqLine, due>>

\* Cpu::step with an enabled interrupt waiting: wake, vector, in the order
\* external, decrementer, performance monitor.
TakeInterrupt ==
  /\ left > 0 /\ line = 0 /\ Waiting(clk)
  /\ napping' = FALSE /\ ee' = FALSE
  /\ LET c == IF extIrqLine THEN clk ELSE [clk EXCEPT !.decPending = FALSE]
     IN  Retire(c, pendCycles + ExtraCycles, FALSE, FALSE, 0)
  /\ pmPending' = (pmPending /\ (extIrqLine \/ clk.decPending))
  /\ late' = 0
  /\ total' = total + ExtraCycles
  /\ UNCHANGED <<seen, halted>>

\* Cpu::step on a sleeping core: the clock is charged and nothing else.
NapStep ==
  /\ left > 0 /\ napping /\ ~Waiting(clk)
  /\ Retire(clk, pendCycles + CyclesPerStep, FALSE, FALSE, 0)
  /\ total' = total + CyclesPerStep
  /\ UNCHANGED <<napping, ee, pmPending, seen, halted, late>>

\* One instruction's effect, whichever path dispatched it.
ExecRow(i, words) ==
  LET c == IF Syncs(i) THEN SyncClock(clk, pendCycles) ELSE clk
      p == IF Syncs(i) THEN 0 ELSE pendCycles
      now == IF Syncs(i) THEN c.tb ELSE TbNow(clk, pendCycles)
  IN  /\ Retire(ClockAfter(i, c), p + CostOf(i), Breaks(i), TouchesDevice(i),
                IF LeavesLine(i) THEN 0 ELSE words)
      /\ ee' = EeAfter(i, ee)
      /\ napping' = NapAfter(i)
      /\ pmPending' = PmAfter(i, pmPending)
      /\ seen' = SeenAfter(i, now, seen)
      /\ halted' = (i.kind = "halt")
      /\ late' = IF Waiting(clk) THEN late + 1 ELSE 0
      /\ total' = CostOf(i) +
           IF i.kind = "mttb"
           THEN i.v * CyclesPerTbTick + c.cycleAccum
           ELSE total

\* The outer loop's slow path: Cpu::step finds no interrupt and executes one
\* instruction.  Taken when the line is not resident or a debug feature
\* (trace, IABR, performance monitor) is live.
SlowStep(i) ==
  /\ left > 0 /\ line = 0 /\ ~napping /\ ~Waiting(clk)
  /\ ExecRow(i, 0)

\* Mutant: the line is left one word too late.
EnterLineTooLong(i) ==
  /\ left > 0 /\ line = 0 /\ ~napping /\ ~Waiting(clk)
  /\ \E w \in 0 .. LineWords : ExecRow(i, w)

\* The outer loop's fast path: no interrupt waiting, the line is resident,
\* and its first instruction runs with w words of it left.
EnterLine(i) ==
  /\ left > 0 /\ line = 0 /\ ~napping /\ ~Waiting(clk)
  /\ \E w \in 0 .. (LineWords - 1) : ExecRow(i, w)

\* The line executor's inner loop: the next word, with no question asked
\* about interrupts.
LineStep(i) ==
  /\ left > 0 /\ line > 0
  /\ ExecRow(i, line - 1)

Next ==
  \/ OpmRun
  \/ NapSkip
  \/ StartBatch
  \/ TakeInterrupt
  \/ NapStep
  \/ \E i \in Insns : SlowStep(i)
  \/ \E i \in Insns : EnterLine(i)
  \/ \E i \in Insns : LineStep(i)

Spec == Init /\ [][Next]_vars
-----------------------------------------------------------------------------
\* Type invariant.
TypeOK ==
  /\ clk \in Clock
  /\ pendCycles \in Nat
  /\ napping \in BOOLEAN /\ ee \in BOOLEAN /\ extIrqLine \in BOOLEAN
  /\ pmPending \in BOOLEAN /\ halted \in BOOLEAN
  /\ due \in Nat /\ seen \in Reading
  /\ budget \in Nat /\ left \in 0 .. budget /\ line \in 0 .. (LineWords - 1)
  /\ late \in Nat /\ total \in Nat

\* No cycle is lost or counted twice, whichever of charge, syncClock, the end
\* of a batch and the nap skip moved it: TB and its fraction and what is still
\* owed always add up to everything charged since the guest last set TB.
ClockConservation ==
  clk.tb * CyclesPerTbTick + clk.cycleAccum + pendCycles = total

\* The batch never spans the decrementer's deadline (contract part 2 on
\* Cpu::pendCycles): while instructions remain, applying the owed cycles would
\* raise no decrementer request the processor does not already see.
NoMissedDecrementer ==
  left > 0 => SyncClock(clk, pendCycles).decPending = clk.decPending

\* n more cycles leave the clock short of the decrementer's request.
Short(c, n) == c.cycleAccum + n < (c.dec + 1) * CyclesPerTbTick

\* Why NoMissedDecrementer holds: with everything the rest of the batch can
\* still charge, the step before the last stays short of the request.
BatchShort ==
  left > 0 => Short(clk, pendCycles + (left - 1) * CyclesPerStep)

\* The inductive invariant behind the three properties above.
IInv ==
  /\ TypeOK
  /\ ClockConservation
  /\ budget <= MaxBudget
  /\ left = 0 => pendCycles = 0
  /\ BatchShort

\* The batch never spans a device deadline (batchSteps, "floor: never
\* overshoot"): while instructions remain, no timed device has come due since
\* the batch was sized.
NoOverdueDevice ==
  left > 0 /\ pendCycles > 0 => TbNow(clk, pendCycles) < due

\* The line executor asks about interrupts once per line, so an interrupt
\* enabled inside a line waits for fewer instructions than a line holds.
LateByLessThanALine == late < LineWords

\* Cpu::runSteps: enabling MSR[EE] with a line already asserted "is an mtmsr,
\* which ends it" - no instruction runs past an enabled pending interrupt.
MtmsrEndsTheLine == late = 0

\* The batching loop is indistinguishable from the one-at-a-time loop: seen
\* with its owed cycles applied, every step of it is a step of StepLoop, but
\* for an instruction that runs between an mtmsr, or a counter's overflow,
\* that makes an interrupt deliverable inside a line and the end of that line.
OneAtATime ==
  INSTANCE StepLoop WITH clk <- SyncClock(clk, pendCycles),
                         MaxSleep <- MaxBudget

ExactlyOneAtATime ==
  /\ OneAtATime!Init
  /\ [][late' <= late => [OneAtATime!Next]_(OneAtATime!vars)]_vars
=============================================================================
