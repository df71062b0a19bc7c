------------------------------ MODULE StepLoop ------------------------------
(***************************************************************************)
(* The one-at-a-time machine: execute one instruction (Cpu::step), apply   *)
(* its cycles to the clock, look at the devices, repeat.  This is what the *)
(* batching run loop of RunLoop promises to be indistinguishable from      *)
(* (machine/include/opm/pace.hpp, "why it is exact and not an              *)
(* approximation").                                                        *)
(***************************************************************************)
EXTENDS Instructions

CONSTANTS
  Ahead,     \* how far ahead of TB a device may set its next deadline
  MaxSleep   \* bound on a run of sleeping steps taken as one

VARIABLES
  clk,         \* the clock, always current
  napping,     \* the core is in nap/doze/sleep
  ee,          \* MSR[EE]
  extIrqLine,  \* the interrupt controller's output, as last sampled
  pmPending,   \* performance-monitor request
  due,         \* earliest timebase at which a timed device could act
  seen,        \* the last reading of the timebase by the guest or a device
  halted       \* execution cannot continue

vars == <<clk, napping, ee, extIrqLine, pmPending, due, seen, halted>>

Init ==
  /\ clk \in Clock
  /\ napping \in BOOLEAN /\ ee \in BOOLEAN /\ extIrqLine \in BOOLEAN
  /\ pmPending = FALSE /\ due \in Nat /\ seen \in Reading /\ halted = FALSE

Waiting(c) == ee /\ (extIrqLine \/ c.decPending \/ pmPending)

\* Devices are looked at when the guest touched one or one has fallen due.
Service(tb, touched) ==
  IF touched \/ tb >= due
  THEN /\ extIrqLine' \in BOOLEAN
       /\ due' \in {tb + a : a \in Ahead} \cup {Never}
  ELSE UNCHANGED <<extIrqLine, due>>

Retire(c, cycles, touched) ==
  /\ clk' = Tick(c, cycles)
  /\ Service(clk'.tb, touched)

\* An enabled interrupt waiting at the boundary is taken, external first.
TakeInterrupt ==
  /\ ~halted /\ Waiting(clk)
  /\ napping' = FALSE /\ ee' = FALSE
  /\ \/ /\ extIrqLine
        /\ Retire(clk, ExtraCycles, FALSE)
        /\ UNCHANGED pmPending
     \/ /\ ~extIrqLine /\ clk.decPending
        /\ Retire([clk EXCEPT !.decPending = FALSE], ExtraCycles, FALSE)
        /\ UNCHANGED pmPending
     \/ /\ ~extIrqLine /\ ~clk.decPending
        /\ Retire(clk, ExtraCycles, FALSE)
        /\ pmPending' = FALSE
  /\ UNCHANGED <<seen, halted>>

\* n sleeping steps, none of which could have been anything else: at every
\* boundary inside them no interrupt is waiting and no device has fallen due.
Sleep(n) ==
  /\ ~halted /\ napping
  /\ \A k \in 0 .. (n - 1) :
       LET c == Tick(clk, k * CyclesPerStep)
       IN  ~Waiting(c) /\ (k > 0 => c.tb < due)
  /\ Retire(clk, n * CyclesPerStep, FALSE)
  /\ UNCHANGED <<napping, ee, pmPending, seen, halted>>

\* One instruction, with no interrupt waiting.
Execute(i) ==
  /\ ~halted /\ ~napping /\ ~Waiting(clk)
  /\ Retire(ClockAfter(i, clk), CostOf(i), TouchesDevice(i))
  /\ ee' = EeAfter(i, ee)
  /\ napping' = NapAfter(i)
  /\ pmPending' = PmAfter(i, pmPending)
  /\ seen' = SeenAfter(i, clk.tb, seen)
  /\ halted' = (i.kind = "halt")

Next ==
  \/ TakeInterrupt
  \/ \E n \in 1 .. MaxSleep : Sleep(n)
  \/ \E i \in Insns : Execute(i)

Spec == Init /\ [][Next]_vars
=============================================================================
