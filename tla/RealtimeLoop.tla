---------------------------- MODULE RealtimeLoop ----------------------------
(***************************************************************************)
(* opm_run with real time on (capi/src/capi.cpp): move the clock from the  *)
(* host, look at the devices, give the host processor back while the guest *)
(* has nothing to do (hostIdleWait, machine/include/opm/pace.hpp, over     *)
(* HostWait::wait, machine/src/hostclock.cpp), otherwise run a batch.      *)
(*                                                                         *)
(* Time is relative here: the ticks left to each deadline, and the host    *)
(* time the clock has not been given yet.  HostPacer has the absolute      *)
(* clock.                                                                  *)
(***************************************************************************)
EXTENDS Integers

CONSTANTS
  NsPerTick,      \* host nanoseconds per timebase tick (40)
  CatchupTb,      \* most ticks handed over by one sync
  MinAsk, MaxAsk, \* HostWait::kMinAskNs, kMaxAskNs
  MaxIdle,        \* kMaxIdleNsPerCall
  BatchInsns,     \* HostPacer::kBatchInsns
  SkipDiv, RiseDiv, FallDiv,  \* how fast the estimate moves (64, 4, 16)
  Lateness,       \* how late, or early, the host may end a wait
  StepNs,         \* host time one step of a batch takes
  DecLoads,       \* ticks to the request the guest may load DEC with
  DevAhead,       \* ticks to the next device deadline
  MaxCall,        \* most instructions one call is asked for
  Never           \* no deadline

\* What the constants have to be.
LoopConstants ==
  /\ {NsPerTick, CatchupTb, MaxAsk, MaxIdle, BatchInsns, MaxCall} \subseteq Nat \ {0}
  /\ {SkipDiv, RiseDiv, FallDiv} \subseteq Nat \ {0}
  /\ MinAsk \in Nat /\ Never \in Nat
  /\ Lateness \subseteq Int
  /\ StepNs \in Nat \ {0}
  /\ DecLoads \subseteq 1 .. (Never - 1) /\ DevAhead \subseteq 1 .. Never

VARIABLES
  napping, ee, extIrqLine, decPending, halted,
  lag,        \* host time since the clock was last brought up to date
  decLeft,    \* Cpu::tbUntilDec
  devLeft,    \* deviceDueTb - tb, 0 when due
  touched,    \* the guest has touched a device since the last service
  overshoot,  \* HostWait::overshootNs
  phase,      \* where opm_run is: out, sync, idle or batch
  left,       \* until - executed
  room,       \* steps left in the batch
  idleNs,     \* host time this call has spent waiting
  asked,      \* history: the wait asked for since the last sync
  outcome     \* history: what became of it

machine == <<napping, ee, extIrqLine, decPending, halted>>
deadlines == <<decLeft, devLeft, touched>>
call == <<left, room, idleNs>>
history == <<asked, outcome>>
vars == <<machine, lag, deadlines, overshoot, phase, call, history>>

Init ==
  /\ napping = FALSE /\ ee = FALSE /\ extIrqLine = FALSE
  /\ decPending = FALSE /\ halted = FALSE
  /\ lag = 0 /\ decLeft = Never /\ devLeft = 0 /\ touched = FALSE
  /\ overshoot = 0
  /\ phase = "out" /\ left = 0 /\ room = 0 /\ idleNs = 0
  /\ asked = 0 /\ outcome = "none"

Smaller(a, b) == IF a <= b THEN a ELSE b

Larger(a, b) == IF a >= b THEN a ELSE b

\* An enabled interrupt is waiting.
Waiting == ee /\ (extIrqLine \/ decPending)

\* opm_run is called: the run thread does nothing else (Run, MachineSession.cs).
Call(n) ==
  /\ phase = "out" /\ ~halted
  /\ phase' = "sync" /\ left' = n /\ idleNs' = 0
  /\ UNCHANGED <<machine, lag, deadlines, overshoot, room, history>>

\* Between calls the shell pokes a device: keyboard, mouse, media
\* (SawtoothBus::deviceStateChanged).
Poke ==
  /\ phase = "out" /\ ~touched
  /\ touched' = TRUE
  /\ UNCHANGED <<machine, lag, decLeft, devLeft, overshoot, phase, call, history>>

\* HostPacer::sync and SawtoothBus::serviceDevices, in one breath.  A deadline
\* the clock crosses is a request at once; a late one is a late request.
SyncAndService ==
  /\ phase = "sync"
  /\ LET due   == lag \div NsPerTick
         delta == Smaller(due, CatchupTb)
         dec   == IF decLeft = Never THEN Never ELSE decLeft - delta
         dev   == IF devLeft = Never THEN Never ELSE Larger(devLeft - delta, 0)
     IN  /\ lag' = IF due > CatchupTb THEN 0 ELSE lag % NsPerTick
         /\ decPending' = (decPending \/ dec <= 0)
         /\ decLeft' = IF dec <= 0 THEN Never ELSE dec
         /\ IF touched \/ dev = 0
            THEN extIrqLine' \in BOOLEAN /\ devLeft' \in DevAhead
            ELSE UNCHANGED extIrqLine /\ devLeft' = dev
         /\ touched' = FALSE
  /\ phase' = "idle"
  /\ asked' = 0 /\ outcome' = "none"
  /\ UNCHANGED <<napping, ee, halted, overshoot, call>>

\* The nearer deadline, in host time, clamped before it could overflow.
AskNs ==
  LET ticks == Smaller(decLeft, devLeft)
  IN  IF ticks > MaxAsk \div NsPerTick THEN MaxAsk ELSE ticks * NsPerTick

\* Mutant: a waiting interrupt does not keep the host awake.
IdleAlways == napping

\* hostIdleWait's question: is there nothing to do?
Idle == napping /\ ~Waiting

\* Mutant: the skip path leaves the estimate where it is.
SkipEstimateLatched(e) == e

\* HostWait::wait on its skip path: the estimate comes down.
SkipEstimate(e) == e - (e \div SkipDiv)

\* Mutant: the estimate falls by a share of what was measured.
LearnUnderflow(e, over) ==
  IF over > e THEN e + ((over - e) \div RiseDiv) ELSE e - (over + 1)

\* HostWait::wait after a wait that ended `over` late: up fast, down slowly.
Learn(e, over) ==
  IF over > e THEN e + ((over - e) \div RiseDiv) ELSE e - ((e - over) \div FallDiv)

\* The deadline is too near to be worth a system call.
SkipWait ==
  /\ phase = "idle" /\ Idle
  /\ AskNs <= overshoot + MinAsk
  /\ overshoot' = SkipEstimate(overshoot)
  /\ asked' = AskNs /\ outcome' = "skip"
  /\ phase' = "batch" /\ room' = Smaller(left, BatchInsns)
  /\ UNCHANGED <<machine, lag, deadlines, left, idleNs>>

\* Mutant: the time spent waiting is not counted against the call.
NoteIdleNever(actual) == UNCHANGED idleNs /\ phase' = "sync"

\* The call has waited long enough, or goes round again.
NoteIdle(actual) ==
  /\ idleNs' = idleNs + actual
  /\ phase' = IF idleNs' >= MaxIdle THEN "out" ELSE "sync"

\* Wait, for less than is wanted by what asking costs, and learn what it cost.
\* A wait of no length at all counts as none.
Wait ==
  /\ phase = "idle" /\ Idle
  /\ AskNs > overshoot + MinAsk
  /\ \E d \in Lateness :
       LET ask    == AskNs - overshoot
           actual == Larger(ask + d, 0)
       IN  /\ overshoot' = Learn(overshoot, Larger(actual - ask, 0))
           /\ lag' = lag + actual
           /\ asked' = AskNs /\ outcome' = "wait"
           /\ IF actual = 0
              THEN /\ phase' = "batch" /\ room' = Smaller(left, BatchInsns)
                   /\ UNCHANGED idleNs
              ELSE NoteIdle(actual) /\ UNCHANGED room
  /\ UNCHANGED <<machine, deadlines, left>>

\* There is something to do: a batch, as long as the caller's budget allows.
StartBatch ==
  /\ phase = "idle" /\ ~Idle
  /\ phase' = "batch" /\ room' = Smaller(left, BatchInsns)
  /\ UNCHANGED <<machine, lag, deadlines, overshoot, left, idleNs, history>>

\* One step of the batch has been run; brk ends the batch.
Stepped(brk) ==
  /\ left' = left - 1
  /\ lag' = lag + StepNs
  /\ room' = IF brk THEN 0 ELSE room - 1
  /\ phase' = IF room' > 0 THEN "batch"
              ELSE IF left' > 0 /\ ~halted' THEN "sync" ELSE "out"
  /\ UNCHANGED <<overshoot, idleNs, history>>

TakeInterrupt ==
  /\ phase = "batch" /\ Waiting
  /\ napping' = FALSE /\ ee' = FALSE
  /\ decPending' = (decPending /\ extIrqLine)
  /\ UNCHANGED <<extIrqLine, halted, deadlines>>
  /\ Stepped(FALSE)

NapStep ==
  /\ phase = "batch" /\ napping /\ ~Waiting
  /\ UNCHANGED <<machine, deadlines>>
  /\ Stepped(FALSE)

\* The guest's instructions, by what they do here.  Interrupts are asked about
\* at every step; how late a line of instructions may ask is RunLoop's matter.
Awake == phase = "batch" /\ ~napping /\ ~Waiting

Plain == Awake /\ UNCHANGED <<machine, deadlines>> /\ Stepped(FALSE)

MtMsr(e, pow) ==
  /\ Awake
  /\ ee' = e /\ napping' = pow
  /\ UNCHANGED <<extIrqLine, decPending, halted, deadlines>>
  /\ Stepped(pow)

\* Never is a negative value, which is a request if DEC was not negative.
MtDec(d) ==
  /\ Awake
  /\ decLeft' = d
  /\ decPending' = (decPending \/ (d = Never /\ decLeft # Never))
  /\ UNCHANGED <<napping, ee, extIrqLine, halted, devLeft, touched>>
  /\ Stepped(TRUE)

TouchDevice ==
  /\ Awake
  /\ touched' = TRUE
  /\ UNCHANGED <<machine, decLeft, devLeft>>
  /\ Stepped(TRUE)

Halt ==
  /\ Awake
  /\ halted' = TRUE
  /\ UNCHANGED <<napping, ee, extIrqLine, decPending, deadlines>>
  /\ Stepped(TRUE)

Next ==
  \/ \E n \in 1 .. MaxCall : Call(n)
  \/ Poke
  \/ SyncAndService
  \/ SkipWait
  \/ Wait
  \/ StartBatch
  \/ TakeInterrupt
  \/ NapStep
  \/ Plain
  \/ \E e, pow \in BOOLEAN : MtMsr(e, pow)
  \/ \E d \in DecLoads \cup {Never} : MtDec(d)
  \/ TouchDevice
  \/ Halt

\* One thread runs the loop and calls it again: it does not stop by itself.
Spec == Init /\ [][Next]_vars /\ WF_vars(Next)
-----------------------------------------------------------------------------
\* Type invariant; the estimate is unsigned, and a batch fits its call.
TypeOK ==
  /\ machine \in BOOLEAN \X BOOLEAN \X BOOLEAN \X BOOLEAN \X BOOLEAN
  /\ lag \in Nat /\ overshoot \in Nat /\ idleNs \in Nat
  /\ decLeft \in 1 .. Never /\ devLeft \in 0 .. Never
  /\ touched \in BOOLEAN
  /\ phase \in {"out", "sync", "idle", "batch"}
  /\ left \in 0 .. MaxCall /\ room \in 0 .. Smaller(left, BatchInsns)
  /\ asked \in Nat /\ outcome \in {"none", "skip", "wait"}

\* Every call of opm_run returns, whatever the guest does, a core that naps
\* with interrupts disabled and nothing due included ("hanging the app's run
\* thread", capi.cpp).
CallReturns == (phase # "out") ~> (phase = "out")

\* A core asleep with interrupts enabled and the decrementer counting wakes:
\* waiting on the host never starves the clock or a waiting interrupt.
DecrementerWakes == (napping /\ ee /\ decLeft # Never) ~> ~napping

\* The wait switches itself on again after any hitch ("a degradation path has
\* to be able to come back", HostWait::wait): the core cannot ask for far
\* deadlines for ever and be refused every time.
FarSkip == outcome = "skip" /\ asked >= MinAsk + SkipDiv

WaitComesBack == []<>FarSkip => []<>(outcome = "wait")
=============================================================================
