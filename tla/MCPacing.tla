------------------------------ MODULE MCPacing ------------------------------
(***************************************************************************)
(* Real time and waiting on small instances: the pacer that owns the       *)
(* guest's clock (HostPacer), the loop that waits on the host              *)
(* (RealtimeLoop), and two loops of the guest that end only if the         *)
(* instructions they are made of do their part, the retry loop of lwarx    *)
(* and stwcx. and the polls of THRM1 and L2CR (GuestLoops). The            *)
(* parts are explored one at a time.                                       *)
(***************************************************************************)
EXTENDS HostPacer

\* Less than a tick, more than a tick, and a stall past the cap.
MCElapses == {1, 4, 10}

\* A write behind the clock and one far ahead of it.
MCTbWrites == {0, 6}
-----------------------------------------------------------------------------
VARIABLES part,
  napping, ee, extIrqLine, decPending, halted, lag, decLeft, devLeft,
  touched, overshoot, phase, left, room, idleNs, asked, outcome,
  mem, resv, pc, tmp, cr0, running, made, irqs, faults,
  thrm1, thrm3, l2cr, l2, written, usr, exc, drv

loop == <<napping, ee, extIrqLine, decPending, halted, lag, decLeft, devLeft,
          touched, overshoot, phase, left, room, idleNs, asked, outcome>>
retry == <<mem, resv, pc, tmp, cr0, running, made, irqs, faults>>
polls == <<thrm1, thrm3, l2cr, l2, written, usr, exc, drv>>

\* The host ends a wait early, on time, a little late, or after a hitch.
L == INSTANCE RealtimeLoop WITH
       NsPerTick <- 2, CatchupTb <- 4, MinAsk <- 1, MaxAsk <- 6, MaxIdle <- 8,
       BatchInsns <- 2, SkipDiv <- 4, RiseDiv <- 2, FallDiv <- 4,
       Lateness <- {-6, 0, 1, 14}, StepNs <- 1, DecLoads <- {1, 4},
       DevAhead <- {2, 99}, MaxCall <- 3, Never <- 99

G == INSTANCE GuestLoops WITH
       Adds <- 3, Interrupts <- 3, Faults <- 2, MaxThreshold <- 12, DieTemp <- 5, DirtyLines <- 2

ASSUME PartConstants == L!LoopConstants /\ G!LoopBounds

MCInit ==
  /\ part \in {"pacer", "loop", "retry", "polls"}
  /\ Init /\ L!Init
  /\ IF part = "retry" THEN TRUE ELSE resv = FALSE
  /\ IF part = "polls" THEN TRUE ELSE l2 = [dirty |-> 0, valid |-> 2]
  /\ G!Init

InLoop(N) == part = "loop" /\ N /\ UNCHANGED <<part, vars, retry, polls>>
InRetry(N) == part = "retry" /\ N /\ UNCHANGED <<part, vars, loop, polls>>
InPolls(N) == part = "polls" /\ N /\ UNCHANGED <<part, vars, loop, retry>>

MCNext ==
  \/ part = "pacer" /\ Next /\ UNCHANGED <<part, loop, retry, polls>>
  \/ InLoop(L!Next) \/ InRetry(G!RetryNext) \/ InPolls(G!PollNext)

\* One thread runs the loop and calls it again: it does not stop by itself.
\* And the processor executes its next instruction sooner or later.
Progress ==
  \/ InLoop(L!Next)
  \/ InRetry(G!RetryProgress) \/ InPolls(G!Kernel)

MCSpec == MCInit /\ [][MCNext]_<<part, vars, loop, retry, polls>>
          /\ WF_<<loop, retry, polls>>(Progress)
-----------------------------------------------------------------------------
\* Every call of opm_run returns, whatever the guest does, a core that naps
\* with interrupts disabled and nothing due included ("hanging the app's run
\* thread", capi.cpp).
CallReturns == L!CallReturns

\* A core asleep with interrupts enabled and the decrementer counting wakes:
\* waiting on the host never starves the clock or a waiting interrupt.
DecrementerWakes == L!DecrementerWakes

\* The wait switches itself on again after any hitch ("a degradation path has
\* to be able to come back", HostWait::wait): the core cannot ask for far
\* deadlines for ever and be refused every time.
WaitComesBack == L!WaitComesBack

\* The guest's loops end, and with the right outcome: the retry loop makes its
\* additions and none of them is ever lost, wherever an interrupt or a page
\* fault fell (h_stwcx); the search for the die's temperature finds it, resumed
\* in the middle or not, and the flush of the L2 leaves every modified line in
\* memory (thrmUpdate, mtspr L2CR).
LoopsEndRight ==
  <>[](/\ part = "retry" => pc["task"] = "end" /\ G!NoLostUpdate
       /\ part = "polls" => drv.at = "end" /\ drv.lo = 5 /\ written = 2
                            /\ G!NoLineDropped)
=============================================================================
