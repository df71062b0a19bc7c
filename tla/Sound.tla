------------------------------- MODULE Sound --------------------------------
(***************************************************************************)
(* Playback, end to end: the sound driver's ring on the audio DBDMA        *)
(* channel, the codec that drains it (machine/src/awacs.cpp), the device   *)
(* gate that wakes the channel and pulses its interrupt (ohciTick,         *)
(* syncIrqs and pulse of machine/include/opm/sawtooth.hpp), the interrupt  *)
(* controller, and another device that shares it.                          *)
(*                                                                         *)
(* A unit is what the codec plays in one tick, so the play cursor is a     *)
(* number of units.  The driver is Mac OS's, as the comment on             *)
(* AwacsCell::outDueTb describes it: slice, flag and interrupt, slice,     *)
(* flag and interrupt, STOP; the first slice's interrupt turns the STOP    *)
(* into a NOP that goes round again, the second one's puts it back, and a  *)
(* channel found idle is started again.                                    *)
(***************************************************************************)
EXTENDS Dbdma

CONSTANTS
  Fifo,      \* kFifoBytes, in units
  Slice,     \* a slice of the driver's ring (a quarter of the FIFO)
  Snd, Other,\* interrupt sources: the channel's and another device's
  None,
  Latency,   \* ticks a driver may leave an interrupt unfinished
  Late       \* ticks by which the gate may find a device overdue

\* What the constants have to be.
SoundConstants ==
  /\ Fifo \in Nat \ {0} /\ Slice \in Nat \ {0}
  /\ Snd \in Nat /\ Other \in Nat /\ Snd # Other
  /\ Latency \in Nat /\ Late \in Nat

VARIABLES
  ch,       \* the playback channel
  pulled,   \* the driver has turned the STOP into a NOP
  ahead,    \* playTb_ - nowTb_, or 0 when the codec has run dry
  line,     \* the other device's interrupt line
  pic,      \* the interrupt controller
  touched,  \* devGen_ # devGenSeen_: the guest has touched a device
  cpuIrq,   \* the interrupt line as the processor sees it
  doing,    \* where the driver is
  waited,   \* ticks since an interrupt became the driver's business
  overdue   \* ticks since the channel was to be woken

hardware == <<ch, ahead, line, pic, touched, cpuIrq>>
clocks == <<waited, overdue>>
vars == <<hardware, pulled, doing, clocks>>

\* The controller's functions; its history of edges is not kept here.
Pic == INSTANCE OpenPic WITH
         Sources <- {Snd, Other}, MaxPri <- 2, owed <- <<>>

\* The driver's list, with the STOP in place or pulled.
Rings ==
  LET D(op, req, int, br) ==
        [op |-> op, req |-> req, int |-> int, br |-> br, to |-> 0]
  IN  [p \in BOOLEAN |-> [d \in 0 .. 4 |->
         CASE d = 0 -> D("output", Slice, FALSE, "never")
           [] d = 1 -> D("storeQuad", 1, TRUE, "never")
           [] d = 2 -> D("output", Slice, FALSE, "never")
           [] d = 3 -> D("storeQuad", 1, TRUE, "never")
           [] d = 4 -> D(IF p THEN "nop" ELSE "stop", 0, FALSE, "always")]]

\* The ring as it is in memory now.
Ring == Rings[pulled]

\* The driver has programmed the controller and is about to start the ring.
\* The channel's source is edge-sensitive, the other one level-sensitive.
Init ==
  /\ ch = Reset("stream") /\ pulled = FALSE /\ ahead = 0 /\ line = FALSE
  /\ pic = [Pic!Reset EXCEPT !.level[Other] = TRUE, !.taskPri = 0,
                             !.pri = [s \in {Snd, Other} |-> 1]]
  /\ touched = FALSE /\ cpuIrq = FALSE
  /\ doing = "start" /\ waited = 0 /\ overdue = 0
-----------------------------------------------------------------------------
(* The codec. *)

\* Mutant: what is queued does not count.
CreditFull == Fifo

\* AwacsCell::credit: what the FIFO has room for ahead of the cursor.
Credit == Fifo - ahead

\* Mutant: woken at half the FIFO.
DueHalf(a) == a <= Fifo - Fifo \div 2

\* AwacsCell::outDueTb: a parked channel is looked at again when a quarter of
\* the FIFO is free.
Due(a) == a <= Fifo - Fifo \div 4

\* A walk of the engine: the codec's cursor moves by what it took (dmaGive).
Plays(w) == ahead' = ahead + (Credit - w.room)
-----------------------------------------------------------------------------
(* The machine. *)

\* Mutant: the interrupt is handed over as a level that nobody lowers.
PulseHeld(p, c) ==
  [pic |-> IF c.irq THEN Pic!SetLine(p, Snd, TRUE) ELSE p,
   ch  |-> [c EXCEPT !.irq = FALSE]]

\* SawtoothBus::pulse: one edge, and the channel's condition is consumed.
Pulse(p, c) ==
  [pic |-> IF c.irq THEN Pic!SetLine(Pic!SetLine(p, Snd, TRUE), Snd, FALSE)
                    ELSE p,
   ch  |-> [c EXCEPT !.irq = FALSE]]

\* serviceDevices with the gate open: wake a parked channel whose time has
\* come, look at every line, and answer the processor.
Service ==
  /\ touched \/ (Parked(ch) /\ Due(ahead))
  /\ LET w == IF Parked(ch) /\ Due(ahead) THEN Wake(Ring, ch, Credit)
                                          ELSE Rest(ch, Credit)
         r == Pulse(Pic!SetLine(pic, Other, line), w.ch)
     IN  /\ Plays(w)
         /\ ch' = r.ch /\ pic' = r.pic
         /\ cpuIrq' = Pic!CpuLine(r.pic)
  /\ touched' = FALSE /\ overdue' = 0
  /\ UNCHANGED <<pulled, line, doing, waited>>

\* A tick.  The run loop does not pass a device's deadline by more than Late,
\* and a device access is served before anything else; the driver does not
\* sleep on an interrupt for longer than Latency.
Tick ==
  /\ ~touched
  /\ overdue' = IF Parked(ch) /\ Due(ahead) THEN overdue + 1 ELSE 0
  /\ overdue' <= Late
  /\ waited' = IF cpuIrq \/ doing # "run" THEN waited + 1 ELSE 0
  /\ waited' <= Latency
  /\ ahead' = IF ahead > 0 THEN ahead - 1 ELSE 0
  /\ UNCHANGED <<ch, line, pic, touched, cpuIrq, pulled, doing>>

\* The other device wants something: its own deadline opens the gate.
OtherRaises ==
  /\ ~touched /\ ~line
  /\ line' = TRUE /\ touched' = TRUE
  /\ UNCHANGED <<ch, ahead, pic, cpuIrq, pulled, doing, clocks>>
-----------------------------------------------------------------------------
(* The driver. *)

\* Mutant: an access does not open the gate.
AccessUnseen == ~touched /\ touched' = FALSE

\* A register access bumps devGen_, and a service follows.
Access == ~touched /\ touched' = TRUE

\* The external interrupt exception.
TakeInterrupt ==
  /\ doing = "run" /\ cpuIrq /\ ~touched
  /\ doing' = "ack"
  /\ UNCHANGED <<hardware, pulled, clocks>>

\* Which source?
Acknowledge ==
  /\ doing = "ack" /\ Access
  /\ pic' = Pic!Iack(pic)
  /\ doing' = CASE Pic!HighestPending(pic) = Snd -> "sound"
                [] Pic!HighestPending(pic) = Other -> "other"
                [] OTHER -> "run"
  /\ UNCHANGED <<ch, ahead, line, cpuIrq, pulled, clocks>>

\* The other device's handler satisfies it.
HandleOther ==
  /\ doing = "other" /\ Access
  /\ line' = FALSE /\ doing' = "eoi"
  /\ UNCHANGED <<ch, ahead, pic, cpuIrq, pulled, clocks>>

\* The sound handler: the stream is alive, and the flag says which slice it
\* has finished; or it is dead, and is started again.
HandleSound ==
  /\ doing = "sound" /\ ~touched
  /\ pulled' = (ch.active /\ ch.flag = 1)
  /\ doing' = IF ch.active THEN "eoi" ELSE "stop"
  /\ UNCHANGED <<hardware, clocks>>

\* A write of the channel's control register.
WriteControl(m, v) ==
  LET w == Control(Ring, ch, Credit, m, v)
  IN  ch' = w.ch /\ Plays(w)

StopChannel ==
  /\ doing = "stop" /\ Access
  /\ WriteControl({"run"}, {})
  /\ doing' = "aim"
  /\ UNCHANGED <<line, pic, cpuIrq, pulled, clocks>>

AimChannel ==
  /\ doing = "aim" /\ Access
  /\ ch' = CommandPtr(ch, 0)
  /\ doing' = "start"
  /\ UNCHANGED <<ahead, line, pic, cpuIrq, pulled, clocks>>

StartChannel ==
  /\ doing = "start" /\ Access
  /\ WriteControl({"run"}, {"run"})
  /\ doing' = "eoi"
  /\ UNCHANGED <<line, pic, cpuIrq, pulled, clocks>>

EndOfInterrupt ==
  /\ doing = "eoi" /\ Access
  /\ pic' = Pic!Eoi(pic) /\ doing' = "run" /\ waited' = 0
  /\ UNCHANGED <<ch, ahead, line, cpuIrq, pulled, overdue>>

Driver ==
  \/ TakeInterrupt
  \/ Acknowledge
  \/ HandleOther
  \/ HandleSound
  \/ StopChannel
  \/ AimChannel
  \/ StartChannel
  \/ EndOfInterrupt

Next == Service \/ Tick \/ OtherRaises \/ Driver

Spec ==
  /\ Init /\ [][Next]_vars
  /\ WF_vars(Service) /\ WF_vars(Tick) /\ WF_vars(Driver)
-----------------------------------------------------------------------------
\* Type invariant; the cursor never runs further ahead than the FIFO holds.
TypeOK ==
  /\ ch \in Channel /\ pic \in Pic!Pic
  /\ ahead \in 0 .. Fifo
  /\ {pulled, line, touched, cpuIrq} \subseteq BOOLEAN
  /\ doing \in {"run", "ack", "sound", "other", "stop", "aim", "start", "eoi"}
  /\ waited \in 0 .. Latency /\ overdue \in 0 .. Late

\* "The driver wins the race the way it does on silicon": after some restarts
\* the ring settles and the engine never reaches the STOP again.
RingSettles == <>[]ch.active

\* And the codec does not run dry any more (AwacsCell::dmaGive counts an
\* underrun): each wake comes while most of the FIFO is still queued.
NeverDry == <>[](ahead > 0)

\* A device that shares the controller with the ring is always served in the
\* end ("every device interrupt in the machine blocked behind it" is what a
\* held level did).
OtherIsServed == line ~> ~line
=============================================================================
