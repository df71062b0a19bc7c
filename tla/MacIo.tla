-------------------------------- MODULE MacIo --------------------------------
(***************************************************************************)
(* Heathrow: the VIA, the Cuda microcontroller behind its shift register,  *)
(* and the interrupt controller the VIA's line feeds.  Bytes cross one at  *)
(* a time: the host opens a transfer with TIP, paces it with edges of TACK *)
(* and is paced by the shift-register flag; the Cuda asks for the bus with *)
(* TREQ and takes it back before its last byte.                            *)
(*                                                                         *)
(* The host is a driver that sends one packet, waits for TREQ and collects *)
(* the answer, or synchronises; packets are a command and an argument.     *)
(***************************************************************************)
EXTENDS Naturals, Sequences

CONSTANTS Think,      \* VIA ticks before an answer requests the bus (65536)
          SyncTicks,  \* VIA ticks before the deferred sync pulse (64)
          TimeMod, RtcBase,  \* the width of the clock and its fixed base
          TimerLoads, \* what the guest loads into T1 and T2
          MaxPackets  \* packets the host sends

VARIABLES prog,  \* what the guest exercises: "cuda" or "timers"
          x,     \* the cell: VIA, transport, Cuda, interrupt controller
          host   \* the driver

vars == <<prog, x, host>>

GetTime == 1
SetTime == 2
GetPram == 3
SetPram == 4
ReadIic == 5   \* a device that is not there
Talk == 6
Failed == 9
Times == 0..(TimeMod - 1)
Packets == {<<GetTime>>, <<GetPram>>, <<ReadIic, 0>>, <<Talk, 0>>}
           \cup {<<c, a>> : c \in {SetTime, SetPram}, a \in Times}

Init ==
  /\ prog \in {"cuda", "timers"}
  /\ x = [tip |-> FALSE, tack |-> FALSE, treq |-> FALSE, out |-> FALSE, sr |-> 0,
          ifr |-> {}, ier |-> IF prog = "cuda" THEN {"SR"} ELSE {},
          event |-> FALSE, enable |-> FALSE,
          sending |-> FALSE, receiving |-> FALSE, syncing |-> FALSE,
          pkt |-> <<>>, resp |-> <<>>, at |-> 0, delay |-> 0, pulse |-> 0,
          pram |-> 0, offset |-> 0,
          t1 |-> [n |-> 0, load |-> 0, on |-> FALSE, free |-> FALSE],
          t2 |-> [n |-> 0, load |-> 0, on |-> FALSE, free |-> FALSE]]
  /\ host = [at |-> "idle", pkt |-> <<>>, i |-> 0, got |-> <<>>, sent |-> 0,
             time |-> RtcBase, pram |-> 0]
-----------------------------------------------------------------------------
(* Interrupts. *)

Level(y) == y.ifr \cap y.ier # {}
PicLatch(y) == [y EXCEPT !.event = @ \/ Level(y)]

SetIfr(y, f) == PicLatch([y EXCEPT !.ifr = @ \cup {f}])
ClearIfr(y, f) == [y EXCEPT !.ifr = @ \ {f}]

\* updateTreq: the assert edge also sets CB1.
Treq(y, on) ==
  LET z == [y EXCEPT !.treq = on] IN IF on /\ ~y.treq THEN SetIfr(z, "CB1") ELSE z
-----------------------------------------------------------------------------
(* The Cuda. *)

\* The time of day as an offset from the base that cannot be negative.
SetOffsetClipped(t) == IF t >= RtcBase THEN t - RtcBase ELSE 0

\* The difference kept wider than the clock.
SetOffsetWide(t) == t + TimeMod - RtcBase

SetOffset(t) == (t + TimeMod - RtcBase) % TimeMod

Answered(y, s) == [y EXCEPT !.resp = s]

\* The stub bus answers a talk with nothing to say as it answers a listen.
Adb(y) == Answered(y, <<y.pkt[1], 0, 0>>)

Pseudo(y) ==
  LET c == y.pkt[1]
      arg == IF Len(y.pkt) > 1 THEN y.pkt[2] ELSE 0
  IN  CASE c = GetTime -> Answered(y, <<c, (RtcBase + y.offset) % TimeMod>>)
        [] c = SetTime -> [Answered(y, <<c>>) EXCEPT !.offset = SetOffset(arg)]
        [] c = GetPram -> Answered(y, <<c, y.pram>>)
        [] c = SetPram -> [Answered(y, <<c>>) EXCEPT !.pram = arg]
        [] c = ReadIic -> Answered(y, <<Failed, c>>)

\* hostPacket: the answer, and what the command changed.
HostPacket(y) == IF y.pkt[1] = Talk THEN Adb(y) ELSE Pseudo(y)
-----------------------------------------------------------------------------
(* The transport: a write of port B. *)

\* The next byte of the answer; TREQ goes away with the last one.
SendByte(y) ==
  LET z == SetIfr([y EXCEPT !.sr = y.resp[y.at + 1], !.at = @ + 1], "SR")
  IN  IF z.at = Len(z.resp) THEN Treq(z, FALSE) ELSE z

OpenTransfer(y) ==
  IF y.resp # <<>> THEN SendByte([y EXCEPT !.sending = TRUE, !.at = 0])
  ELSE IF y.out
  THEN SetIfr([y EXCEPT !.receiving = TRUE, !.pkt = <<y.sr>>], "SR")
  ELSE SetIfr(Treq([y EXCEPT !.syncing = TRUE], TRUE), "SR")

\* The packet is handed over and its answer waits its think time.
Deliver(y) ==
  LET z == [HostPacket(y) EXCEPT !.pkt = <<>>]
  IN  IF z.resp # <<>> THEN [z EXCEPT !.delay = Think] ELSE z

\* An answer that was read stays the Cuda's answer.
CloseTransferKeep(y) ==
  LET a == [y EXCEPT !.receiving = FALSE, !.sending = FALSE, !.syncing = FALSE]
      b == IF y.receiving /\ y.pkt # <<>> THEN Deliver(a) ELSE a
  IN  SetIfr(Treq(b, FALSE), "SR")

CloseTransfer(y) ==
  LET a == [y EXCEPT !.receiving = FALSE]
      b == IF y.receiving /\ y.pkt # <<>> THEN Deliver(a) ELSE a
      d == IF b.sending
           THEN Treq([b EXCEPT !.sending = FALSE, !.resp = <<>>, !.at = 0], FALSE)
           ELSE b
  IN  SetIfr([d EXCEPT !.syncing = FALSE], "SR")

CudaClockByte(y) ==
  IF y.out THEN SetIfr([y EXCEPT !.receiving = TRUE, !.pkt = Append(@, y.sr)], "SR")
  ELSE IF y.sending /\ y.at < Len(y.resp) THEN SendByte(y) ELSE y

\* The negate edge of a sync step is not answered.
SyncStepSilent(y) == IF y.tack THEN SetIfr(Treq(y, TRUE), "SR") ELSE Treq(y, FALSE)

\* With TIP negated an edge of TACK is mirrored in TREQ.
SyncStep(y) ==
  IF y.tack THEN SetIfr(Treq(y, TRUE), "SR")
  ELSE [Treq(y, FALSE) EXCEPT !.pulse = SyncTicks]

WriteOrb(y, tip, tack) ==
  LET z == [y EXCEPT !.tip = tip, !.tack = tack]
      edge == y.tack # tack
  IN  CASE tip /\ ~y.tip -> OpenTransfer(z)
        [] ~tip /\ y.tip -> CloseTransfer(z)
        [] tip /\ y.tip /\ edge ->
             IF y.syncing THEN SetIfr(Treq(z, FALSE), "SR") ELSE CudaClockByte(z)
        [] ~tip /\ ~y.tip /\ edge /\ ~y.sending /\ ~y.receiving
              /\ (y.resp = <<>> \/ y.delay # 0) -> SyncStep(z)
        [] OTHER -> z

WriteSr(y, b) == ClearIfr([y EXCEPT !.sr = b], "SR")
-----------------------------------------------------------------------------
(* One VIA tick. *)

\* The answer asks for the bus only on the tick its think time ends.
ResponseDue(y) ==
  LET z == [y EXCEPT !.delay = IF @ > 0 THEN @ - 1 ELSE 0]
  IN  IF y.delay = 1 /\ ~y.sending /\ ~y.receiving /\ y.resp # <<>>
      THEN Treq(z, TRUE) ELSE z

SyncPulseDue(y) ==
  LET z == [y EXCEPT !.pulse = IF @ > 0 THEN @ - 1 ELSE 0]
  IN  IF y.pulse = 1 THEN SetIfr(z, "SR") ELSE z

TimerDue(y, t, f) ==
  IF ~y[t].on THEN y
  ELSE IF y[t].n > 0 THEN [y EXCEPT ![t].n = @ - 1]
  ELSE SetIfr([y EXCEPT ![t].on = y[t].free, ![t].n = y[t].load], f)

ViaTick(y) == TimerDue(TimerDue(SyncPulseDue(ResponseDue(y)), "t1", "T1"), "t2", "T2")

Tick ==
  /\ x' = ViaTick(x)
  /\ UNCHANGED <<prog, host>>
-----------------------------------------------------------------------------
(* The driver's side of the Cuda. *)

StartSend(p) ==
  /\ prog = "cuda" /\ host.at = "idle" /\ host.sent < MaxPackets
  /\ x' = WriteOrb(WriteSr([x EXCEPT !.out = TRUE], p[1]), TRUE, FALSE)
  /\ host' = [host EXCEPT !.at = "send", !.pkt = p, !.i = 1, !.sent = @ + 1]
  /\ UNCHANGED prog

SendNext ==
  /\ host.at = "send" /\ "SR" \in x.ifr /\ host.i < Len(host.pkt)
  /\ x' = WriteOrb(WriteSr(x, host.pkt[host.i + 1]), TRUE, ~x.tack)
  /\ host' = [host EXCEPT !.i = @ + 1]
  /\ UNCHANGED prog

SendEnd ==
  /\ host.at = "send" /\ "SR" \in x.ifr /\ host.i = Len(host.pkt)
  /\ x' = WriteOrb(ClearIfr(x, "SR"), FALSE, FALSE)
  /\ host' = [host EXCEPT !.at = "wait",
                          !.time = IF host.pkt[1] = SetTime THEN host.pkt[2] ELSE @,
                          !.pram = IF host.pkt[1] = SetPram THEN host.pkt[2] ELSE @]
  /\ UNCHANGED prog

Collect ==
  /\ host.at = "wait" /\ x.treq
  /\ x' = WriteOrb(ClearIfr([x EXCEPT !.out = FALSE], "SR"), TRUE, FALSE)
  /\ host' = [host EXCEPT !.at = "collect", !.got = <<>>]
  /\ UNCHANGED prog

CollectNext ==
  /\ host.at = "collect" /\ "SR" \in x.ifr
  /\ x' = IF x.treq THEN WriteOrb(ClearIfr(x, "SR"), TRUE, ~x.tack)
          ELSE WriteOrb(ClearIfr(x, "SR"), FALSE, FALSE)
  /\ host' = [host EXCEPT !.got = Append(@, x.sr),
                          !.at = IF x.treq THEN "collect" ELSE "done"]
  /\ UNCHANGED prog

\* The three edges of a null transaction, or the two of a sync step.
StartSync(tip) ==
  /\ prog = "cuda" /\ host.at \in {"idle", "done"} /\ host.sent < MaxPackets
  /\ x' = WriteOrb(ClearIfr([x EXCEPT !.out = FALSE], "SR"), tip, ~tip)
  /\ host' = [host EXCEPT !.at = IF tip THEN "null" ELSE "step", !.sent = @ + 1]
  /\ UNCHANGED prog

SyncNext ==
  /\ host.at \in {"null", "step"} /\ "SR" \in x.ifr
  /\ x' = IF host.at = "null" THEN WriteOrb(ClearIfr(x, "SR"), TRUE, TRUE)
          ELSE WriteOrb(ClearIfr(x, "SR"), FALSE, FALSE)
  /\ host' = [host EXCEPT !.at = "settle"]
  /\ UNCHANGED prog

SyncEnd ==
  /\ host.at = "settle" /\ "SR" \in x.ifr
  /\ x' = WriteOrb(ClearIfr(x, "SR"), FALSE, FALSE)
  /\ host' = [host EXCEPT !.at = "idle"]
  /\ UNCHANGED prog

Rest ==
  /\ host.at = "done" /\ host' = [host EXCEPT !.at = "idle"]
  /\ UNCHANGED <<prog, x>>

Transport == \/ SendNext \/ SendEnd \/ Collect \/ CollectNext
             \/ SyncNext \/ SyncEnd \/ Rest
-----------------------------------------------------------------------------
(* Timers and interrupt masks. *)

LoadTimer(t, f, n, free) ==
  /\ prog = "timers"
  /\ x' = ClearIfr([x EXCEPT ![t] = [n |-> n, load |-> n, on |-> TRUE, free |-> free]], f)
  /\ UNCHANGED <<prog, host>>

\* A read of the counter's low half clears its flag, as a write of IFR does.
AckFlag(f) ==
  /\ prog = "timers"
  /\ x' = ClearIfr(x, f)
  /\ UNCHANGED <<prog, host>>

WriteIer(S) ==
  /\ prog = "timers"
  /\ x' = PicLatch([x EXCEPT !.ier = S])
  /\ UNCHANGED <<prog, host>>

\* The event is cleared and a held level forgotten.
PicAckDrop(y) == [y EXCEPT !.event = FALSE]

\* Acknowledging a source that still holds its line latches it again.
PicAcked(y) == PicLatch([y EXCEPT !.event = FALSE])

PicAck ==
  /\ x.event /\ x' = PicAcked(x)
  /\ UNCHANGED <<prog, host>>

PicEnable ==
  /\ prog = "timers" /\ x' = [x EXCEPT !.enable = ~@]
  /\ UNCHANGED <<prog, host>>

Masks ==
  \/ \E n \in TimerLoads, free \in BOOLEAN : LoadTimer("t1", "T1", n, free)
  \/ \E n \in TimerLoads : LoadTimer("t2", "T2", n, FALSE)
  \/ \E f \in {"T1", "T2"} : AckFlag(f)
  \/ \E S \in SUBSET {"T1", "T2"} : WriteIer(S)
  \/ PicAck \/ PicEnable

Next ==
  \/ Tick \/ Transport \/ Masks
  \/ \E p \in Packets : StartSend(p)
  \/ \E tip \in BOOLEAN : StartSync(tip)

Spec == Init /\ [][Next]_vars /\ WF_vars(Tick) /\ WF_vars(Transport)
-----------------------------------------------------------------------------
Flags == {"SR", "CB1", "T1", "T2"}

TypeOK ==
  /\ prog \in {"cuda", "timers"}
  /\ x.ifr \subseteq Flags /\ x.ier \subseteq Flags
  /\ x.at \in 0..Len(x.resp)
  /\ x.delay \in 0..Think /\ x.pulse \in 0..SyncTicks
  /\ x.offset \in Times /\ x.pram \in Times

\* The VIA's line is never asserted with its source unlatched, in whatever
\* order flags, masks and acknowledgements fall.
NoLostVia == Level(x) => x.event

\* The answer the host has collected when the Cuda lets go of the bus is the
\* whole answer to the packet it sent, and it reports the clock and the
\* parameter memory as last set.
AnswerWhole ==
  host.at = "done" =>
    CASE host.pkt[1] = GetTime -> host.got = <<GetTime, host.time>>
      [] host.pkt[1] = GetPram -> host.got = <<GetPram, host.pram>>
      [] host.pkt[1] \in {SetTime, SetPram} -> host.got = <<host.pkt[1]>>
      [] host.pkt[1] = ReadIic -> host.got = <<Failed, ReadIic>>
      [] OTHER -> host.got = <<host.pkt[1], 0, 0>>

\* At rest the transport is at rest: nothing half sent, nothing half received,
\* and no request for the bus.
QuietAtRest ==
  host.at = "idle" => /\ ~x.tip /\ ~x.sending /\ ~x.receiving /\ ~x.syncing
                      /\ x.pkt = <<>> /\ x.resp = <<>> /\ ~x.treq

\* Every packet is answered and every synchronisation completes.
HostFinishes == (host.at # "idle") ~> (host.at = "idle")
=============================================================================
