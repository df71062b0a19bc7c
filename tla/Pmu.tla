--------------------------------- MODULE Pmu ---------------------------------
(***************************************************************************)
(* The power-management unit behind the KeyLargo VIA.  Every byte is one   *)
(* cycle of request and acknowledge; the direction of the shift register   *)
(* says whether the cycle carries a byte of a command or one of the reply. *)
(* A command frame begins with the first byte out after a byte in.         *)
(*                                                                         *)
(* The host is a driver that sends a command with its arguments and reads  *)
(* the reply.  The reset command it sends last: the firmware then spins    *)
(* until the machine restarts, so that one reply is never read.            *)
(***************************************************************************)
EXTENDS Naturals, Sequences

CONSTANT MaxCommands

VARIABLES p,    \* the unit: lines, shift register, frame and reply
          host  \* the driver

vars == <<p, host>>

Version == 1
Lines == 2    \* two lines read back as driven
Reset == 3
Other == 4
Frames == {<<Version>>, <<Reset>>, <<Other>>} \cup {<<Lines, a, b>> : a, b \in 5..6}
Answer(f) == CASE f[1] = Version -> <<7>>
               [] f[1] = Lines -> IF Len(f) >= 3 THEN <<f[2], f[3]>> ELSE <<0, 0>>
               [] OTHER -> <<0>>

Init ==
  /\ p = [req |-> FALSE, ack |-> TRUE, out |-> FALSE, sr |-> 0, lastIn |-> FALSE,
          frame |-> <<>>, reply |-> <<>>, at |-> 0, reset |-> FALSE]
  /\ host = [at |-> "idle", cmd |-> <<>>, i |-> 0, got |-> <<>>, sent |-> 0,
             asked |-> FALSE]
-----------------------------------------------------------------------------
\* A frame goes on for ever.
FrameAfterKeep(y) == Append(y.frame, y.sr)

\* A byte out after a byte in opens a frame.
FrameAfter(y) == Append(IF y.lastIn THEN <<>> ELSE y.frame, y.sr)

\* The asserting edge of the request.
ReqAssert(y) ==
  IF y.out
  THEN LET f == FrameAfter(y)
       IN  [y EXCEPT !.frame = f, !.lastIn = FALSE, !.ack = FALSE,
                     !.reset = @ \/ (Len(f) = 1 /\ y.sr = Reset)]
  ELSE LET more == y.at < Len(y.reply)
       IN  [y EXCEPT !.sr = IF more THEN y.reply[y.at + 1] ELSE 0,
                     !.at = IF more THEN @ + 1 ELSE @,
                     !.lastIn = TRUE, !.ack = FALSE]

\* The reply is built once, when the frame opens.
BuildReplyFirst(y) == IF Len(y.frame) = 1 THEN [y EXCEPT !.reply = Answer(y.frame), !.at = 0] ELSE y

\* The place in the old reply is kept.
BuildReplyHere(y) == [y EXCEPT !.reply = Answer(y.frame)]

BuildReply(y) == [y EXCEPT !.reply = Answer(y.frame), !.at = 0]

\* The acknowledge line keeps its level when a byte of a reply is read.
ReqReleaseOut(y) ==
  IF y.out THEN BuildReply([y EXCEPT !.ack = TRUE]) ELSE y

\* The releasing edge: the reply is what the frame so far would get.
ReqRelease(y) ==
  LET z == [y EXCEPT !.ack = TRUE]
  IN  IF y.out /\ y.frame # <<>> THEN BuildReply(z) ELSE z

\* A write of port B: nothing happens without an edge of the request line.
WriteOrb(y, req) ==
  IF req = y.req THEN y
  ELSE IF req THEN ReqAssert([y EXCEPT !.req = TRUE])
  ELSE ReqRelease([y EXCEPT !.req = FALSE])
-----------------------------------------------------------------------------
(* The driver: each step waits for the acknowledge line. *)

Start(f) ==
  /\ host.at = "idle" /\ host.sent < MaxCommands /\ p.ack /\ ~host.asked
  /\ p' = WriteOrb([p EXCEPT !.out = TRUE, !.sr = f[1]], TRUE)
  /\ host' = [host EXCEPT !.at = "out", !.cmd = f, !.i = 1, !.got = <<>>,
                          !.sent = @ + 1, !.asked = @ \/ f = <<Reset>>]

Release ==
  /\ host.at \in {"out", "in"} /\ p.req /\ ~p.ack
  /\ p' = WriteOrb(p, FALSE)
  /\ host' = IF host.at = "in" THEN [host EXCEPT !.got = Append(@, p.sr)] ELSE host

NextByte ==
  /\ host.at = "out" /\ p.ack /\ host.i < Len(host.cmd)
  /\ p' = WriteOrb([p EXCEPT !.sr = host.cmd[host.i + 1]], TRUE)
  /\ host' = [host EXCEPT !.i = @ + 1]

ReadByte ==
  /\ p.ack /\ host.cmd # <<>> /\ host.cmd # <<Reset>>
  /\ host.at = "in" \/ (host.at = "out" /\ host.i = Len(host.cmd))
  /\ Len(host.got) < Len(Answer(host.cmd))
  /\ p' = WriteOrb([p EXCEPT !.out = FALSE], TRUE)
  /\ host' = [host EXCEPT !.at = "in"]

Finish ==
  /\ p.ack
  /\ \/ host.at = "in" /\ Len(host.got) = Len(Answer(host.cmd))
     \/ host.at = "out" /\ host.cmd = <<Reset>>
  /\ host' = [host EXCEPT !.at = "idle"]
  /\ UNCHANGED p

Driver == Release \/ NextByte \/ ReadByte \/ Finish
Next == (\E f \in Frames : Start(f)) \/ Driver
Spec == Init /\ [][Next]_vars /\ WF_vars(Driver)
-----------------------------------------------------------------------------
TypeOK ==
  /\ p.req \in BOOLEAN /\ p.ack \in BOOLEAN /\ p.at \in 0..Len(p.reply)
  /\ host.at \in {"idle", "out", "in"}

\* Each cycle of the handshake ends: a driver that waits for the acknowledge
\* line after every edge gets back to idle.
DriverFinishes == host.at # "idle" ~> host.at = "idle"

\* What the driver has read so far is the beginning of the answer to the
\* command it sent, never a byte of an earlier one.
ReplyIsOwn ==
  host.at = "in" => host.got = SubSeq(Answer(host.cmd), 1, Len(host.got))

\* The reset command is acted on when its byte lands.
ResetActed == host.asked => p.reset
=============================================================================
