---------------------------- MODULE DbdmaChannel ----------------------------
(***************************************************************************)
(* A DBDMA channel between a driver that writes its registers and rewrites *)
(* its list, and a device that has room, or data, now and then             *)
(* (machine/src/dbdma.cpp, and SawtoothBus::ohciTick for the wakes).       *)
(***************************************************************************)
EXTENDS Dbdma

CONSTANTS
  Wired,      \* the devices channels are wired to
  Lists,      \* the lists the driver builds
  Controls,   \* the control writes it makes: <<bits, values>>
  MaxRoom,    \* most the device has room for at once
  Careful     \* the driver wakes a stream only while it is ACTIVE

\* What the constants have to be.
ChannelConstants ==
  Wired \subseteq Devices /\ MaxRoom \in Nat /\ Careful \in BOOLEAN

VARIABLES
  ch,         \* the channel
  list,       \* the descriptors in memory
  room        \* units the device can take or give now

vars == <<ch, list, room>>

Init == ch \in {Reset(dev) : dev \in Wired} /\ list \in Lists /\ room = 0

\* What a walk leaves behind.
Becomes(w) == ch' = w.ch /\ room' = w.room

GuestControl(m, v) ==
  /\ Careful /\ Streaming(ch) /\ "wake" \in m \cap v =>
       ch.active /\ "flush" \notin m \cap v
  /\ Becomes(Control(list, ch, room, m, v))
  /\ UNCHANGED list

GuestCommandPtr(d) ==
  /\ ch' = CommandPtr(ch, d)
  /\ UNCHANGED <<list, room>>

GuestBranchSelect(mask, val) ==
  /\ ch' = [ch EXCEPT !.brMask = mask, !.brVal = val]
  /\ UNCHANGED <<list, room>>

\* The sound driver keeps its ring going by turning the STOP into a NOP, and
\* ends it by turning it back.
GuestRewrite(d) ==
  /\ list[d].op \in {"stop", "nop"}
  /\ list' = [list EXCEPT ![d].op = IF @ = "stop" THEN "nop" ELSE "stop"]
  /\ UNCHANGED <<ch, room>>

\* A data phase opens, or a stream drains; the channel is woken, now or at a
\* later service.
DeviceReady(n) ==
  /\ n > room
  /\ Becomes(Wake(list, ch, n)) \/ (room' = n /\ UNCHANGED ch)
  /\ UNCHANGED list

\* A late wake, or one for nothing: every task-file write is one.
DeviceWake ==
  /\ Becomes(Wake(list, ch, room))
  /\ UNCHANGED list

\* A drive's data phase ends with its command.
PhaseEnds ==
  /\ ~Streaming(ch) /\ room > 0
  /\ room' = 0
  /\ UNCHANGED <<ch, list>>

\* The machine has passed the interrupt on (SawtoothBus::pulse).
ClearIrq ==
  /\ ch.irq
  /\ ch' = [ch EXCEPT !.irq = FALSE]
  /\ UNCHANGED <<list, room>>

Next ==
  \/ \E c \in Controls : GuestControl(c[1], c[2])
  \/ \E d \in DOMAIN list : GuestCommandPtr(d)
  \/ \E mask, val \in BOOLEAN : GuestBranchSelect(mask, val)
  \/ \E d \in DOMAIN list : GuestRewrite(d)
  \/ \E n \in 1 .. MaxRoom : DeviceReady(n)
  \/ DeviceWake
  \/ PhaseEnds
  \/ ClearIrq

Spec == Init /\ [][Next]_vars
-----------------------------------------------------------------------------
\* Type invariant.
TypeOK ==
  /\ ch \in Channel
  /\ DOMAIN list \subseteq Nat /\ \A d \in DOMAIN list : list[d] \in Descriptor
  /\ room \in 0 .. MaxRoom

\* Nothing is moved twice and nothing is left out, however often the channel
\* parks, wakes, is flushed, stopped or started in the middle: xferDone_ is
\* the part "of the CURRENT descriptor already moved", and a status word never
\* reports another residual than the true one.
StreamInOrder == ~ch.skew

\* A channel that has part of a descriptor behind it is one the periodic wake
\* finds (DbdmaChannel::parked, "the state a periodic wake exists to clear"):
\* a stream left in the middle is always resumed.
MidDescriptorIsParked == ch.run /\ ch.done > 0 => Parked(ch)

\* "a drive completes or ends a descriptor, never pauses inside one".
DriveNeverPauses == ch.done > 0 => ch.dev = "stream"
=============================================================================
