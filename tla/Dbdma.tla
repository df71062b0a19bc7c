------------------------------- MODULE Dbdma --------------------------------
(***************************************************************************)
(* One DBDMA channel (machine/src/dbdma.cpp): a control register, a        *)
(* command pointer, and the engine that walks a list of descriptors in     *)
(* memory, moving data between it and the attached device.                 *)
(*                                                                         *)
(* A descriptor is named by its place in the list; anything past the end   *)
(* of the list is junk to the engine.  Data is counted, in units, and not  *)
(* carried.  PAUSE and waitSelect are stored and not interpreted by the    *)
(* code.                                                                   *)
(***************************************************************************)
EXTENDS Integers

CONSTANTS
  MaxSteps,   \* descriptors one walk may visit (65536)
  MaxIdle     \* descriptors it may visit without moving anything (512)

\* What the constants have to be.
EngineConstants == MaxSteps \in Nat \ {0} /\ MaxIdle \in Nat

Ops == {"output", "input", "storeQuad", "loadQuad", "nop", "stop", "junk"}

Branches == {"never", "always", "match", "differ"}

Descriptor == [op: Ops, req: Nat, int: BOOLEAN, br: Branches, to: Nat]

Junk == [op |-> "junk", req |-> 0, int |-> FALSE, br |-> "never", to |-> 0]

\* What is attached: the codec, an ATA drive, an ATAPI drive, or nothing.
Devices == {"stream", "disk", "packet", "none"}

(***************************************************************************)
(* A channel: the device it is wired to; RUN, ACTIVE and DEAD of the status word, the s bit that      *)
(* branches look at and the select register it is compared with, cmdPtr_,  *)
(* xferDone_ and irq_; and what it last wrote to memory: a status word,    *)
(* and the word a STORE_QUAD stores.  History: `sent` counts what really   *)
(* was moved for the descriptor in progress, `skew` remembers a move that  *)
(* did not start where the last one ended, or a status word that says      *)
(* something else.                                                         *)
(***************************************************************************)
Channel == [dev: Devices,
            run: BOOLEAN, active: BOOLEAN, dead: BOOLEAN,
            s: BOOLEAN, brMask: BOOLEAN, brVal: BOOLEAN,
            cmd: Nat, done: Nat, irq: BOOLEAN,
            stat: [at: Nat, left: Nat], flag: Nat,
            sent: Nat, skew: BOOLEAN]

Reset(dev) ==
  [dev |-> dev,
   run |-> FALSE, active |-> FALSE, dead |-> FALSE,
   s |-> FALSE, brMask |-> FALSE, brVal |-> FALSE,
   cmd |-> 0, done |-> 0, irq |-> FALSE,
   stat |-> [at |-> 0, left |-> 0], flag |-> 0,
   sent |-> 0, skew |-> FALSE]

\* Mutant: every device parks its channel on a short transfer.
AllStream(c) == TRUE

\* DmaDevice::dmaStreams.
Streaming(c) == c.dev = "stream"

\* DmaDevice::dmaWriteSink.
Sink(c) == c.dev \in {"stream", "disk"}

\* parked: waiting in the middle of the list for the device.
Parked(c) == c.run /\ c.active
-----------------------------------------------------------------------------
(* The engine.  A walk carries the channel, what the device can take or     *)
(* give now, the visits without movement, and whether it goes on.           *)

Walk == [ch: Channel, room: Nat, idle: Nat, on: BOOLEAN]

At(list, d) == IF d \in DOMAIN list THEN list[d] ELSE Junk

\* Units the device moves when asked for n.
Moves(w, n) == IF w.ch.dev = "none" THEN 0 ELSE IF w.room < n THEN w.room ELSE n

Halts(w, c) == [w EXCEPT !.ch = c, !.on = FALSE]

\* Branch on nothing, always, or on the s bit; the quad commands use the same
\* word for their literal and never branch.
Taken(c, d) ==
  LET same == c.brMask => c.s = c.brVal
  IN  /\ d.op \notin {"storeQuad", "loadQuad"}
      /\ \/ d.br = "always"
         \/ d.br = "match" /\ same
         \/ d.br = "differ" /\ ~same

\* The status word of the descriptor in progress: the residual.
Report(c, left, truly) ==
  [c EXCEPT !.stat = [at |-> c.cmd, left |-> left],
            !.skew = @ \/ left # truly]

\* What is left of descriptor d.
Residual(c, d) == d.req - c.done

\* The descriptor is finished: status word, interrupt, branch or go on, and
\* give up on a ring that moves nothing.
Finish(w, c, d, moved, left) ==
  LET idle == IF moved > 0 THEN 0 ELSE w.idle + 1
      r    == Report(c, left, IF left = 0 THEN 0 ELSE d.req - c.sent)
  IN  [w EXCEPT !.ch = [r EXCEPT !.done = 0, !.sent = 0,
                                 !.irq = @ \/ d.int,
                                 !.flag = IF d.op = "storeQuad" THEN c.cmd
                                                                ELSE @,
                                 !.cmd = IF Taken(c, d) THEN d.to ELSE @ + 1],
                !.idle = idle,
                !.on = idle <= MaxIdle]

\* An INPUT, or an OUTPUT to a device that wants the data.  Nothing moved: the
\* walk ends and the same descriptor is tried again on a wake.  A stream that
\* moved part of it is parked on the rest; a drive's short transfer ends it.
Transfer(w, d) ==
  LET n == Moves(w, d.req - w.ch.done)
      c == [w.ch EXCEPT !.done = @ + n, !.sent = @ + n,
                        !.skew = @ \/ (n > 0 /\ w.ch.done # w.ch.sent)]
      v == [w EXCEPT !.room = @ - n]
  IN  IF c.done = 0 /\ (d.op = "output" \/ d.req > 0) THEN Halts(v, c)
      ELSE IF c.done < d.req /\ Streaming(c) THEN Halts(v, c)
      ELSE Finish(v, c, d, n, Residual(c, d))

\* One turn of DbdmaChannel::run's loop.
Visit(list, w) ==
  LET c == w.ch
      d == At(list, c.cmd)
  IN  CASE ~c.run -> Halts(w, c)
        [] c.run /\ d.op = "stop" ->
             Halts(w, [c EXCEPT !.active = FALSE, !.done = 0, !.sent = 0])
        [] c.run /\ d.op = "junk" ->
             Halts(w, [c EXCEPT !.dead = TRUE, !.active = FALSE])
        [] c.run /\ (d.op = "input" \/ (d.op = "output" /\ Sink(c))) ->
             Transfer(w, d)
        [] OTHER -> Finish(w, c, d, 0, 0)

\* DbdmaChannel::run, from channel c with `room` at the device.
Run(list, c, room) ==
  LET walk[k \in 0 .. MaxSteps, w \in Walk] ==
        IF k = 0 \/ ~w.on THEN w ELSE walk[k - 1, Visit(list, w)]
  IN  walk[MaxSteps,
           [ch |-> c, room |-> room, idle |-> 0, on |-> TRUE]]

\* The walk that does not happen.
Rest(c, room) ==
  [ch |-> c, room |-> room, idle |-> 0, on |-> FALSE]

\* DbdmaChannel::wake.
Wake(list, c, room) ==
  IF Parked(c) THEN Run(list, c, room) ELSE Rest(c, room)
-----------------------------------------------------------------------------
(* A write of the control register: bits `m` take their values from `v`. *)

Merge(b, name, m, v) == IF name \in m THEN name \in v ELSE b

\* Mutant: the residual is computed the wrong way round.
FlushSwapped(list, c) ==
  LET d == At(list, c.cmd)
  IN  IF c.active
      THEN [Report(c, c.done - d.req, d.req - c.sent)
              EXCEPT !.active = FALSE, !.done = 0, !.sent = 0]
      ELSE c

\* Mutant: the part already moved is not forgotten.
FlushKeeps(list, c) ==
  LET d == At(list, c.cmd)
  IN  IF c.active
      THEN [Report(c, Residual(c, d), d.req - c.sent)
              EXCEPT !.active = FALSE]
      ELSE c

\* FLUSH ends the descriptor in progress where it stands, with the residual in
\* its status word.
Flush(list, c) ==
  LET d == At(list, c.cmd)
  IN  IF c.active
      THEN [Report(c, Residual(c, d), d.req - c.sent)
              EXCEPT !.active = FALSE, !.done = 0, !.sent = 0]
      ELSE c

\* WAKE resumes a channel that has RUN, whether it is ACTIVE or not.
ControlWake(list, w, woken) ==
  IF woken /\ w.ch.run
  THEN Run(list, w.ch, w.room)
  ELSE w

\* RUN going up starts the list at the head of a descriptor.
ControlStart(list, w, wasRun) ==
  IF w.ch.run /\ ~wasRun
  THEN Run(list, [w.ch EXCEPT !.dead = FALSE, !.active = TRUE, !.done = 0],
           w.room)
  ELSE w

\* RUN down: the channel lets go of everything.
ControlStop(w) ==
  IF w.ch.run THEN w
  ELSE [w EXCEPT !.ch = [@ EXCEPT !.active = FALSE, !.done = 0, !.sent = 0]]

\* The whole write, in the order of the code: the bits, the interrupt level
\* down, FLUSH, WAKE, start, stop.
Control(list, c, room, m, v) ==
  LET c1 == [c EXCEPT !.run = Merge(@, "run", m, v),
                      !.active = Merge(@, "active", m, v),
                      !.dead = Merge(@, "dead", m, v),
                      !.s = Merge(@, "s", m, v),
                      !.irq = FALSE]
      c2 == IF "flush" \in m \cap v THEN Flush(list, c1) ELSE c1
      w3 == ControlWake(list, Rest(c2, room), "wake" \in m \cap v)
  IN  ControlStop(ControlStart(list, w3, c.run))

\* Mutant: it is not.
CommandPtrAlways(c, d) == [c EXCEPT !.cmd = d, !.sent = 0]

\* A write of the command pointer is ignored while the channel is ACTIVE.
CommandPtr(c, d) == IF c.active THEN c ELSE [c EXCEPT !.cmd = d, !.sent = 0]
=============================================================================
