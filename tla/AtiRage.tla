------------------------------ MODULE AtiRage -------------------------------
(***************************************************************************)
(* The Rage Pro (machine/src/ati.cpp), three register groups that share no *)
(* state.  The beam: a line counter that latches the vertical blank on the *)
(* one line where it begins, while the driver reprograms the frame a half  *)
(* register at a time (CRTC values are lines minus one, as the register    *)
(* holds them).  The palette port: a byte port whose component phase is    *)
(* shared by reads and writes, beside R128Cell's PALETTE_INDEX and         *)
(* PALETTE_DATA words (r128.cpp); the guest loads and reads runs of        *)
(* entries and may leave a run anywhere.  The monitor's EDID over a        *)
(* bit-banged I2C bus: AtiRage's ddcUpdate and R128Cell::ddcStep, each     *)
(* against the same master, the firmware's or the driver's, which gives a  *)
(* byte offset, reads bus.count bytes from it, and may break off anywhere, *)
(* free the bus and start again.                                           *)
(***************************************************************************)
EXTENDS Integers, Sequences, SequencesExt

CONSTANTS Modes,      \* [total, disp] register values drivers program
          Fallback,   \* [total, disp] lines before the CRTC is programmed (525, 480)
          LineTicks,  \* kTicksPerLine
          MaxModes,   \* bound on mode changes
          Entries,    \* number of palette entries (256)
          Levels,     \* values of a component
          MaxJobs,    \* bound on runs
          Width,      \* bits of a byte (8)
          Edid,       \* the EDID, a sequence of bytes
          SlaveAddr,  \* the slave's address (0x50)
          Offsets,    \* offsets the master reads from
          Masters     \* [card, count]: the slave, and the bytes of one transfer

VARIABLES beam,    \* tick in line, line, frame parity
          sticky,  \* the latch of CRTC_INT_CNTL
          crtc,    \* [total, disp] as the register holds them
          goal,    \* the mode the driver is programming or has programmed
          modes,   \* mode changes so far
          dac,     \* AtiRage: write index, read index, phase, palette
          pal,     \* R128Cell: index, palette
          job,     \* the guest's run under way: next component, components left
          meant,   \* what the guest has stored
          jobs,    \* runs so far
          bus,     \* the slave on the bus and the transfer's length
          line,    \* [scl, sda]: what the master drives (TRUE is released)
          dev,     \* the slave's registers
          todo,    \* the master's remaining line operations
          got,     \* bits sampled in the transfer that is not broken off
          off,     \* the offset the master asks for
          tries    \* transfers the master may still break off

screen == <<beam, sticky, crtc, goal, modes>>
palette == <<dac, pal, job, meant, jobs>>
monitor == <<bus, line, dev, todo, got, off, tries>>
vars == <<screen, palette, monitor>>

VTotal(c) == IF c.total + 1 > 1 THEN c.total + 1 ELSE Fallback.total
VDisp(c)  == IF c.disp + 1 > 1 THEN c.disp + 1 ELSE Fallback.disp
-----------------------------------------------------------------------------
(* Mutant: the frame ends only on its very last line. *)
NextLineEqual(b, c) ==
  IF b.line + 1 = VTotal(c) THEN [t |-> 0, line |-> 0, odd |-> ~b.odd]
  ELSE [b EXCEPT !.t = 0, !.line = @ + 1]

(* tick: a line past the end of a frame that has just shrunk wraps as well. *)
NextLine(b, c) ==
  IF b.line + 1 >= VTotal(c) THEN [t |-> 0, line |-> 0, odd |-> ~b.odd]
  ELSE [b EXCEPT !.t = 0, !.line = @ + 1]

(* Mutant: the blank begins where the frame ends. *)
BlankBeginsLate(b, c) == b.line = VTotal(c)

BlankBegins(b, c) == b.line = VDisp(c)

Tick ==
  /\ IF beam.t + 1 < LineTicks
     THEN beam' = [beam EXCEPT !.t = @ + 1] /\ UNCHANGED sticky
     ELSE /\ beam' = NextLine(beam, crtc)
          /\ sticky' = (sticky \/ BlankBegins(beam', crtc))
  /\ UNCHANGED <<crtc, goal, modes>>

(* regWrite8, CRTC_V_TOTAL_DISP: the halves arrive in separate bytes; the   *)
(* beam goes on from where it is.                                           *)
WriteHalf(half) ==
  /\ crtc[half] # goal[half]
  /\ crtc' = [crtc EXCEPT ![half] = goal[half]]
  /\ UNCHANGED <<beam, sticky, goal, modes>>

(* The driver sets another mode (external).                                 *)
SetMode == /\ modes < MaxModes
           /\ goal' \in Modes \ {goal}
           /\ modes' = modes + 1
           /\ UNCHANGED <<beam, sticky, crtc>>

(* regWrite8, CRTC_INT_CNTL: write one to clear.                            *)
Acknowledge == /\ sticky
               /\ sticky' = FALSE
               /\ UNCHANGED <<beam, crtc, goal, modes>>
-----------------------------------------------------------------------------
Index == 0 .. Entries - 1
-----------------------------------------------------------------------------
Advance(d, side) ==
  IF d.phase + 1 = 3
  THEN [d EXCEPT !.phase = 0, ![side] = (@ + 1) % Entries]
  ELSE [d EXCEPT !.phase = @ + 1]

(* Mutant: an index write leaves the component phase alone. *)
DacWriteIndexKeep(d, i) == [d EXCEPT !.w = i]

(* regWrite8, DAC_REGS: an index write restarts the phase ...               *)
DacWriteIndex(d, i) == [d EXCEPT !.w = i, !.phase = 0]

DacReadIndex(d, i)  == [d EXCEPT !.r = i, !.phase = 0]

(* ... and a data byte takes the component, then the next entry (the index  *)
(* is a byte and wraps).                                                    *)
DacWrite(d, v) == Advance([d EXCEPT !.pal[d.w][d.phase] = v], "w")
DacRead(d)     == Advance(d, "r")

(* Mutant: the index runs past the last entry. *)
PalWriteWide(p, e) == [idx |-> p.idx + 1, pal |-> [p.pal EXCEPT ![p.idx] = e]]

(* R128Cell::write, PALETTE_DATA.                                           *)
PalWrite(p, e) == [idx |-> (p.idx + 1) % Entries, pal |-> [p.pal EXCEPT ![p.idx] = e]]
-----------------------------------------------------------------------------
(* The guest (external). A whole entry is stored in the Rage 128 when its   *)
(* third component has been.                                                *)
NoJob == [kind |-> "none", at |-> 0, left |-> 0]
Entry(k) == (k \div 3) % Entries

StartJob ==
  /\ job = NoJob /\ jobs < MaxJobs
  /\ \E kind \in {"load", "read"}, i \in Index, n \in 1..2 :
       /\ job' = [kind |-> kind, at |-> 3 * i, left |-> 3 * n]
       /\ dac' = IF kind = "load" THEN DacWriteIndex(dac, i) ELSE DacReadIndex(dac, i)
       /\ pal' = [pal EXCEPT !.idx = i]
  /\ jobs' = jobs + 1
  /\ UNCHANGED meant

LoadByte ==
  /\ job.kind = "load" /\ job.left > 0
  /\ \E v \in Levels :
       /\ dac' = DacWrite(dac, v)
       /\ meant' = [meant EXCEPT ![Entry(job.at)][job.at % 3] = v]
       /\ pal' = IF job.at % 3 = 2 THEN PalWrite(pal, meant'[Entry(job.at)]) ELSE pal
  /\ job' = [job EXCEPT !.at = @ + 1, !.left = @ - 1]
  /\ UNCHANGED jobs

ReadByte ==
  /\ job.kind = "read" /\ job.left > 0
  /\ dac' = DacRead(dac)
  /\ job' = [job EXCEPT !.at = @ + 1, !.left = @ - 1]
  /\ UNCHANGED <<pal, meant, jobs>>

EndJob == /\ job # NoJob /\ job' = NoJob
          /\ UNCHANGED <<dac, pal, meant, jobs>>

Black == [i \in Index |-> [k \in 0..2 |-> CHOOSE v \in Levels : TRUE]]
-----------------------------------------------------------------------------
Power(k) == 2^k
BitOf(byte, k) == (byte \div Power(Width - 1 - k)) % 2 = 1   \* k = 0 is the first bit
ShiftIn(byte, bit) == ((2 * byte) + (IF bit THEN 1 ELSE 0)) % Power(Width)
EdidByte(p) == Edid[(p % Len(Edid)) + 1]
-----------------------------------------------------------------------------
(* R128Cell::ddcStep. State 1 shifts the address, 3 the offset, 2 and 4 owe *)
(* an acknowledge, 7 and 8 eat the clock that samples it, 5 sends, 6 has    *)
(* sent a byte. START and STOP are what the master does to SDA.             *)
R128Idle == [state |-> 0, shift |-> 0, bits |-> 0, addr |-> 0, ptr |-> 0, out |-> TRUE,
             read |-> FALSE, addressing |-> FALSE, scl |-> TRUE, sda |-> TRUE]

R128Rise(d, sda) ==
  LET in   == ShiftIn(d.shift, sda /\ d.out)
      full == d.bits + 1 = Width
  IN  CASE d.state = 1 /\ ~full -> [d EXCEPT !.shift = in, !.bits = @ + 1]
        [] d.state = 1 /\ full  -> [d EXCEPT !.shift = in, !.bits = 0, !.addr = in,
                                             !.state = IF in \div 2 = SlaveAddr THEN 2 ELSE 0]
        [] d.state = 3 /\ ~full -> [d EXCEPT !.shift = in, !.bits = @ + 1]
        [] d.state = 3 /\ full  -> [d EXCEPT !.shift = in, !.bits = 0, !.ptr = in, !.state = 4]
        [] d.state = 7 -> IF d.addr % 2 = 1
                          THEN [d EXCEPT !.state = 5, !.shift = EdidByte(d.ptr), !.bits = 0]
                          ELSE [d EXCEPT !.state = 3, !.shift = 0, !.bits = 0]
        [] d.state = 8 -> [d EXCEPT !.state = 3, !.bits = 0]
        [] d.state = 5 /\ ~full -> [d EXCEPT !.bits = @ + 1]
        [] d.state = 5 /\ full  -> [d EXCEPT !.bits = 0, !.state = 6, !.ptr = (@ + 1) % Power(Width)]
        [] d.state \notin {1, 3, 5, 7, 8} -> d

R128Fall(d) ==
  CASE d.state = 2 -> [d EXCEPT !.out = FALSE, !.state = 7]
    [] d.state = 4 -> [d EXCEPT !.out = FALSE, !.state = 8]
    [] d.state = 5 -> [d EXCEPT !.out = BitOf(d.shift, d.bits)]
    [] d.state = 6 -> [d EXCEPT !.out = TRUE, !.state = 5, !.shift = EdidByte(d.ptr), !.bits = 0]
    [] d.state \notin {2, 4, 5, 6} -> [d EXCEPT !.out = TRUE]

R128Step(d, scl, sda) ==
  LET e == CASE d.scl /\ scl /\ sda # d.sda ->
                  IF sda THEN [d EXCEPT !.state = 0, !.out = TRUE]
                  ELSE [d EXCEPT !.state = 1, !.shift = 0, !.bits = 0, !.out = TRUE]
             [] scl /\ ~d.scl -> R128Rise(d, sda)
             [] ~scl /\ d.scl -> R128Fall(d)
             [] scl = d.scl /\ ~(scl /\ sda # d.sda) -> d
  IN  [e EXCEPT !.scl = scl, !.sda = sda]
-----------------------------------------------------------------------------
(* AtiRage: the same bus, read from the wire (the slave's own pull counts). *)
ProRise(d, wire) ==
  CASE d.state = 1 -> [d EXCEPT !.shift = ShiftIn(@, wire), !.bits = @ + 1]
    [] d.state = 6 -> IF wire THEN [d EXCEPT !.state = 0]
                      ELSE [d EXCEPT !.shift = EdidByte(d.ptr), !.ptr = (@ + 1) % Power(Width),
                                     !.bits = 0, !.state = 5]
    [] d.state \notin {1, 6} -> d

ProFallBits(d) ==
  CASE d.bits < Width -> d
    [] d.bits >= Width /\ ~d.addressing -> [d EXCEPT !.ptr = d.shift, !.out = FALSE, !.state = 2]
    [] d.bits >= Width /\ d.addressing ->
         IF d.shift \div 2 = SlaveAddr
         THEN [d EXCEPT !.read = d.shift % 2 = 1, !.out = FALSE, !.state = 2]
         ELSE [d EXCEPT !.state = 0]

(* Mutant: the pointer does not wrap. *)
ProFallAckWide(d) ==
  IF d.read
  THEN [d EXCEPT !.shift = EdidByte(d.ptr), !.ptr = @ + 1, !.bits = 1,
                 !.state = 5, !.out = BitOf(EdidByte(d.ptr), 0)]
  ELSE [d EXCEPT !.addressing = FALSE, !.shift = 0, !.bits = 0, !.state = 1, !.out = TRUE]

ProFallAck(d) ==
  IF d.read
  THEN [d EXCEPT !.shift = EdidByte(d.ptr), !.ptr = (@ + 1) % Power(Width), !.bits = 1,
                 !.state = 5, !.out = BitOf(EdidByte(d.ptr), 0)]
  ELSE [d EXCEPT !.addressing = FALSE, !.shift = 0, !.bits = 0, !.state = 1, !.out = TRUE]

ProFall(d) ==
  CASE d.state = 1 -> ProFallBits(d)
    [] d.state = 2 -> ProFallAck(d)
    [] d.state = 5 /\ d.bits = Width -> [d EXCEPT !.out = TRUE, !.state = 6]
    [] d.state = 5 /\ d.bits # Width -> [d EXCEPT !.out = BitOf(d.shift, d.bits), !.bits = @ + 1]
    [] d.state \notin {1, 2, 5} -> d

ProStep(d, scl, master) ==
  LET sda == master /\ d.out
      e == CASE scl /\ d.scl /\ d.sda /\ ~sda ->
                  [d EXCEPT !.state = 1, !.shift = 0, !.bits = 0, !.addressing = TRUE, !.out = TRUE]
             [] scl /\ d.scl /\ ~d.sda /\ sda -> [d EXCEPT !.state = 0, !.out = TRUE]
             [] scl /\ ~d.scl -> ProRise(d, sda)
             [] ~scl /\ d.scl -> ProFall(d)
             [] scl = d.scl /\ ~(scl /\ sda # d.sda) -> d
  IN  [e EXCEPT !.scl = scl, !.sda = sda]

Step(d, scl, sda) == IF bus.card = "r128" THEN R128Step(d, scl, sda) ELSE ProStep(d, scl, sda)

(* What the master reads back: the slave may hold SDA low (regRead's pin,   *)
(* sdaWire).                                                                *)
Wire(l, d) == l.sda /\ d.out
-----------------------------------------------------------------------------
(* The master (external): one line moves at a time.                         *)
Op(scl, sda, take)  == <<[scl |-> scl, sda |-> sda, take |-> take]>>
StartOps  == Op(TRUE, FALSE, FALSE) \o Op(FALSE, FALSE, FALSE)   \* from a free bus
AgainOps  == Op(FALSE, TRUE, FALSE) \o Op(TRUE, TRUE, FALSE) \o StartOps
ClockOps(sda, take) == Op(FALSE, sda, FALSE) \o Op(TRUE, sda, take) \o Op(FALSE, sda, FALSE)
StopOps  == Op(FALSE, FALSE, FALSE) \o Op(TRUE, FALSE, FALSE) \o Op(TRUE, TRUE, FALSE)

SendOps(byte) ==
  FlattenSeq([k \in 1..Width |-> ClockOps(BitOf(byte, k - 1), FALSE)]) \o ClockOps(TRUE, TRUE)

ReceiveOps(last) == FlattenSeq([k \in 1..Width |-> ClockOps(TRUE, TRUE)]) \o ClockOps(last, FALSE)

ReadOps(o) ==
  StartOps \o SendOps(2 * SlaveAddr) \o SendOps(o) \o AgainOps \o SendOps(2 * SlaveAddr + 1)
  \o FlattenSeq([k \in 1..bus.count |-> ReceiveOps(k = bus.count)]) \o StopOps

(* What a whole transfer samples: three acknowledges, then the bytes.       *)
Expected(o) ==
  <<FALSE, FALSE, FALSE>>
  \o FlattenSeq([n \in 1..bus.count |-> [k \in 1..Width |-> BitOf(EdidByte(o + n - 1), k - 1)]])

(* One register write of the master moves the bus and steps the slave.      *)
MasterOp ==
  /\ todo # <<>>
  /\ LET o == Head(todo)
     IN  /\ line' = [scl |-> o.scl, sda |-> o.sda]
         /\ dev' = Step(dev, o.scl, o.sda)
         /\ got' = IF o.take THEN Append(got, Wire(line', dev')) ELSE got
  /\ todo' = Tail(todo)
  /\ UNCHANGED <<bus, off, tries>>

(* The master gives up between two writes and starts over ...               *)
BreakOff ==
  /\ tries > 0 /\ todo # <<>>
  /\ tries' = tries - 1
  /\ got' = <<>>
  /\ off' \in Offsets
  /\ todo' = <<>>
  /\ UNCHANGED <<bus, line, dev>>

(* ... clocking with SDA released until the slave lets go of it.            *)
FreeBus ==
  /\ todo = <<>> /\ got = <<>>
  /\ todo' = IF line.scl /\ Wire(line, dev) THEN ReadOps(off) ELSE ClockOps(TRUE, FALSE) \o Op(TRUE, TRUE, FALSE)
  /\ UNCHANGED <<bus, line, dev, got, off, tries>>

-----------------------------------------------------------------------------
Init == /\ beam = [t |-> 0, line |-> 0, odd |-> FALSE]
        /\ sticky = FALSE
        /\ crtc = [total |-> 0, disp |-> 0]
        /\ goal = crtc
        /\ modes = 0
        /\ dac = [w |-> 0, r |-> 0, phase |-> 0, pal |-> Black]
        /\ pal = [idx |-> 0, pal |-> Black]
        /\ job = NoJob /\ meant = Black /\ jobs = 0
        /\ bus \in Masters
        /\ line = [scl |-> TRUE, sda |-> TRUE]
        /\ dev = R128Idle
        /\ off \in Offsets
        /\ todo = ReadOps(off)
        /\ got = <<>>
        /\ tries = 1

WriteCrtc == WriteHalf("total") \/ WriteHalf("disp")

Screen == Tick \/ WriteCrtc \/ SetMode \/ Acknowledge

Palette == StartJob \/ LoadByte \/ ReadByte \/ EndJob

Monitor == MasterOp \/ BreakOff \/ FreeBus

Next == \/ Screen /\ UNCHANGED <<palette, monitor>>
        \/ Palette /\ UNCHANGED <<screen, monitor>>
        \/ Monitor /\ UNCHANGED <<screen, palette>>

(* The machine loop ticks the beam, a driver finishes the register it is    *)
(* writing, and its handler acknowledges.                                   *)
Fairness == WF_screen(Tick) /\ WF_screen(Acknowledge) /\ WF_screen(WriteCrtc)

Spec == Init /\ [][Next]_vars /\ Fairness
-----------------------------------------------------------------------------
MostLines == LET ls == {VTotal(m) : m \in Modes} \cup {Fallback.total}
             IN  CHOOSE n \in ls : \A k \in ls : k <= n

TypeOK == /\ beam.line \in 0 .. MostLines - 1 /\ beam.t \in 0 .. LineTicks - 1
          /\ dac.w \in Index /\ dac.r \in Index /\ dac.phase \in 0..2
          /\ pal.idx \in Index
          /\ dev.bits \in 0..Width /\ dev.shift \in 0 .. Power(Width) - 1
          /\ dev.ptr \in 0 .. Power(Width) - 1 /\ dev.state \in 0..8

(* The blank keeps being latched: wherever the beam stood when the frame    *)
(* was reprogrammed under it, and also before the CRTC is programmed        *)
(* (tick's equality with vDispLines).                                       *)
BlankKeepsComing == []<>sticky

(* The palette holds what the guest stored, component for component, after  *)
(* runs abandoned in the middle of an entry and reads that move the shared  *)
(* phase (DAC_REGS).                                                        *)
PaletteAsStored == dac.pal = meant

(* The master reads the EDID: its acknowledges and, bit for bit, the bytes  *)
(* from the offset it gave, also after a transfer broken off anywhere       *)
(* (ddcStep, ddcUpdate).                                                    *)
EdidAsRead == IsPrefix(got, Expected(off))
=============================================================================
