-------------------------------- MODULE Ata ---------------------------------
(***************************************************************************)
(* One mac-io ATA cell (machine/src/ata.cpp): a hard disk or an ATAPI CD   *)
(* drive behind a task file, its commands deferred behind BSY, its data    *)
(* moved by the data register or by the DBDMA engine, and the medium the   *)
(* host puts in and takes out.                                             *)
(*                                                                         *)
(* A sector is SectorUnits register-sized units; what is moved is counted  *)
(* and carries the disc and block it came from.  Kept beside the cell for  *)
(* the properties: c.got, c.landed, cur and wanted (what the host has been *)
(* given and has had written for its current command, that command, and    *)
(* the disc the host last published); medium.told (the guest has been told *)
(* of the disc in the drive); c.poked (since the drive was last given a    *)
(* command or a packet, a buffer that stood drained has been taken for one *)
(* that just drained); medium.passed (the disc last published went into an *)
(* open tray past an older one that still waits to go in).                 *)
(***************************************************************************)
EXTENDS Integers, Sequences, FiniteSets, FiniteSetsExt

CONSTANTS
  MaxLba,        \* bound: the last block a command names
  MaxCount,      \* bound: sectors of a command whose count reads zero (256)
  SectorUnits,   \* units of a hard disk sector
  CmdDelay,      \* cmdDelayTb_, in ticks
  Dwell, Fallback,  \* kSwapDwellTb, kSwapFallbackTb, in ticks
  Discs, NoDisc,
  Audio,         \* blocks of audio tracks
  DataCmds,      \* packet commands that answer with a short block
  CdDma,         \* the guest drains the CD drive by DMA
  ResetsMidTransfer   \* the guest resets a drive inside a data phase

VARIABLES
  disk,          \* a hard disk, or a CD drive
  c,             \* the cell
  pend, pendIn,  \* the deferred command and the ticks until it runs
  medium,        \* the disc and what the guest was told of it
  cur, wanted

vars == <<disk, c, pend, pendIn, medium, cur, wanted>>

NoCmd == [cmd |-> "none", n |-> 0, lba |-> 0]
NoBuf == [n |-> 0, at |-> 0, lba |-> 0, disc |-> NoDisc]
Drained == [NoBuf EXCEPT !.n = 1, !.at = 1]
Blank == [n |-> SectorUnits, at |-> 0, lba |-> 0, disc |-> NoDisc]

Init ==
  /\ disk \in BOOLEAN
  /\ c = [status |-> {"DRDY"}, irq |-> FALSE, armed |-> FALSE,
          nsect |-> 1, lba |-> 1, limit |-> MaxCount, buf |-> NoBuf,
          readLba |-> 0, readLeft |-> 0, wrLba |-> 0, wrLeft |-> 0,
          cdb |-> FALSE, sense |-> "none", got |-> <<>>, landed |-> {},
          poked |-> FALSE, hung |-> FALSE]
  /\ pend = NoCmd /\ pendIn = 0
  /\ medium \in [disc: IF disk THEN {NoDisc} ELSE Discs \cup {NoDisc},
                 out: {FALSE}, attention: {FALSE},
                 absent: {FALSE}, staged: {NoDisc}, since: {0}, read: {FALSE},
                 told: {TRUE}, passed: {FALSE}]
  /\ cur = NoCmd /\ wanted = medium.disc
-----------------------------------------------------------------------------
(* The hard disk. *)

\* Mutant: the drained buffer of the last sector is left standing.
DiskStartReadKeep(x) ==
  IF x.readLeft = 0
  THEN [x EXCEPT !.nsect = 0, !.status = {"DRDY"}, !.irq = TRUE]
  ELSE [x EXCEPT !.buf = [Blank EXCEPT !.lba = x.readLba],
                 !.readLba = @ + 1, !.readLeft = @ - 1,
                 !.status = IF x.armed THEN {"DRDY"} ELSE {"DRDY", "DRQ"},
                 !.irq = TRUE]

\* diskStartRead: the next sector, or the end of the command.
DiskStartRead(x) ==
  IF x.readLeft = 0
  THEN [x EXCEPT !.buf = NoBuf, !.nsect = 0, !.status = {"DRDY"}, !.irq = TRUE]
  ELSE [x EXCEPT !.buf = [Blank EXCEPT !.lba = x.readLba],
                 !.readLba = @ + 1, !.readLeft = @ - 1,
                 !.status = IF x.armed THEN {"DRDY"} ELSE {"DRDY", "DRQ"},
                 !.irq = TRUE]

\* Mutant: a count of zero is no sectors.
CountPlain(n) == n

Count(n) == IF n = 0 THEN MaxCount ELSE n

\* The task file's signature after a reset, a diagnostic or an abort.
Signature(x) == [x EXCEPT !.nsect = 1, !.lba = 1, !.limit = MaxCount]

\* diskCommand.
DiskCommand(x, cmd) ==
  CASE cmd = "identify" ->
         [x EXCEPT !.buf = Blank, !.nsect = 0,
                   !.status = {"DRDY", "DRQ"}, !.irq = TRUE]
    [] cmd = "read" ->
         DiskStartRead([x EXCEPT !.readLba = x.lba, !.readLeft = Count(x.nsect)])
    [] cmd = "write" ->
         [x EXCEPT !.wrLba = x.lba, !.wrLeft = Count(x.nsect), !.buf = Blank,
                   !.status = IF x.armed THEN {"DRDY"} ELSE {"DRDY", "DRQ"}]
    [] cmd = "nodata" -> [x EXCEPT !.status = {"DRDY"}, !.irq = TRUE]
    [] cmd = "diagnostic" -> [Signature(x) EXCEPT !.status = {"DRDY"}]
    [] OTHER -> [Signature(x) EXCEPT !.status = {"DRDY", "ERR"}, !.irq = TRUE]

\* Mutant: the sector is committed and the count kept.
CommitWriteSectorKeep(x, fails) ==
  [x EXCEPT !.wrLba = @ + 1, !.buf = NoBuf, !.irq = TRUE, !.wrLeft = 0,
            !.status = {"DRDY"}, !.landed = @ \cup {x.wrLba}]

\* commitWriteSector: a full sector onto the image, or an error.
CommitWriteSector(x, fails) ==
  IF fails
  THEN [x EXCEPT !.status = {"DRDY", "ERR"}, !.wrLeft = 0, !.buf = NoBuf,
                 !.irq = TRUE]
  ELSE [x EXCEPT !.wrLba = @ + 1, !.wrLeft = @ - 1, !.irq = TRUE,
                 !.buf = IF x.wrLeft = 1 THEN NoBuf ELSE [@ EXCEPT !.at = 0],
                 !.status = IF x.wrLeft > 1 /\ ~x.armed THEN {"DRDY", "DRQ"}
                                                       ELSE {"DRDY"},
                 !.landed = @ \cup {x.wrLba}]

\* One unit of write data, by either path.
GiveUnit(x, fails) ==
  LET y == [x EXCEPT !.buf.at = @ + 1]
  IN  IF x.wrLeft = 0 \/ x.buf.n = 0 THEN x
      ELSE IF y.buf.at < y.buf.n THEN y ELSE CommitWriteSector(y, fails)
-----------------------------------------------------------------------------
(* The CD drive. *)

Complete(x) == [x EXCEPT !.status = {"DRDY"}, !.irq = TRUE]

CheckCondition(x, sense) ==
  [x EXCEPT !.sense = sense, !.buf = NoBuf, !.readLeft = 0,
            !.status = {"DRDY", "ERR"}, !.irq = TRUE]

\* Mutant: the byte count alone sizes the chunk.
ChunkToLimit(x) == x.limit

\* The data sectors before the next audio block, within the byte count.
Chunk(x) ==
  LET most == Min({x.limit, x.readLeft})
  IN  Max({k \in 1..most : \A j \in 1..k - 1 : x.readLba + j \notin Audio})

\* finishPio: the next chunk, or the end of the command.  The end leaves a buffer
\* that has drained where it is, whatever was in it.
FinishPio(x, drained) ==
  LET y == IF drained THEN [x EXCEPT !.buf = Drained] ELSE x
  IN
  IF disk THEN DiskStartRead(x)
  ELSE IF x.readLeft = 0 THEN (IF drained THEN Complete(y) ELSE x)
  ELSE IF x.readLba \in Audio
  THEN [y EXCEPT !.readLeft = 0, !.sense = "illegal",
                 !.status = {"DRDY", "ERR"}, !.irq = TRUE]
  ELSE LET k == Chunk(x)
       IN  [x EXCEPT !.buf = [n |-> k, at |-> 0, lba |-> x.readLba,
                              disc |-> medium.disc],
                     !.readLba = @ + k, !.readLeft = @ - k, !.limit = k,
                     !.status = {"DRDY", "DRQ"}, !.irq = TRUE]

\* The block that the next unit of the buffer belongs to.
NextBlock(x) ==
  <<x.buf.disc,
    x.buf.lba + (IF disk THEN x.buf.at \div SectorUnits ELSE x.buf.at)>>

\* Mutant: an empty buffer is taken for one that just drained.
TakeUnitEmpty(x) ==
  IF x.buf.at < x.buf.n
  THEN LET y == [x EXCEPT !.buf.at = @ + 1, !.got = Append(@, NextBlock(x))]
       IN  IF y.buf.at < y.buf.n THEN y ELSE FinishPio(y, TRUE)
  ELSE FinishPio(x, TRUE)

\* One unit of read data; the last one of a buffer calls for the next.  A
\* packet device keeps its drained buffer, and answers a unit asked of it then
\* as if the buffer had drained just now.
TakeUnit(x) ==
  IF x.buf.n = 0 THEN x
  ELSE IF x.buf.at < x.buf.n
  THEN LET y == [x EXCEPT !.buf.at = @ + 1, !.got = Append(@, NextBlock(x))]
       IN  IF y.buf.at < y.buf.n THEN y ELSE FinishPio(y, TRUE)
  ELSE [FinishPio(x, TRUE) EXCEPT !.poked = TRUE]

\* hostEject, the medium's side and the cell's.
Eject(m) == [m EXCEPT !.out = TRUE, !.absent = FALSE, !.since = 0]
EndRead(x) == [x EXCEPT !.readLeft = 0]

\* Mutant: an inserted disc is not announced.
InsertQuiet(m, d) ==
  [m EXCEPT !.disc = d, !.out = FALSE, !.absent = FALSE, !.read = FALSE,
            !.told = FALSE]

\* hostInsert with an image that opens, and with one that does not.
Insert(m, d) ==
  [m EXCEPT !.disc = d, !.out = FALSE, !.attention = TRUE, !.absent = FALSE,
            !.read = FALSE, !.told = FALSE]

Refused(m) == [m EXCEPT !.disc = NoDisc, !.out = TRUE]

Present(m) == m.disc # NoDisc /\ ~m.out

NeedsMedium(op) == op \in {"test_ready", "read"}

\* A reply of a few bytes: sense, identity, capacity, contents, capabilities.
ShortAnswer(x, op) ==
  [x EXCEPT !.buf = [NoBuf EXCEPT !.n = 1], !.limit = 1,
            !.status = {"DRDY", "DRQ"},
            !.sense = IF op = "request_sense" THEN "none" ELSE @]

\* packet: [x |-> the cell, m |-> the medium] after the command.
Packet(x0, m, op, n, l) ==
  LET x == [x0 EXCEPT !.buf = NoBuf, !.readLeft = 0, !.irq = TRUE,
                      !.cdb = FALSE, !.got = <<>>, !.poked = FALSE]
      keep(y) == [x |-> y, m |-> m]
  IN  IF op \notin {"inquiry", "request_sense"} /\ m.attention
      THEN [x |-> CheckCondition(x, "changed"),
            m |-> [m EXCEPT !.attention = FALSE, !.told = TRUE]]
      ELSE IF NeedsMedium(op) /\ ~Present(m)
      THEN [x |-> CheckCondition(x, "absent"), m |-> [m EXCEPT !.absent = TRUE]]
      ELSE CASE op = "read" ->
                  LET y == [x EXCEPT !.readLba = l, !.readLeft = n]
                      z == FinishPio(y, FALSE)
                  IN  [x |-> z, m |-> [m EXCEPT !.read = @ \/ z.buf.n > 0]]
             [] op = "eject" /\ ~m.out ->
                  [x |-> Complete(EndRead(x)), m |-> Eject(m)]
             [] op = "load" /\ m.disc # NoDisc /\ m.out /\ m.staged = NoDisc ->
                  [x |-> Complete(x), m |-> Insert(m, m.disc)]
             [] op \in DataCmds ->
                  keep(ShortAnswer(x, op))
             [] op = "unknown" ->
                  keep([x EXCEPT !.sense = "illegal", !.status = {"DRDY", "ERR"}])
             [] OTHER -> keep(Complete(x))

\* ataCommand for a packet device.
CdCommand(x, cmd) ==
  CASE cmd = "packet" -> [x EXCEPT !.cdb = TRUE, !.status = {"DRQ"}]
    [] cmd = "identify_packet" ->
         [x EXCEPT !.buf = [NoBuf EXCEPT !.n = 1], !.limit = 1, !.irq = TRUE,
                   !.status = {"DRDY", "DRQ"}]
    [] cmd = "nodata" -> Complete(x)
    [] cmd = "diagnostic" -> [Signature(x) EXCEPT !.status = {"DRDY"}]
    [] OTHER -> [x EXCEPT !.status = {"DRDY", "ERR"}]
-----------------------------------------------------------------------------
(* The registers. *)

Commands == IF disk THEN {"identify", "read", "write", "nodata", "diagnostic",
                          "unknown"}
                    ELSE {"packet", "identify_packet", "nodata", "diagnostic",
                          "unknown"}

\* The driver sees the drive idle: it has sent the packet it announced, taken
\* what DRQ offers, and for a disk has waited for its transfer to end.
DriverIdle ==
  /\ c.status \cap {"BSY", "DRQ"} = {} /\ ~c.cdb
  /\ ResetsMidTransfer \/ (disk => c.buf.n = 0)

\* The task file, then the command register: latched, and run later.  A drive
\* that looks idle while one is latched loses it.
WriteCommand(cmd, n, l) ==
  /\ DriverIdle
  /\ pend' = [cmd |-> cmd, n |-> n, lba |-> l] /\ pendIn' = CmdDelay
  /\ c' = [c EXCEPT !.nsect = n, !.lba = l, !.limit = Count(n),
                    !.status = {"BSY"}, !.irq = FALSE, !.poked = FALSE,
                    !.got = <<>>, !.landed = {}]
  /\ cur' = NoCmd
  /\ UNCHANGED <<disk, medium, wanted>>

\* The command runs on the task file as it was when its byte was written.
RunPending(x) ==
  LET y == [x EXCEPT !.nsect = pend.n, !.lba = pend.lba, !.poked = FALSE]
  IN  IF disk THEN DiskCommand(y, pend.cmd) ELSE CdCommand(y, pend.cmd)

\* Mutant: only a guest that has looked gets the new disc.
SwapDueSeen(m) ==
  m.staged # NoDisc /\ m.out /\ m.absent /\ m.since >= Dwell

SwapDue(m) ==
  /\ m.staged # NoDisc /\ m.out
  /\ (m.absent /\ m.since >= Dwell) \/ m.since >= Fallback

\* AtaCell::tick after some time: the staged swap, then the command.
Tick ==
  LET m    == IF medium.out THEN [medium EXCEPT !.since = Min({@ + 1, Fallback})]
                            ELSE medium
      runs == pend # NoCmd /\ pendIn <= 1
  IN  /\ pend # NoCmd \/ m # medium \/ SwapDue(m)
      /\ IF SwapDue(m)
         THEN \/ medium' = [Insert(m, m.staged) EXCEPT !.staged = NoDisc]
              \/ medium' = [Refused(m) EXCEPT !.staged = NoDisc]
         ELSE medium' = m
      /\ IF runs THEN c' = RunPending(c) /\ pend' = NoCmd /\ pendIn' = 0
                           /\ cur' = [pend EXCEPT !.n = IF @ = 0 THEN MaxCount ELSE @]
         ELSE /\ pendIn' = Max({pendIn - 1, 0})
              /\ UNCHANGED <<c, pend, cur>>
      /\ UNCHANGED <<disk, wanted>>

\* A chunk staged from the disc counts as a read of it.
NoteReads == [medium EXCEPT !.read = @ \/ (~disk /\ c'.readLba # c.readLba)]

\* A read of the data register, in a data phase or not.
ReadData ==
  /\ c' = TakeUnit(c)
  /\ medium' = NoteReads
  /\ UNCHANGED <<disk, pend, pendIn, cur, wanted>>

\* A guest has data to give, by either path, only for a write.
Gives == disk /\ cur.cmd = "write"

\* A write of the data register outside the command phase.
WriteData(fails) ==
  /\ Gives /\ ~c.cdb
  /\ c' = GiveUnit(c, fails)
  /\ UNCHANGED <<disk, pend, pendIn, medium, cur, wanted>>

\* The twelfth byte of a packet.
WriteCdb(op, n, l) ==
  /\ c.cdb
  /\ LET r == Packet(c, medium, op, n, l)
     IN  c' = r.x /\ medium' = r.m
  /\ cur' = IF op = "read" THEN [cmd |-> "read", n |-> n, lba |-> l] ELSE NoCmd
  /\ UNCHANGED <<disk, pend, pendIn, wanted>>

ReadStatus ==
  /\ c' = [c EXCEPT !.irq = FALSE]
  /\ UNCHANGED <<disk, pend, pendIn, medium, cur, wanted>>

\* Device control with SRST.
SoftReset ==
  /\ ResetsMidTransfer \/ (c.buf.at = c.buf.n /\ ~c.cdb)
  /\ pend' = NoCmd /\ pendIn' = 0
  /\ c' = [Signature(c) EXCEPT !.status = {"DRDY"}, !.got = <<>>, !.landed = {}]
  /\ cur' = NoCmd
  /\ UNCHANGED <<disk, medium, wanted>>
-----------------------------------------------------------------------------
(* The DBDMA engine's end. *)

\* setDmaArmed, from the channel's RUN bit.
Arm ==
  /\ disk \/ CdDma
  /\ "DRQ" \notin c.status
  /\ c' = [c EXCEPT !.armed = ~@]
  /\ UNCHANGED <<disk, pend, pendIn, medium, cur, wanted>>

\* dmaTake: units until the request is filled or the drive has none.  A
\* drained buffer that is not given up makes the loop turn for ever.
DmaTake(want) ==
  LET taken[k \in 0..want] == IF k = 0 THEN c ELSE
        LET x == taken[k - 1]
        IN  IF x.buf.n > 0 /\ x.buf.at = x.buf.n
            THEN [x EXCEPT !.hung = TRUE] ELSE TakeUnit(x)
  IN  /\ c.armed /\ ~c.hung
      /\ c' = taken[want] /\ medium' = NoteReads
      /\ UNCHANGED <<disk, pend, pendIn, cur, wanted>>

\* dmaGive, with the last commit failing or not.
DmaGive(have, fails) ==
  LET given[k \in 0..have] ==
        IF k = 0 THEN c ELSE GiveUnit(given[k - 1], fails /\ k = have)
  IN  /\ c.armed /\ Gives
      /\ c' = given[have]
      /\ UNCHANGED <<disk, pend, pendIn, medium, cur, wanted>>
-----------------------------------------------------------------------------
(* The host: opm_drop_swap, opm_drop_eject. *)

\* hostSwap: an empty tray takes the disc at once, whatever else waits.
Swap(m, d) == IF Present(m) THEN Eject([m EXCEPT !.staged = d]) ELSE Insert(m, d)

Passes(m, d) == ~Present(m) /\ m.staged \notin {NoDisc, d}

\* hostStage: swapped now, or left until the guest puts it away.
HostStage(d) ==
  /\ ~disk
  /\ wanted' = d
  /\ LET m == [medium EXCEPT !.passed = Passes(medium, d)]
     IN  IF ~Present(m) \/ ~m.read
         THEN /\ medium' = Swap(m, d)
              /\ c' = IF Present(m) THEN EndRead(c) ELSE c
         ELSE medium' = [m EXCEPT !.staged = d] /\ UNCHANGED c
  /\ UNCHANGED <<disk, pend, pendIn, cur>>

HostEject ==
  /\ ~disk /\ ~medium.out
  /\ medium' = Eject(medium) /\ c' = EndRead(c)
  /\ UNCHANGED <<disk, pend, pendIn, cur, wanted>>

\* "lock" stands for the packet commands that are acknowledged and change nothing
\* here: PREVENT ALLOW (a bit nobody reads), SYNCHRONIZE CACHE, SET CD SPEED.
Ops == DataCmds \cup {"test_ready", "read", "eject", "load", "lock", "unknown"}

Guest ==
  \/ \E cmd \in Commands, n \in 0..1, l \in {0, MaxLba} : WriteCommand(cmd, n, l)
  \/ \E op \in Ops, n \in 1..2, l \in 0..1 : WriteCdb(op, n, l)
  \/ \E fails \in BOOLEAN : WriteData(fails)
  \/ ReadData
  \/ ReadStatus
  \/ SoftReset
  \/ Arm

Engine ==
  \/ \E want \in 1..2 * SectorUnits : DmaTake(want)
  \/ \E have \in 1..SectorUnits, fails \in BOOLEAN : DmaGive(have, fails)

Host == (\E d \in Discs : HostStage(d)) \/ HostEject

Next == Guest \/ Engine \/ Host \/ Tick

Spec == Init /\ [][Next]_vars /\ WF_vars(Tick)
-----------------------------------------------------------------------------
Units == IF disk THEN SectorUnits ELSE 1

\* The cell's registers and the medium are well formed, and nothing is ever
\* moved past the end of a buffer.
TypeOK ==
  /\ c.status \subseteq {"BSY", "DRDY", "DRQ", "ERR"}
  /\ c.buf.at \in 0..c.buf.n
  /\ c.nsect \in 0..MaxCount /\ c.readLeft \in 0..MaxCount
  /\ c.wrLeft \in 0..MaxCount /\ pendIn \in 0..CmdDelay
  /\ medium.since \in 0..Fallback /\ medium.disc \in Discs \cup {NoDisc}

\* From the write of a command to the moment it runs the drive is busy and
\* silent: nothing a poke of the data register or a wake of the standing DMA
\* list does in that window looks like the command's completion
\* (AtaCell::write case 0x070, AtaCell::read case 0x000, dmaTake).  The poke of
\* a packet device's drained buffer does: c.poked records it.
BusyUntilRun == pend # NoCmd /\ ~c.poked => c.status = {"BSY"} /\ ~c.irq

\* The poke that gets an answer is one of a packet device with a drained buffer
\* standing and nothing left to stage: a disk in any phase, a CD drive whose last
\* packet had no data, and every read under way answer only with their own data
\* ("An empty buffer is not a chunk that just drained").
OnlyLeftoversAnswer == c.poked => ~disk /\ c.buf.n > 0 /\ c.readLeft = 0

\* Whatever mix of register reads and DMA drains it, what the host has been
\* given for a read is the commanded blocks from the first on, each once, all
\* from one disc.
StreamInOrder ==
  cur.cmd = "read" =>
    /\ Len(c.got) <= cur.n * Units
    /\ \A i \in 1..Len(c.got) :
         /\ c.got[i][2] = cur.lba + (i - 1) \div Units
         /\ c.got[i][1] = c.got[1][1]

\* A read that ends without an error, the disc untouched, was given whole.
ReadsAreWhole ==
  /\ cur.cmd = "read" /\ ~c.poked /\ c.readLeft = 0 /\ c.buf.at = c.buf.n
  /\ c.status = {"DRDY"} /\ ~medium.out /\ ~medium.attention /\ pend = NoCmd
  => Len(c.got) = cur.n * Units

\* The sectors a write has put on the image are the commanded ones, in order
\* and so far; a write that ends short has said so.
WritesLand ==
  disk /\ cur.cmd = "write" /\ "ERR" \notin c.status =>
    c.landed = cur.lba..(cur.lba + cur.n - c.wrLeft - 1)

\* A guest never reads a disc it has not been told of: between putting a new
\* one in and the first block of it comes UNIT ATTENTION.
AnnouncedBeforeRead == medium.read => medium.told

\* The disc that is in the drive once no swap is waiting is the one the host
\* published last ("A newer image replaces the waiting one").
NewerReplacesWaiting ==
  ~disk /\ Present(medium) /\ medium.staged = NoDisc => medium.disc = wanted

\* That holds but for a disc published while the tray was open with an older one
\* still waiting: hostSwap puts the new one in and forgets to forget the old one.
LatestDiscWins == medium.passed \/ NewerReplacesWaiting

\* dmaTake returns: "keep streaming until the caller's request is filled or
\* the drive has nothing left to give".
TakeEnds == ~c.hung

\* An open tray with a disc waiting for it does not stay open, whether or not
\* the guest ever looks at it: a disc goes in, or the waiting one turns out not to
\* open.
SwapHappens ==
  medium.staged # NoDisc /\ medium.out
    ~> Present(medium) \/ medium.staged = NoDisc
=============================================================================
