------------------------------- MODULE Snapshot -------------------------------
(***************************************************************************)
(* Saving a machine to a stream and loading it into another.  The stream   *)
(* is a header and tagged, counted sections; a section is a fixed order of *)
(* fields, written by one list and read by another.  A field is scalar, a  *)
(* counted blob, or a blob restored in place whose size must agree.  The   *)
(* reader latches its first failure and reads zero from then on.           *)
(*                                                                         *)
(* A name stands for the fields of the code from the one it names up to    *)
(* the next name; one entry stands for an array of them (a TLB entry, a    *)
(* cache line, an interrupt source), and one value of a blob for an entry  *)
(* of a log, a map or a string.  A field's value is the generation it was  *)
(* last written in, and a token names the field it was written for, so     *)
(* what lands in the wrong field is told apart.                            *)
(***************************************************************************)
EXTENDS Naturals, Sequences, SequencesExt

CONSTANT MaxGen   \* bound: how often the guest runs between two loads

VARIABLES m,      \* the machine
          file,   \* the stream on disk
          origin, \* what it was written from: the machine, the writer, all of it?
          at      \* "running", "resumed", "verified" or "dead"

snapshotVars == <<m, file, origin, at>>

NoDisc == 0
Garbage == 99
Discs == 1..2    \* two images of different size
Zero == [k |-> "zero", n |-> <<"", "">>, v |-> 0]
Val(n, v) == [k |-> "val", n |-> n, v |-> v]
Count(v) == [k |-> "count", n |-> <<"", "">>, v |-> v]
Tag(t) == [k |-> "tag", n |-> <<t, "">>, v |-> 0]
Of(cell, names) == [i \in DOMAIN names |-> <<cell, names[i]>>]

Drives == {"cd", "hd", "drop"}
Hosts == {"ohci0", "ohci1"}
Channels == {"ataDma", "hdDma", "dropDma", "sndOut", "sndIn"}

Blobs == {<<"cpu", "haltReason">>, <<"l2", "lines">>, <<"mem", "rom">>, <<"mem", "atiRom">>,
          <<"bus", "console">>, <<"bus", "rxQueue">>, <<"bus", "cfgSpace">>, <<"snd", "ring">>,
          <<"pmu", "frame">>, <<"pmu", "reply">>,
          <<"r128", "regs">>, <<"r128", "seen">>, <<"r128", "pll">>}
         \cup {<<c, "log">> : c \in Drives \cup Hosts \cup Channels \cup {"pic", "pmu", "r128"}}
         \cup {<<"logs", n>> : n \in {"sz", "i2c", "unin", "cfg", "ata", "log", "kl",
                                       "logOrder", "macioOrder"}}
         \cup {<<d, "data">> : d \in Drives}
InPlace == {<<"mem", "ram">>, <<"bus", "kl">>, <<"r128", "vram">>}
-----------------------------------------------------------------------------
(* The writer's lists of fields. *)

CpuStateOut == Of("cpu", <<"gpr", "fpr", "vr", "pc", "msr", "fpscr", "vscr", "srr", "sprg", "dar",
                           "sdr1", "sr", "bat", "hid", "thrm", "iabr", "mmcr", "pmc", "tb", "dec",
                           "pvr", "resv">>)
CpuOut == CpuStateOut \o Of("cpu", <<"extIrqLine", "decPending", "pmPending", "napping", "curInsn",
                                     "cycleAccum", "cyclesPerTbTick", "halted", "haltReason",
                                     "mmuProbe">>)
TlbOut(t) == Of(t, <<"v", "c", "vsid", "pi", "rpn", "wimg", "pp">>)
MmuOut == TlbOut("itlb") \o TlbOut("dtlb") \o Of("cpu", <<"itlbLru", "dtlbLru">>)
L1Out == Of("l1d", <<"clock", "v", "d", "tag", "age", "b">>)
L2Out == Of("l2", <<"sets", "clock", "lines">>)
AtaOut(d) == Of(d, <<"disk", "wrLeft", "features", "status", "data", "dataAt", "cdb", "readLba",
                     "sense", "pending", "pendAtTb", "latched", "multiple", "curHeads", "irq",
                     "dmaIrqLatch", "ctl", "log">>)
PicOut == Of("pic", <<"vp", "dest", "line", "pending", "raiseCount", "taskPri", "inService",
                      "global", "log">>)
OhciOut(u) == Of(u, <<"control", "intStatus", "hcca", "ctrlHead", "bulkHead", "doneHead",
                      "fmInterval", "rhDesc", "rhPort", "portReset", "portPower", "lastFrameTb",
                      "keys", "log">>)
DbdmaOut(c) == Of(c, <<"status", "cmdPtr", "sel", "xferDone", "irq", "log">>)
AwacsOut == Of("snd", <<"soundCtl", "clipCount", "codecRegs", "playTb", "recTb", "frameTb", "nowTb",
                        "played", "ring">>)
PmuOut == Of("pmu", <<"portAIn", "or", "ddr", "t1l", "t1Load", "t1At", "sr", "ifr", "ack", "frame",
                      "reply", "replyAt", "log">>)
R128Out == Of("r128", <<"regs", "seen", "pllAddr", "pll", "palIdx", "pal", "vblNextTb", "tbNow",
                        "log", "vram">>)
MemOut == Of("mem", <<"ram", "rom", "base", "atiRom">>)
BusOut == Of("bus", <<"unin", "kl", "klTimerTb", "klTimerVal", "scc", "console", "rxQueue",
                      "rxNextAt", "i2c", "cfgAddr", "cfgSpace", "bars", "atiVisibleAt", "watch">>)
LogsOut == Of("logs", <<"sz", "i2c", "unin", "cfg", "ata", "log", "kl", "logOrder", "macioOrder">>)
HarnessOut == Of("harness", <<"executed", "fastTb", "park", "poked">>)

(* The reader's. *)

CpuStateIn == Of("cpu", <<"gpr", "fpr", "vr", "pc", "msr", "fpscr", "vscr", "srr", "sprg", "dar",
                          "sdr1", "sr", "bat", "hid", "thrm", "iabr", "mmcr", "pmc", "tb", "dec",
                          "pvr", "resv">>)
CpuIn == CpuStateIn \o Of("cpu", <<"extIrqLine", "decPending", "pmPending", "napping", "curInsn",
                                   "cycleAccum", "cyclesPerTbTick", "halted", "haltReason",
                                   "mmuProbe">>)
TlbIn(t) == Of(t, <<"v", "c", "vsid", "pi", "rpn", "wimg", "pp">>)
MmuIn == TlbIn("itlb") \o TlbIn("dtlb") \o Of("cpu", <<"itlbLru", "dtlbLru">>)
L1In == Of("l1d", <<"clock", "v", "d", "tag", "age", "b">>)
L2In == Of("l2", <<"sets", "clock", "lines">>)

AtaIn(d) == Of(d, <<"disk", "wrLeft", "features", "status", "data", "dataAt", "cdb", "readLba",
                    "sense", "pending", "pendAtTb", "latched", "multiple", "curHeads", "irq",
                    "dmaIrqLatch", "ctl", "log">>)
PicIn == Of("pic", <<"vp", "dest", "line", "pending", "raiseCount", "taskPri", "inService",
                     "global", "log">>)
OhciIn(u) == Of(u, <<"control", "intStatus", "hcca", "ctrlHead", "bulkHead", "doneHead",
                     "fmInterval", "rhDesc", "rhPort", "portReset", "portPower", "lastFrameTb",
                     "keys", "log">>)
DbdmaIn(c) == Of(c, <<"status", "cmdPtr", "sel", "xferDone", "irq", "log">>)
AwacsIn == Of("snd", <<"soundCtl", "clipCount", "codecRegs", "playTb", "recTb", "frameTb", "nowTb",
                       "played", "ring">>)
PmuIn == Of("pmu", <<"portAIn", "or", "ddr", "t1l", "t1Load", "t1At", "sr", "ifr", "ack", "frame",
                     "reply", "replyAt", "log">>)
R128In == Of("r128", <<"regs", "seen", "pllAddr", "pll", "palIdx", "pal", "vblNextTb", "tbNow",
                       "log", "vram">>)
BusIn == Of("bus", <<"unin", "kl", "klTimerTb", "klTimerVal", "scc", "console", "rxQueue",
                     "rxNextAt", "i2c", "cfgAddr", "cfgSpace", "bars", "atiVisibleAt", "watch">>)
LogsIn == Of("logs", <<"sz", "i2c", "unin", "cfg", "ata", "log", "kl", "logOrder", "macioOrder">>)
HarnessIn == Of("harness", <<"executed", "fastTb", "park", "poked">>)

Fields == UNION {ToSet(L) : L \in
  {CpuOut, MmuOut, L1Out, L2Out, PicOut, AwacsOut, PmuOut, R128Out, MemOut, BusOut,
   LogsOut, HarnessOut}
  \cup {AtaOut(d) : d \in Drives} \cup {OhciOut(u) : u \in Hosts}
  \cup {DbdmaOut(c) : c \in Channels}}
Big == Blobs \cup InPlace
-----------------------------------------------------------------------------
(* Machines. *)

\* A drive of the CD class: what the host attached, and the tray; rest is the
\* lock, the sense and the counters of its media.
Tray(disc, seated) == [seated |-> seated, disc |-> disc, ejected |-> FALSE, seen |-> FALSE,
                       ua |-> FALSE, staged |-> NoDisc, rest |-> 0]
Present(t) == t.seated \/ t.disc # NoDisc

\* The contents of a machine whose fields were all last written in g, with
\* blobs of n entries.
Contents(g, n, ram, base, ati) ==
  [f \in Fields |-> CASE f \in InPlace -> [i \in 1..ram |-> g]
                      [] f = <<"mem", "rom">> -> <<g>>
                      [] f = <<"mem", "atiRom">> -> ati
                      [] f \in Blobs -> [i \in 1..n |-> g]
                      [] f = <<"mem", "base">> -> base
                      [] OTHER -> g]

\* What the stream does not carry is beside the fields: the copies the core
\* fetches from and translates by, the gate's deadline, the bus's notion of now,
\* and whether a report or half a command packet is staged in a device.
Fresh(b) ==
  [f |-> Contents(0, 0, b.board[1], b.board[2], b.board[3]),
   tray |-> [d \in {"cd", "drop"} |-> IF d = "cd" THEN Tray(b.cd, FALSE) ELSE Tray(b.drop, b.seated)],
   fetched |-> 0, gate |-> 0, now |-> 0, half |-> FALSE]

\* What a run is given: how much memory, which boot ROM and card ROM, which
\* discs, and whether the third drive is there without one.
Board == <<1, 1, <<1>>>>
Boards == {Board, <<2, 1, <<1>>>>, <<1, 2, <<1>>>>, <<1, 1, <<>>>>, <<1, 1, <<2>>>>}
Builds == [board : Boards, cd : {NoDisc} \cup Discs, drop : {NoDisc} \cup Discs, seated : BOOLEAN]

\* With the discs cd and drop, else as the machine that is saved.
Plain(cd, drop) == [board |-> Board, cd |-> cd, drop |-> drop, seated |-> FALSE]
Like(y) == Plain(y.tray["cd"].disc, y.tray["drop"].disc)

SnapshotInit ==
  /\ m \in {Fresh(Plain(cd, drop)) : cd, drop \in {NoDisc, 1}}
  /\ file = <<>> /\ origin = <<>> /\ at = "running"
-----------------------------------------------------------------------------
(* Writing. *)

Framed(tag, body) == <<Tag(tag), Count(Len(body))>> \o body

Written(y, n) ==
  IF n \in Big
  THEN <<Count(Len(y.f[n]))>> \o [i \in 1..Len(y.f[n]) |-> Val(n, y.f[n][i])]
  ELSE <<Val(n, y.f[n])>>
Write(y, names) == FlattenSeq([i \in DOMAIN names |-> Written(y, names[i])])

HdTray == Tray(1, FALSE)
TrayOf(y, d) == IF d = "hd" THEN HdTray ELSE y.tray[d]

\* snapSave of a drive: whether it is there, the size of its image, the rest.
SaveAta(y, d) ==
  <<Val(<<d, "present">>, Present(TrayOf(y, d))), Val(<<d, "bytes">>, TrayOf(y, d).disc)>>
  \o Write(y, AtaOut(d))

SaveMedia(y, d) == <<Val(<<d, "tray">>, y.tray[d])>>

SaveCpu(y) == Framed("CPU ", Write(y, CpuOut)) \o Framed("MMU ", Write(y, MmuOut))
              \o Framed("L1D ", Write(y, L1Out)) \o Framed("L2  ", Write(y, L2Out))

SaveDrop(y) ==
  Framed("DROP", <<Val(<<"drop", "had">>, Present(y.tray["drop"]))>> \o SaveAta(y, "drop")
                 \o Write(y, DbdmaOut("dropDma")) \o SaveMedia(y, "cd") \o SaveMedia(y, "drop"))

\* Devices have a section each; a build from before the third drive writes
\* no section for it.
SaveBus(y, old) ==
  Framed("MEM ", Write(y, MemOut)) \o Framed("BUS ", Write(y, BusOut))
  \o Framed("LOGS", Write(y, LogsOut))
  \o Framed("ATA0", SaveAta(y, "cd")) \o Framed("ATA1", SaveAta(y, "hd"))
  \o Framed("PIC ", Write(y, PicOut))
  \o Framed("OHC0", Write(y, OhciOut("ohci0"))) \o Framed("OHC1", Write(y, OhciOut("ohci1")))
  \o Framed("DBDM", Write(y, DbdmaOut("ataDma"))) \o Framed("DBD2", Write(y, DbdmaOut("hdDma")))
  \o Framed("SND ", Write(y, AwacsOut)) \o Framed("SDMO", Write(y, DbdmaOut("sndOut")))
  \o Framed("SDMI", Write(y, DbdmaOut("sndIn"))) \o Framed("PMU ", Write(y, PmuOut))
  \o Framed("R128", Write(y, R128Out))
  \o IF old THEN <<>> ELSE SaveDrop(y)

\* by: the writer, this build, one from before the third drive, one of another
\* version, one of the same version with another layout, or another program.
SaveSnapshot(y, by) ==
  <<Count(IF by = "alien" THEN 1 ELSE 2), Count(IF by = "version" THEN 12 ELSE 13),
    Count(IF by \in {"layout", "version"} THEN 1 ELSE 0)>>
  \o SaveCpu(y) \o SaveBus(y, by = "old")
  \o Framed("HARN", Write(y, HarnessOut)) \o Framed("END ", <<>>)
-----------------------------------------------------------------------------
(* Reading: a reader with the machine it restores. *)

Reader(s, y) == [s |-> s, p |-> 0, ok |-> TRUE, m |-> y]
Fail(z) == [z EXCEPT !.ok = FALSE]
More(z, n) == z.ok /\ Len(z.s) - z.p >= n
Peek(z) == IF More(z, 1) THEN z.s[z.p + 1] ELSE Zero
Skip(z) == IF More(z, 1) THEN [z EXCEPT !.p = @ + 1] ELSE Fail(z)
Fits(n, t) == IF t.k = "zero" THEN 0 ELSE IF t.k = "val" /\ t.n = n THEN t.v ELSE Garbage

Flag(z, n) == Peek(z).k = "val" /\ Peek(z).n = n /\ Peek(z).v

Scalar(z, n) == [Skip(z) EXCEPT !.m.f[n] = Fits(n, Peek(z))]

Bytes(z, n, cnt) == [i \in 1..cnt |-> Fits(n, z.s[z.p + i])]

\* bytes: a count, then that many, or a failure.
Taken(a, n, c) == IF ~More(a, c) THEN Fail(a)
                  ELSE [a EXCEPT !.m.f[n] = Bytes(a, n, c), !.p = @ + c]
Blob(z, n) == Taken(Skip(z), n, Peek(z).v)

\* bytesInPlace: the blob keeps its storage, so the size must be the same.
InPlaceBlob(z, n) ==
  IF Skip(z).ok /\ Peek(z).v # Len(z.m.f[n]) THEN Fail(Skip(z)) ELSE Blob(z, n)

ReadField(z, n) ==
  IF n \in InPlace THEN InPlaceBlob(z, n) ELSE IF n \in Blobs THEN Blob(z, n) ELSE Scalar(z, n)
Read(z, names) ==
  LET upTo[i \in 0..Len(names)] == IF i = 0 THEN z ELSE ReadField(upTo[i - 1], names[i])
  IN  upTo[Len(names)]

BeginSection(z, tag) ==
  LET a == Skip(z)
      b == IF a.ok /\ Peek(z) # Tag(tag) THEN Fail(a) ELSE a
      d == Skip(b)
  IN  IF b.ok /\ ~More(d, Peek(b).v) THEN Fail(d) ELSE d
SectionEnd(z) == z.p + 2 + z.s[z.p + 2].v

EndSection(z, want) == IF z.ok /\ z.p # want THEN Fail(z) ELSE z

Section(z, tag, Body(_)) ==
  LET b == BeginSection(z, tag)
  IN  IF b.ok THEN EndSection(Body(b), SectionEnd(z)) ELSE Body(b)

\* The restored fetch buffer is the previous machine's.
LoadCpuKeep(z) ==
  LET c(y) == Read(y, CpuIn)
      t(y) == Read(y, MmuIn)
      l1(y) == Read(y, L1In)
      l2(y) == Read(y, L2In)
  IN  Section(Section(Section(Section(z, "CPU ", c), "MMU ", t), "L1D ", l1), "L2  ", l2)

LoadCpu(z) ==
  LET a == [z EXCEPT !.m.fetched = 0]
      c(y) == Read(y, CpuIn)
      t(y) == Read(y, MmuIn)
      l1(y) == Read(y, L1In)
      l2(y) == Read(y, L2In)
  IN  Section(Section(Section(Section(a, "CPU ", c), "MMU ", t), "L1D ", l1), "L2  ", l2)

\* The identity of the ROM is the image the run started from; the live image
\* is state.  A card ROM given to this run must be the stream's.
RomMatches(z, was) ==
  /\ Fits(<<"mem", "base">>, Peek(z)) = was[<<"mem", "base">>]
  /\ Len(z.m.f[<<"mem", "rom">>]) = Len(was[<<"mem", "rom">>])

LoadRom(a, was) ==
  LET z == Blob([a EXCEPT !.m.f[<<"mem", "rom">>] = was[<<"mem", "rom">>]], <<"mem", "rom">>)
      d == Skip(z)
  IN  IF d.ok /\ RomMatches(z, was) THEN d ELSE [Fail(d) EXCEPT !.m.f = a.m.f]

CardMatches(z, given) ==
  IF z.ok /\ given # <<>> /\ given # z.m.f[<<"mem", "atiRom">>]
  THEN [Fail(z) EXCEPT !.m.f[<<"mem", "atiRom">>] = given] ELSE z

LoadMem(z) ==
  CardMatches(Blob(LoadRom(InPlaceBlob(z, <<"mem", "ram">>), z.m.f), <<"mem", "atiRom">>),
              z.m.f[<<"mem", "atiRom">>])

\* A drive the stream or the host seated is there, and a disc the host put in
\* waits outside until the guest has seen the tray empty.
LoadTray(z, was) ==
  LET t == z.m.tray["drop"]
      u == [t EXCEPT !.seated = @ \/ was]
  IN  [z EXCEPT !.m.tray["drop"] =
         IF t.disc = NoDisc THEN u
         ELSE [u EXCEPT !.ejected = TRUE, !.seen = FALSE, !.staged = t.disc]]

LoadAta(z, d) ==
  LET was == Flag(z, <<d, "present">>)
      a == Skip(z)
      bytes == Fits(<<d, "bytes">>, Peek(a))
      b == Skip(a)
      t == TrayOf(b.m, d)
      strict == d # "drop"
      wrong == b.ok /\ strict /\ \/ was # Present(t)
                                 \/ was /\ bytes # t.disc
  IN  IF wrong THEN Fail(b) ELSE Read(IF strict THEN b ELSE LoadTray(b, was), AtaIn(d))

\* snapLoadMedia: merged; gone says the file of a staged disc is not there.
LoadMedia(z, d, gone) ==
  LET a == Skip(z)
      s == IF a.ok THEN Peek(z).v ELSE Tray(NoDisc, FALSE)
      t == a.m.tray[d]
      u == [t EXCEPT !.seated = @ \/ s.seated, !.rest = s.rest]
      v == [u EXCEPT !.ejected = @ \/ s.ejected, !.ua = s.ua, !.seen = s.seen,
                     !.staged = IF gone THEN NoDisc ELSE s.staged]
  IN  [a EXCEPT !.m.tray[d] = IF t.staged # NoDisc THEN u ELSE v]

LoadDrop(z, gone) ==
  LET body(y) ==
        LET had == Flag(y, <<"drop", "had">>)
            b == [Skip(y) EXCEPT !.m.tray["drop"].seated = @ \/ had]
            c == Read(LoadAta(b, "drop"), DbdmaIn("dropDma"))
        IN  LoadMedia(LoadMedia(c, "cd", gone), "drop", gone)
  IN  IF Peek(z) = Tag("DROP") THEN Section(z, "DROP", body) ELSE z

\* Every device it summarises has been replaced: the gate knows nothing.
LoadBus(z, gone) ==
  LET mem(y) == LoadMem(y)
      bus(y) == Read(y, BusIn)
      logs(y) == Read(y, LogsIn)
      cd(y) == LoadAta(y, "cd")
      hd(y) == LoadAta(y, "hd")
      pic(y) == Read(y, PicIn)
      o0(y) == Read(y, OhciIn("ohci0"))
      o1(y) == Read(y, OhciIn("ohci1"))
      d1(y) == Read(y, DbdmaIn("ataDma"))
      d2(y) == Read(y, DbdmaIn("hdDma"))
      snd(y) == Read(y, AwacsIn)
      so(y) == Read(y, DbdmaIn("sndOut"))
      si(y) == Read(y, DbdmaIn("sndIn"))
      pmu(y) == Read(y, PmuIn)
      r128(y) == Read(y, R128In)
      a == Section(Section(Section(z, "MEM ", mem), "BUS ", bus), "LOGS", logs)
      b == Section(Section(Section(a, "ATA0", cd), "ATA1", hd), "PIC ", pic)
      c == Section(Section(b, "OHC0", o0), "OHC1", o1)
      d == Section(Section(c, "DBDM", d1), "DBD2", d2)
      e == Section(Section(Section(d, "SND ", snd), "SDMO", so), "SDMI", si)
      f == Section(Section(e, "PMU ", pmu), "R128", r128)
  IN  [LoadDrop(f, gone) EXCEPT !.m.gate = 0,
                            !.m.now = f.m.f[<<"bus", "klTimerTb">>]]

HeaderOk(z) == /\ More(z, 3) /\ z.s[1].v = 2 /\ z.s[2].v = 13 /\ z.s[3].v = 0

AtEnd(z) == IF z.ok /\ z.p # Len(z.s) THEN Fail(z) ELSE z

LoadSnapshot(s, y, gone) ==
  LET z == Reader(s, y)
      harn(x) == Read(x, HarnessIn)
      end(x) == x
  IN  IF ~HeaderOk(z) THEN Fail(z)
      ELSE AtEnd(Section(Section(LoadBus(LoadCpu([z EXCEPT !.p = 3]), gone), "HARN", harn),
                         "END ", end))
-----------------------------------------------------------------------------
(* What happens to a machine and to the file. *)

\* The guest runs on, and everything it has may change.
Run(n, half) ==
  /\ at # "dead"
  /\ \E g \in {m.f[<<"cpu", "gpr">>] + 1} :
       /\ g <= MaxGen
       /\ m' = [m EXCEPT !.f = Contents(g, n, Len(m.f[<<"mem", "ram">>]), m.f[<<"mem", "base">>],
                                       m.f[<<"mem", "atiRom">>]),
                         !.fetched = g, !.gate = g, !.now = g, !.half = half,
                         !.tray["cd"].rest = g, !.tray["drop"].rest = g]
  /\ at' = "running"
  /\ UNCHANGED <<file, origin>>

\* The guest ejects its CD, or the host stages another disc for it.
Eject ==
  /\ at = "running" /\ m.tray["cd"].disc # NoDisc /\ ~m.tray["cd"].ejected
  /\ m' = [m EXCEPT !.tray["cd"].ejected = TRUE, !.tray["cd"].seen = FALSE]
  /\ UNCHANGED <<file, origin, at>>

Stage ==
  /\ at = "running" /\ m.tray["cd"].ejected /\ m.tray["cd"].staged = NoDisc
  /\ m' = [m EXCEPT !.tray["cd"].staged = 2]
  /\ UNCHANGED <<file, origin, at>>

\* writeSnapshotFile may write less than the stream, and says so.  Bounds: one
\* file, of a machine that has run; it is cut where its logs hold something and
\* the guest is at its last generation.
Save(by, short) ==
  /\ at = "running" /\ file = <<>> /\ m.fetched # 0
  /\ short => m.f[<<"logs", "log">>] # <<>> /\ ~m.half /\ m.f[<<"cpu", "gpr">>] = MaxGen
  /\ \E s \in {SaveSnapshot(m, by)} :
       \E k \in (IF short THEN 0..(Len(s) - 1) ELSE {Len(s)}) :
         /\ file' = SubSeq(s, 1, k)
         /\ origin' = [m |-> m, by |-> by, whole |-> k = Len(s)]
  /\ UNCHANGED <<m, at>>

\* Bytes appended to a whole stream.
Extend ==
  /\ file # <<>> /\ at = "running"
  /\ origin.by = "this" /\ origin.whole
  /\ file' = Append(file, Count(0)) /\ origin' = [origin EXCEPT !.whole = FALSE]
  /\ UNCHANGED <<m, at>>

\* A refusal ends the run, and the machine with it.
Ended ==
  /\ m' = Fresh(Plain(NoDisc, NoDisc)) /\ at' = "dead"
  /\ file' = <<>> /\ origin' = <<>>

\* The watched address is the command line's, never the stream's, and so is the
\* compression of the timebase if it was given there.
Rearmed(y, fast) ==
  [y EXCEPT !.f[<<"bus", "watch">>] = 0, !.f[<<"harness", "fastTb">>] = IF fast THEN 0 ELSE @]

\* A run that starts from the file: another machine, built as b.  Bounds: the file is used
\* before the machine that wrote it goes on; a stream that is not whole, or a
\* compression of its own, meets a machine built as the saved one was; and
\* only a staged disc can be gone.
ResumeFresh(b, gone, fast) ==
  /\ at = "running" /\ file # <<>> /\ m = origin.m
  /\ ~origin.whole \/ fast => b = Like(origin.m)
  /\ gone => origin.m.tray["cd"].staged # NoDisc
  /\ \E z \in {LoadSnapshot(file, Fresh(b), gone)} :
       \/ z.ok /\ m' = Rearmed(z.m, fast) /\ at' = "resumed" /\ UNCHANGED <<file, origin>>
       \/ ~z.ok /\ Ended

\* The check that the run can be resumed: the stream is loaded back into the
\* machine it was taken from, which has run on.
VerifyBack ==
  /\ at = "running" /\ file # <<>> /\ origin.by = "this" /\ origin.whole
  /\ \E z \in {LoadSnapshot(file, m, FALSE)} :
       \/ z.ok /\ m' = z.m /\ at' = "verified" /\ UNCHANGED <<file, origin>>
       \/ ~z.ok /\ Ended

SnapshotNext ==
  \/ \E n \in {0, 2}, half \in BOOLEAN : Run(n, half)
  \/ Eject \/ Stage \/ Extend
  \/ \E by \in {"this", "old", "version", "layout", "alien"} : Save(by, FALSE)
  \/ Save("this", TRUE)
  \/ \E b \in Builds, gone, fast \in BOOLEAN : ResumeFresh(b, gone, fast)
  \/ VerifyBack

SnapshotSpec == SnapshotInit /\ [][SnapshotNext]_snapshotVars
-----------------------------------------------------------------------------
SnapshotTypeOK ==
  /\ at \in {"running", "resumed", "verified", "dead"}
  /\ \A f \in Fields : IF f \in Big THEN \A i \in DOMAIN m.f[f] : m.f[f][i] \in 0..MaxGen
                       ELSE m.f[f] \in 0..MaxGen
  /\ \A d \in {"cd", "drop"} : m.tray[d].staged \in {NoDisc} \cup Discs

Loaded == at \in {"resumed", "verified"}

\* What a run takes from its command line instead.
Own == IF at = "resumed" THEN {<<"bus", "watch">>, <<"harness", "fastTb">>} ELSE {}

\* A load that is accepted restores the machine that was saved, every field of
\* it, and leaves nothing of the machine it was loaded into: not a fetched line,
\* not a deadline, not a clock (loadCpu, SawtoothBus::snapLoad); and a fresh
\* machine is the saved one altogether if that one was saved with nothing staged.
RunsTheSavedMachine ==
  Loaded =>
    /\ \A f \in Fields \ Own : (origin.by = "old" => f[1] \notin {"drop", "dropDma"}) =>
         m.f[f] = origin.m.f[f]
    /\ m.fetched = 0 /\ m.gate = 0 /\ m.now = origin.m.f[<<"bus", "klTimerTb">>]
    /\ at = "resumed" /\ ~origin.m.half => ~m.half

\* Only a whole stream of this layout is accepted, wherever it was cut.
AcceptedIsWhole == Loaded => origin.whole /\ origin.by \in {"this", "old"}

\* After a load the guest cannot read a disc in the third drive that it has not
\* been told of; its own drive has an open tray if it had one when it was saved,
\* and in a fresh run only then; a drive that was there is there.
TraysAreHonest ==
  Loaded /\ origin.by = "this" =>
    /\ m.tray["drop"].disc # NoDisc => m.tray["drop"].ejected \/ m.tray["drop"].ua
    /\ origin.m.tray["cd"].ejected => m.tray["cd"].ejected
    /\ at = "resumed" /\ m.tray["cd"].ejected => origin.m.tray["cd"].ejected
    /\ Present(origin.m.tray["drop"]) => Present(m.tray["drop"])
    /\ \A d \in {"cd", "drop"} : m.tray[d].rest = origin.m.tray[d].rest
=============================================================================
