------------------------------- MODULE CdImage ------------------------------
(* CD images (machine/src/cdimage.cpp): how a plain, raw, cue or UDIF file  *)
(* is recognised and laid out, and which bytes of which host file a         *)
(* 2048-byte block of the disc is read from.  A host file is named by a     *)
(* number; its contents are the positions read.  A block is a sequence of   *)
(* pieces: one, or four 512-byte sectors of a UDIF device.                   *)
EXTENDS Integers, Sequences, SequencesExt, FiniteSetsExt

CONSTANTS
  Images,      \* image files the drive may be given first
  Others,      \* image files it may be given after that
  MaxOpens     \* bound: images opened one after the other

VARIABLES
  path,        \* the image file now in the drive
  cd,          \* CdImage: [ok, shape, plain, tracks, files, blocks, apm, runs]
  cached,      \* cachedRun_: the index of the inflated chunk, 0 for none
  cache,       \* cache_: the chunk inflated last, by its offset in the file
  opens

vars == <<path, cd, cached, cache, opens>>
-----------------------------------------------------------------------------
(* Pieces of a block.                                                       *)

Piece(kind, file, at, n) == [kind |-> kind, file |-> file, at |-> at, n |-> n]

Zero == Piece("zero", 0, 0, 0)

\* fread of n bytes at a position: short at the end of the file, or nothing
Fread(file, bytes, at, n) ==
  IF at >= bytes THEN Zero ELSE Piece("bytes", file, at, Min({n, bytes - at}))
-----------------------------------------------------------------------------
(* Opening.                                                                 *)

Track(number, audio, start, sb, off, byte, file, content) ==
  [number |-> number, audio |-> audio, startLba |-> start,
   sectorBytes |-> sb, dataOff |-> off, fileByte |-> byte, file |-> file,
   contentSectors |-> content]

Closed == [ok |-> FALSE, shape |-> "2048", plain |-> FALSE, tracks |-> <<>>,
           files |-> <<>>, blocks |-> 0, apm |-> 0, runs |-> <<>>]

OpenRaw(p) ==
  [Closed EXCEPT !.ok = TRUE, !.shape = "raw", !.files = <<p.bytes>>,
     !.blocks = p.bytes \div 2352,
     !.tracks = <<Track(1, FALSE, 0, 2352,
                        IF p.head = "sync2" THEN 24 ELSE 16, 0, 1,
                        p.bytes \div 2352)>>]

OpenPlain(p) ==
  [Closed EXCEPT !.ok = TRUE, !.plain = TRUE, !.files = <<p.bytes>>,
     !.blocks = p.bytes \div 2048,
     !.tracks = <<Track(1, FALSE, 0, 2048, 0, 0, 1, p.bytes \div 2048)>>]
-----------------------------------------------------------------------------
(* The cue sheet, collected before any layout is computed.                  *)

NoTime == 1000000          \* ~0: an INDEX not given

ModeOf == [AUDIO |-> [audio |-> TRUE, sb |-> 2352, off |-> 0],
           MODE1_2048 |-> [audio |-> FALSE, sb |-> 2048, off |-> 0],
           MODE1_2352 |-> [audio |-> FALSE, sb |-> 2352, off |-> 16],
           MODE2_2336 |-> [audio |-> FALSE, sb |-> 2336, off |-> 8],
           MODE2_2352 |-> [audio |-> FALSE, sb |-> 2352, off |-> 24]]

CueTrack(l, file) ==
  [number |-> l.n, mode |-> ModeOf[l.arg], file |-> file, pregap |-> 0,
   idxFirst |-> NoTime, idx01 |-> NoTime]

SetIndex(t, l) ==
  [t EXCEPT !.idxFirst = Min({@, l.time}),
            !.idx01 = IF l.n = 1 THEN l.time ELSE @]

CueLine(s, l) ==
  LET n == Len(s.ts)
  IN CASE s.bad -> s
       [] ~s.bad /\ l.kw = "FILE" ->
            IF l.arg = "BINARY" THEN [s EXCEPT !.files = @ + 1]
            ELSE [s EXCEPT !.bad = TRUE]
       [] ~s.bad /\ l.kw = "TRACK" ->
            IF s.files = 0 \/ l.arg \notin DOMAIN ModeOf
            THEN [s EXCEPT !.bad = TRUE]
            ELSE [s EXCEPT !.ts = Append(@, CueTrack(l, s.files))]
       [] ~s.bad /\ l.kw = "INDEX" ->
            IF n = 0 THEN [s EXCEPT !.bad = TRUE]
            ELSE [s EXCEPT !.ts[n] = SetIndex(@, l)]
       [] ~s.bad /\ l.kw = "PREGAP" ->
            IF n = 0 THEN [s EXCEPT !.bad = TRUE]
            ELSE [s EXCEPT !.ts[n].pregap = l.time]
       [] OTHER -> s                     \* REM, TITLE, POSTGAP and the rest

CueSheet(lines) ==
  FoldLeft(CueLine, [files |-> 0, ts |-> <<>>, bad |-> FALSE], lines)

RegionStart(t, first) == IF first THEN 0 ELSE Min({t.idxFirst, t.idx01})

\* with the sector size of the track that begins in place of the one that ends
RegionBytesOwn(acc, t, start) == (start - acc.sector) * t.mode.sb

\* bytes between two region starts belong to the track before
RegionBytes(acc, t, start) == (start - acc.sector) * acc.sb

\* one track of a file: acc carries the cursor over the file's regions
LayTrack(acc, t) ==
  LET first == acc.out = <<>>
      start == RegionStart(t, first)
      byte == acc.byte + IF first THEN 0 ELSE RegionBytes(acc, t, start)
      virt == acc.virt + t.pregap
      at == byte + (t.idx01 - start) * t.mode.sb
  IN [acc EXCEPT
        !.bad = @ \/ start < acc.sector \/ t.idx01 < start \/ at > acc.bytes,
        !.virt = virt, !.byte = byte, !.sector = start, !.sb = t.mode.sb,
        !.regions = Append(@, byte),
        !.out = Append(@, Track(t.number, t.mode.audio,
                                acc.base + virt + t.idx01, t.mode.sb,
                                t.mode.off, at, t.file, 0))]

\* INDEX 01 to the next region's start, or to the end of the file
ContentEnd(acc, m) ==
  IF m < Len(acc.out) THEN acc.regions[m + 1] ELSE acc.bytes

Measured(acc) ==
  [m \in DOMAIN acc.out |->
     LET t == acc.out[m]
     IN [t EXCEPT !.contentSectors =
           (ContentEnd(acc, m) - t.fileByte) \div t.sectorBytes]]

\* one file of the sheet, after the blocks of those before it
LayFile(c, sheet, bytes, f) ==
  LET mine == SelectSeq(sheet.ts, LAMBDA t : t.file = f)
      acc == FoldLeft(LayTrack,
                      [bad |-> FALSE, virt |-> 0, byte |-> 0, sector |-> 0,
                       sb |-> 0, regions |-> <<>>, out |-> <<>>,
                       base |-> c.blocks, bytes |-> bytes], mine)
      overlap == \E m \in DOMAIN acc.out :
                   ContentEnd(acc, m) < acc.out[m].fileByte
      out == Measured(acc)
  IN CASE ~c.ok \/ mine = <<>> -> c
       [] c.ok /\ mine # <<>> /\ (acc.bad \/ overlap) -> Closed
       [] OTHER -> [c EXCEPT !.tracks = @ \o out,
                             !.blocks = Last(out).startLba
                                          + Last(out).contentSectors]

OpenCue(p) ==
  LET sheet == CueSheet(p.lines)
      whole == /\ ~sheet.bad /\ sheet.ts # <<>>
               /\ \A k \in DOMAIN sheet.ts : sheet.ts[k].idx01 # NoTime
               /\ sheet.files <= Len(p.files)
      c0 == [Closed EXCEPT !.ok = TRUE, !.shape = "cue", !.files = p.files]
      c == FoldLeft(LAMBDA c, f : LayFile(c, sheet, p.files[f], f), c0,
                    [f \in 1..sheet.files |-> f])
  IN IF whole /\ c.tracks # <<>> THEN c ELSE Closed
-----------------------------------------------------------------------------
(* UDIF: the chunk runs of every blkx table, sorted by device sector.       *)

Run(table, c) == [type |-> c.type, sector |-> table.part + c.sector,
                  sectors |-> c.sectors, off |-> table.off + c.off,
                  good |-> c.good]

RunsOf(u) ==
  LET all == FoldLeft(LAMBDA s, t :
                        s \o [k \in DOMAIN t.chunks |-> Run(t, t.chunks[k])],
                      <<>>, u.tables)
  IN SortSeq(SelectSeq(all, LAMBDA r : r.type # "end" /\ r.sectors > 0),
             LAMBDA a, b : a.sector < b.sector)

OpenUdif(p) ==
  LET runs == RunsOf(p.udif)
      ends == {runs[k].sector + runs[k].sectors : k \in DOMAIN runs}
      n == Max(ends \cup {p.udif.sectors}) \div 4
      known == \A t \in ToSet(p.udif.tables) : \A c \in ToSet(t.chunks) :
                 c.type \in {"zero", "raw", "free", "zlib", "end"}
  IN IF known /\ runs # <<>> /\ p.udif.version = 4
     THEN [Closed EXCEPT !.ok = TRUE, !.shape = "udif", !.files = <<p.bytes>>,
             !.blocks = n, !.runs = runs,
             !.tracks = <<Track(1, FALSE, 0, 2048, 0, 0, 1, n)>>]
     ELSE Closed

\* content outranks the extension everywhere but .cue
OpenFile(p) ==
  CASE p.ext = "cue" -> OpenCue(p)
    [] p.ext # "cue" /\ p.head \in {"missing", "encrypted"} -> Closed
    [] p.ext # "cue" /\ p.head \notin {"missing", "encrypted"} /\ p.koly ->
         OpenUdif(p)
    [] p.ext = "dmg" /\ ~p.koly -> Closed     \* Disk Copy images
    [] OTHER -> IF p.bytes % 2352 = 0 /\ p.head \in {"sync1", "sync2"}
                THEN OpenRaw(p) ELSE OpenPlain(p)
-----------------------------------------------------------------------------
(* Reading.  A read carries [ok, block, cached, cache, bad].                *)

TrackAt(c, lba) ==
  LET S == {k \in DOMAIN c.tracks :
              \A j \in 1..k : c.tracks[j].startLba <= lba}
  IN c.tracks[IF S = {} THEN 1 ELSE Max(S)]

\* the last run that starts at or before a sector, 0 where no run covers it
RunAt(c, sector) ==
  LET S == {k \in DOMAIN c.runs : c.runs[k].sector <= sector}
      k == Max(S)
  IN IF S = {} THEN 0
     ELSE IF sector >= c.runs[k].sector + c.runs[k].sectors THEN 0 ELSE k

CacheHitAny(k, at) == at # 0

CacheHit(k, at) == at = k

Put(r, piece) == [r EXCEPT !.block = Append(@, piece)]

\* a chunk that fails ends the read: the rest of the block stays zero
UdifRead512(c, r, sector) ==
  LET k == RunAt(c, sector)
      run == c.runs[k]
      rel == sector - run.sector
  IN IF r.bad \/ k = 0 THEN Put(r, Zero)
     ELSE IF run.type \in {"zero", "free"} THEN Put(r, Zero)
     ELSE IF run.type = "raw"
          THEN Put(r, Fread(1, c.files[1], run.off + rel * 512, 512))
     ELSE IF CacheHit(k, r.cached)
          THEN Put(r, Piece("chunk", 1, r.cache, rel))
     ELSE IF run.good
          THEN [Put(r, Piece("chunk", 1, run.off, rel))
                  EXCEPT !.cached = k, !.cache = run.off]
     ELSE [Put(r, Zero) EXCEPT !.bad = TRUE]

\* the data of a track of a plain, raw or cue image
TrackBlock(c, t, lba) ==
  LET rel == lba - t.startLba
  IN IF lba < t.startLba \/ rel >= t.contentSectors THEN Zero
     ELSE Fread(t.file, c.files[t.file],
                t.fileByte + rel * t.sectorBytes + t.dataOff, 2048)

ShiftNot(c, lba) == lba

\* the virtual partition dress sits in front
Shift(c, lba) == lba - c.apm

ReadBlock(c, lba, at, chunk) ==
  LET r0 == [ok |-> TRUE, block |-> <<>>, cached |-> at, cache |-> chunk,
             bad |-> FALSE]
      l == Shift(c, lba)
      t == TrackAt(c, l)
  IN IF lba >= c.blocks THEN Put(r0, Zero)
     ELSE IF lba < c.apm THEN Put(r0, Piece("dress", 0, lba, 2048))
     ELSE IF t.audio THEN [r0 EXCEPT !.ok = FALSE]
     ELSE IF c.runs # <<>>
          THEN FoldLeft(LAMBDA r, k : UdifRead512(c, r, l * 4 + k), r0,
                        <<0, 1, 2, 3>>)
     ELSE Put(r0, TrackBlock(c, t, l))
-----------------------------------------------------------------------------
(* A bare HFS volume is given sixteen blocks of partition map in front.     *)

\* whether block 0, as read, shows the volume header at its byte 1024
HeaderShows(r) == r.block[IF Len(r.block) = 4 THEN 3 ELSE 1].kind # "zero"

Undressed(c) == /\ c.ok /\ c.blocks >= 2 /\ Len(c.tracks) = 1
                /\ c.shape \in {"2048", "udif"}

Wrap(c) == [c EXCEPT !.apm = 16, !.blocks = @ + 16,
                     !.tracks[1].contentSectors = c.blocks + 16]

\* [cd, cached, cache] once the first blocks have been looked at
MaybeWrapBareVolume(c, p) ==
  LET r0 == ReadBlock(c, 0, 0, 0)
      bare == p.vol \in {"bare", "hybrid"} /\ HeaderShows(r0)
      r16 == IF bare /\ c.blocks > 16
             THEN ReadBlock(c, 16, r0.cached, r0.cache) ELSE r0
  IN IF ~Undressed(c) THEN [cd |-> c, cached |-> 0, cache |-> 0]
     ELSE [cd |-> IF bare /\ p.vol = "bare" THEN Wrap(c) ELSE c,
           cached |-> r16.cached, cache |-> r16.cache]

\* close() drops the chunk with everything else
Open(p) ==
  /\ path' = p
  /\ \E o \in {MaybeWrapBareVolume(OpenFile(p), p)} :
       cd' = o.cd /\ cached' = o.cached /\ cache' = o.cache

Init ==
  /\ path \in Images /\ opens = 1
  /\ \E o \in {MaybeWrapBareVolume(OpenFile(path), path)} :
       cd = o.cd /\ cached = o.cached /\ cache = o.cache

OpenAnother ==
  /\ opens < MaxOpens /\ opens' = opens + 1
  /\ \E p \in Others : Open(p)

Read ==
  /\ cd.ok
  /\ \E lba \in 0..cd.blocks :
     \E r \in {ReadBlock(cd, lba, cached, cache)} :
       cached' = r.cached /\ cache' = r.cache
  /\ UNCHANGED <<path, cd, opens>>

Next == OpenAnother \/ Read

Spec == Init /\ [][Next]_vars
-----------------------------------------------------------------------------
TypeOK == /\ cached \in 0..Len(cd.runs) /\ (cached = 0) = (cache = 0)
          /\ cd.ok = (cd.tracks # <<>>) /\ cd.apm \in {0, 16}

ReadNow(lba) == ReadBlock(cd, lba, cached, cache)

\* a disc pressed from a cue sheet: the sectors of each file counted one by
\* one, each as long as the track it belongs to says
OwnerOf(mine, s) == Max({m \in DOMAIN mine : RegionStart(mine[m], m = 1) <= s})

ByteOf(mine, s) ==
  MapThenSumSet(LAMBDA u : mine[OwnerOf(mine, u)].mode.sb, 0..(s - 1))

GapsTo(mine, m) == MapThenSumSet(LAMBDA j : mine[j].pregap, 1..m)

PressFile(acc, mine, bytes, f) ==
  LET lba(m, s) == acc.end + GapsTo(mine, m) + s
      held == {s \in 0..(bytes \div 2048) :
                 /\ s >= mine[OwnerOf(mine, s)].idx01
                 /\ ByteOf(mine, s + 1) <= bytes}
      new == {[lba |-> lba(OwnerOf(mine, s), s),
               audio |-> mine[OwnerOf(mine, s)].mode.audio,
               piece |-> Piece("bytes", f, ByteOf(mine, s)
                                 + mine[OwnerOf(mine, s)].mode.off, 2048)] :
                s \in held}
      starts == {[lba |-> lba(m, mine[m].idx01), audio |-> mine[m].mode.audio] :
                   m \in DOMAIN mine}
  IN IF mine = <<>> THEN acc
     ELSE [sectors |-> acc.sectors \cup new, starts |-> acc.starts \cup starts,
           end |-> Max({x.lba + 1 : x \in new} \cup {x.lba : x \in starts})]

Pressed(p) ==
  LET ts == CueSheet(p.lines).ts
  IN FoldLeft(LAMBDA acc, f :
                PressFile(acc, SelectSeq(ts, LAMBDA t : t.file = f),
                          p.files[f], f),
              [sectors |-> {}, starts |-> {}, end |-> 0],
              [f \in DOMAIN p.files |-> f])

\* LBAs before the first track answer that track
AudioOn(d, lba) ==
  LET S == {x \in d.starts : x.lba <= lba}
      lo == Min({x.lba : x \in d.starts})
      at == IF S = {} THEN lo ELSE Max({x.lba : x \in S})
  IN lba < d.end /\ \E x \in d.starts : x.lba = at /\ x.audio

(* Every block of a disc opened from a cue sheet is the user data of the    *)
(* sector the sheet puts there, whatever mixture of sector sizes, stored    *)
(* and declared pregaps and files it has; pregaps read as zeros and audio   *)
(* is refused (openCue, readBlock).                                         *)
DiscAsPressed ==
  (cd.ok /\ path.ext = "cue") =>
    \E d \in {Pressed(path)} :
      /\ cd.blocks = d.end
      /\ \A lba \in 0..(d.end + 1) :
           /\ ReadNow(lba).ok = ~AudioOn(d, lba)
           /\ ~AudioOn(d, lba) =>
                ReadNow(lba).block[1] \in
                  {x.piece : x \in {y \in d.sectors : y.lba = lba /\ ~y.audio}}
                  \cup {z \in {Zero} : \A x \in d.sectors :
                                         x.lba = lba => x.audio}

\* what a device sector holds, looked up in the tables as they came
DeviceSector(p, s) ==
  LET runs == UNION {{Run(t, c) : c \in ToSet(t.chunks)} : t \in ToSet(p.udif.tables)}
      S == {r \in runs : r.sector <= s /\ s < r.sector + r.sectors}
  IN IF S = {} THEN Zero
     ELSE LET r == CHOOSE r \in S : TRUE
          IN CASE r.type = "raw" -> Fread(1, p.bytes, r.off + (s - r.sector) * 512, 512)
               [] r.type = "zlib" /\ r.good -> Piece("chunk", 1, r.off, s - r.sector)
               [] OTHER -> Zero

Corrupt(p, s) ==
  \E t \in ToSet(p.udif.tables) : \E c \in ToSet(t.chunks) :
    /\ c.type = "zlib" /\ ~c.good
    /\ Run(t, c).sector <= s /\ s < Run(t, c).sector + c.sectors

(* A sector of a UDIF device is that of its own chunk, inflated or raw,     *)
(* whatever was read before it and whichever image was open before, unless  *)
(* a sector ahead of it in its block lies in a chunk that does not inflate  *)
(* (udifRead512, cachedRun_).                                               *)
ChunkIsRight ==
  (cd.ok /\ cd.runs # <<>>) =>
    \A lba \in cd.apm..(cd.blocks - 1) : \A k \in 0..3 :
      LET s == (lba - cd.apm) * 4 + k
      IN (\A j \in (s - k)..s : ~Corrupt(path, j)) =>
            ReadNow(lba).block[k + 1] = DeviceSector(path, s)

(* A bare volume shows whole behind its partition map, and its identity in  *)
(* a snapshot stays that of the file (maybeWrapBareVolume, snapBytes).      *)
DressKeepsVolume ==
  cd.apm = 16 =>
    LET bare == OpenFile(path)
    IN /\ cd.blocks = bare.blocks + 16 /\ cd.plain = bare.plain
       /\ \A lba \in 0..(bare.blocks - 1) :
            ReadNow(lba + 16).block = ReadBlock(bare, lba, cached, cache).block
=============================================================================
