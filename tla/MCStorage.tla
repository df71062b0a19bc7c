------------------------------ MODULE MCStorage -----------------------------
(***************************************************************************)
(* Storage on small instances, explored one at a time while the others     *)
(* stand as they were built: a drive (Ata: a disk with sectors of two      *)
(* units, or a CD whose third block is audio), a host folder turned into   *)
(* an HFS volume (Hfs), a disc image (CdImage) and the decoder of its      *)
(* compressed chunks (Inflate).                                            *)
(***************************************************************************)
EXTENDS Ata, SequencesExt, TLC

CONSTANT Parts

VARIABLES
  part,
  tree, size, phase, stack, todo, folder, seen, items, left, nextCnid, geo,
  placed, nextBlock, img, cuts,
  path, cd, cached, cache, opens,
  litLens, distLens, text, bits, whole, at, out, status

share == <<tree, size, phase, stack, todo, folder, seen, items, left, nextCnid, geo,
           placed, nextBlock, img, cuts>>
image == <<path, cd, cached, cache, opens>>
chunk == <<litLens, distLens, text, bits, whole, at, out, status>>
all == <<part, vars, share, image, chunk>>
\* Of the CD, the third block is audio.
MCAudio == {2}
MCDataCmds == {"request_sense"}
-----------------------------------------------------------------------------
(* Folders of three entries and a folder within the folder, a file that     *)
(* does not fit, a dot file, a link and a MacBinary file.                    *)

\* Characters: two letters, one of them in both cases.
UpA == 65
LowA == 97
UpB == 66

\* two names equal but for their case, one longer, two that conversion makes one
NameSet == {<<UpA>>, <<LowA>>, <<LowA, UpB>>, <<58>>, <<23383>>}

\* A fork padded to whole 128-byte records, as MacBinary stores it.
Padded(n) == ((n + 127) \div 128) * 128

NoHeader == [ok |-> FALSE, dl |-> 0, rl |-> 0, name |-> <<>>]

File(in, name, bytes, ads) ==
  [in |-> in, kind |-> "file", name |-> name, size |-> bytes, ads |-> ads,
   hdr |-> NoHeader]

MacBin(in, name, inner, dl, rl, short) ==
  [in |-> in, kind |-> "file", name |-> name, ads |-> 0,
   size |-> 128 + Padded(dl) + rl - short,
   hdr |-> [ok |-> TRUE, dl |-> dl, rl |-> rl, name |-> inner]]

OtherEntry(in, kind, name) ==
  [in |-> in, kind |-> kind, name |-> name, size |-> 0, ads |-> 0,
   hdr |-> NoHeader]

\* a folder with two files beside it and two within
Nested ==
  {<<OtherEntry(0, "dir", <<UpB>>), File(0, m, 0, 200), File(0, n, 300, 0),
     File(1, <<LowA>>, 161, 1), File(1, <<LowA, UpB>>, 40, 0)>> :
     <<m, n>> \in {p \in NameSet \X NameSet : p[1] # p[2]}}

\* litter, a link, a file too big, a MacBinary file that may be cut short
Mixed ==
  {<<OtherEntry(0, "dir", <<46, UpB>>), File(1, <<UpB>>, 10, 0), OtherEntry(0, "other", <<UpB>>),
     File(0, <<UpB, UpB>>, b, 0), MacBin(0, n[1], n[2], 100, 60, cut)>> :
     n \in [1..2 -> NameSet], b \in {500, 3000}, cut \in {0, 60, 200}}

Folders == Nested \cup Mixed \cup {<<>>}

ShareName == <<UpB, UpA>>

F == INSTANCE Hfs WITH
       Trees <- Folders, VolName <- ShareName, MaxName <- 2, Sector <- 160,
       MaxBlocks <- 40, Slack <- 3500, MapNodes <- 64, MaxFork <- 2000,
       MaxImage <- 60000, MaxCuts <- 1, cur <- folder
-----------------------------------------------------------------------------
(* Cue sheets of two files and three tracks, UDIF images of a few chunks in *)
(* two tables, and plain and raw files.                                     *)

NoUdif == [version |-> 0, sectors |-> 0, tables |-> <<>>]

PathRec(ext, head, koly, bytes, vol, udif, lines, files) ==
  [ext |-> ext, head |-> head, koly |-> koly, bytes |-> bytes, vol |-> vol,
   udif |-> udif, lines |-> lines, files |-> files]

Flat == {PathRec(ext, head, FALSE, bytes, vol, NoUdif, <<>>, <<>>) :
           ext \in {"iso", "dmg"},
           head \in {"none", "sync1", "sync2", "encrypted", "missing"},
           bytes \in {0, 3 * 2048 + 100, 18 * 2048, 2 * 2352},
           vol \in {"bare", "hybrid", "other"}}

CueLine(kw, n, arg, time) == [kw |-> kw, n |-> n, arg |-> arg, time |-> time]

Maybe(b, s) == IF b THEN s ELSE <<>>

\* two tracks of one file with a stored or a declared pregap between them,
\* then a file of its own
Sheet(m1, m2, gap, i1, i0, i2, two) ==
  <<CueLine("FILE", 0, "BINARY", 0), CueLine("TRACK", 1, m1, 0)>>
  \o Maybe(gap > 0, <<CueLine("PREGAP", 0, "", gap)>>)
  \o <<CueLine("INDEX", 1, "", i1), CueLine("TRACK", 2, m2, 0)>>
  \o Maybe(i0 # i2, <<CueLine("INDEX", 0, "", i0)>>)
  \o <<CueLine("INDEX", 1, "", i2), CueLine("REM", 0, "", 0)>>
  \o Maybe(two, <<CueLine("FILE", 0, "BINARY", 0), CueLine("TRACK", 3, m1, 0),
                  CueLine("INDEX", 1, "", 1)>>)

Modes == {"AUDIO", "MODE1_2048", "MODE2_2336", "MODE2_2352"}

Cues == {PathRec("cue", "none", FALSE, 0, "other", NoUdif,
                 Sheet(m1, m2, gap, i1, i0, i2, two), <<bytes, 2 * 2352>>) :
           m1 \in Modes \cup {"CDG"}, m2 \in Modes, gap \in {0, 2},
           i1 \in {0, 1}, i0 \in {1, 3}, i2 \in {2, 3}, two \in BOOLEAN,
           bytes \in {5 * 2352, 3 * 2352 + 700}}
        \cup
        {PathRec("cue", "none", FALSE, 0, "other", NoUdif, ls, <<4 * 2352>>) :
           ls \in {<<>>, <<CueLine("INDEX", 1, "", 0)>>,
                   <<CueLine("TRACK", 1, "AUDIO", 0)>>,
                   <<CueLine("FILE", 0, "WAVE", 0)>>,
                   <<CueLine("FILE", 0, "BINARY", 0), CueLine("PREGAP", 0, "", 1)>>,
                   <<CueLine("FILE", 0, "BINARY", 0),
                     CueLine("TRACK", 1, "AUDIO", 0)>>}}

ChunkRec(type, sector, sectors, off, good) ==
  [type |-> type, sector |-> sector, sectors |-> sectors, off |-> off,
   good |-> good]

Table(n, off, chunks) == [part |-> n, off |-> off, chunks |-> chunks]

\* the second partition's table comes first; a hole, then a last chunk
Device(t1, t2, g1, g2, base) ==
  [version |-> 4, sectors |-> 14,
   tables |-> <<Table(6, base + 1000,
                      <<ChunkRec(t2, 1, 4, 500, g2), ChunkRec("end", 5, 0, 0, TRUE)>>),
                Table(0, base, <<ChunkRec("zlib", 3, 3, 10, g1),
                                 ChunkRec(t1, 0, 3, 100, TRUE)>>)>>]

Udifs == {PathRec("dmg", "none", TRUE, 4000, vol, Device(t1, t2, g1, g2, base),
                  <<>>, <<>>) :
            t1 \in {"raw", "zlib", "zero", "bzip2"}, t2 \in {"raw", "zlib", "free"},
            g1 \in BOOLEAN, g2 \in BOOLEAN, vol \in {"bare", "other"},
            base \in {50}}

FirstFile ==
  PathRec("iso", "none", FALSE, 0, "bare", NoUdif, <<>>, <<>>)

DiscFiles == Flat \cup Cues \cup Udifs

OtherFiles == {PathRec("dmg", "none", TRUE, 4000, "other",
                     Device("zlib", t2, TRUE, TRUE, 60), <<>>, <<>>) :
               t2 \in {"zlib", "raw"}}

K == INSTANCE CdImage WITH Images <- DiscFiles, Others <- OtherFiles, MaxOpens <- 2
-----------------------------------------------------------------------------
(* Two literals, the end, two length and two distance symbols, and every    *)
(* table of code lengths up to three bits for them.                         *)

LenBases == <<2, 3>>
LenExtras == <<0, 1>>
DistBases == [d \in 0..1 |-> d + 1]
DistExtras == [d \in 0..1 |-> d]

\* the symbols 0, 1, 2 (the end), 3 and 4 all have codes
LitTables == {lens \in [0..4 -> 1..3] : lens[0] <= lens[1]}
DistTables == {[d \in 0..1 |-> 1]}

Lit(s) == [lit |-> TRUE, sym |-> s, le |-> 0, dist |-> 0, de |-> 0]

Tokens == {Lit(0), Lit(1)}
          \cup [lit : {FALSE}, sym : {3}, le : {0}, dist : {0}, de : {0}]
          \cup [lit : {FALSE}, sym : {4}, le : {0, 1}, dist : {1}, de : {0, 1}]

\* a first token that is a copy would reach back before the text
TokenTexts == {<<t>> \o s : t \in {Lit(0), Lit(1)},
                            s \in UNION {[1..n -> Tokens] : n \in 0..2}}

Z == INSTANCE Inflate WITH
       MaxBits <- 3, Lits <- 2, LenBase <- LenBases, LenExtra <- LenExtras,
       DistBase <- DistBases, DistExtra <- DistExtras, LitLens <- LitTables,
       DistLens <- DistTables, Texts <- TokenTexts, Cap <- 7
-----------------------------------------------------------------------------
MCInit ==
  /\ part \in Parts
  /\ IF part = "drive" THEN TRUE ELSE disk = TRUE
  /\ Init
  /\ IF part = "folder" THEN TRUE ELSE tree = <<>> /\ img = "none"
  /\ F!Init
  /\ IF part = "image" THEN TRUE ELSE path = FirstFile
  /\ K!Init
  /\ IF part = "chunk" THEN TRUE
     ELSE litLens = [s \in 0..4 |-> 3] /\ text = <<Lit(0)>> /\ whole = TRUE
  /\ Z!Init

MCNext ==
  \/ part = "drive" /\ Next /\ UNCHANGED <<part, share, image, chunk>>
  \/ part = "folder" /\ F!Next /\ UNCHANGED <<part, vars, image, chunk>>
  \/ part = "image" /\ K!Next /\ UNCHANGED <<part, vars, share, chunk>>
  \/ part = "chunk" /\ Z!Next /\ UNCHANGED <<part, vars, share, image>>

\* Device service goes on by itself.
MCSpec ==
  /\ MCInit /\ [][MCNext]_all
  /\ WF_all(part = "drive" /\ Tick /\ UNCHANGED <<part, share, image, chunk>>)
-----------------------------------------------------------------------------
\* Taking data always comes to the end of a buffer ("nothing moved" is never
\* the answer of a drive that has data).
DrainEnds == part = "drive" => TakeEnds

\* Drives: a deferred command answers busy until it runs, the guest takes the
\* blocks it asked for in their order and each whole and to their end, what was
\* written has landed, a disc is announced before it is read, and the host's
\* last disc wins; but for what two code paths do, each recorded where it is taken.
TransfersAreWhole ==
  /\ part = "drive" => /\ TypeOK
                       /\ BusyUntilRun /\ OnlyLeftoversAnswer
                       /\ StreamInOrder /\ ReadsAreWhole
                       /\ WritesLand /\ AnnouncedBeforeRead
                       /\ LatestDiscWins
  /\ DrainEnds

\* An open tray with a disc waiting for it does not stay open, whether or not
\* the guest ever looks at it (AtaCell::tick).
SwapIsMade ==
  (part = "drive" /\ medium.staged # NoDisc /\ medium.out)
    ~> Present(medium) \/ medium.staged = NoDisc

\* "A newer image replaces the waiting one": once no disc is waiting, the one in
\* the drive is the one the host published last.
LastPublishedIsIn == part = "drive" => NewerReplacesWaiting

\* Shared folders: nothing written to the volume overlaps, its catalog finds
\* every item with the guest's own comparison, everything that can be shared is
\* there once, and a build that fails leaves no image behind.
VolumesAreWhole ==
  part = "folder" => /\ F!TypeOK
                     /\ F!RegionsApart /\ F!CatalogFinds /\ F!CatalogWhole
                     /\ F!NoHalfVolume

\* "Names must be unique per folder AFTER MacRoman folding": every item of the
\* volume is found, none is shadowed by another of the same folder.
NothingShadowed == part = "folder" => F!NothingShadowed

\* Disc images: every block is what the sheet, the partition map or the chunk
\* table puts there, whatever was read or open before it; and a chunk that
\* inflates is the text that was deflated, never a shorter one.
DiscsReadTrue ==
  /\ part = "image" => /\ K!TypeOK
                       /\ K!DiscAsPressed /\ K!ChunkIsRight
                       /\ K!DressKeepsVolume
  /\ part = "chunk" => Z!TypeOK /\ Z!InflatesToText
=============================================================================
