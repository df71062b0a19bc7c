-------------------------------- MODULE Hfs ---------------------------------
(* The HFS builder (machine/src/hfs.cpp): a host folder scanned, laid out   *)
(* in allocation blocks, given a catalog B*-tree packed bottom-up from the  *)
(* sorted records, and streamed to an image the CD drive serves.  The       *)
(* folder belongs to the host: a file may be cut short between the scan     *)
(* that measured it and the copy.  Names are sequences of code points, file *)
(* contents are their lengths; types, creators, dates and Finder flags are  *)
(* left out.                                                                *)
EXTENDS Integers, Sequences, SequencesExt, FiniteSetsExt

CONSTANTS
  Trees,       \* the host folders to choose from: sequences of entries
  VolName,
  MaxName,     \* the HFS name ceiling (31)
  Sector,      \* bytes of a sector and of a B*-tree node (512)
  MaxBlocks,   \* the allocation-block ceiling (65000)
  Slack,       \* bytes allowed for trees and bitmap (2 MiB)
  MapNodes,    \* nodes the header's map covers (2048)
  MaxFork,     \* HfsLimits::maxForkBytes
  MaxImage,    \* HfsLimits::maxImageBytes
  MaxCuts      \* bound: files the host may cut short

VARIABLES
  tree,        \* the folder: [in, kind, name, hdr, ads] for each entry
  size,        \* bytes each host file has now
  phase,       \* "scan", "place", "write", "done" or "refused"
  stack,       \* folders still to scan: [entry, cnid]
  todo,        \* entries of the current folder not yet visited
  cur,         \* cnid of the current folder
  seen,        \* Mac names of the current folder
  items,       \* what goes in the catalog, in scan order
  left,        \* files left out with a warning
  nextCnid,
  geo,         \* [ab, cat, ext]: block size, blocks of the two trees
  placed,      \* files placed (then: files streamed)
  nextBlock,
  img,         \* the image at outPath: "none", "old", "partial" or "whole"
  cuts

vars == <<tree, size, phase, stack, todo, cur, seen, items, left, nextCnid,
          geo, placed, nextBlock, img, cuts>>

scanVars == <<stack, todo, cur, seen, items, left, nextCnid>>
-----------------------------------------------------------------------------
(* Names.                                                                   *)

Colon == 58
Underscore == 95

\* ASCII is kept but for the path separator; the Latin table is one letter
MacRomanOf(cp) ==
  CASE cp = Colon -> Underscore
    [] cp # Colon /\ cp < 128 -> cp
    [] cp = 233 -> 142
    [] OTHER -> Underscore

Str31(n) == SubSeq(n, 1, Min({Len(n), MaxName}))

ToMacRoman(n) == Str31([k \in DOMAIN n |-> MacRomanOf(n[k])])

\* a MacBinary header's name is already in MacRoman
HeaderName(n) ==
  Str31([k \in DOMAIN n |-> IF n[k] = Colon THEN Underscore ELSE n[k]])

FoldByte(c) == IF c \in 97..122 THEN c - 32 ELSE c

NameLess(a, b) ==
  LET n == Min({Len(a), Len(b)})
      D == {k \in 1..n : FoldByte(a[k]) # FoldByte(b[k])}
  IN IF D = {} THEN Len(a) < Len(b)
     ELSE FoldByte(a[Min(D)]) < FoldByte(b[Min(D)])

KeyLess(r, s) == \/ r.parent < s.parent
                 \/ r.parent = s.parent /\ NameLess(r.name, s.name)

SkipName(n) == n # <<>> /\ n[1] = 46
-----------------------------------------------------------------------------
(* What a host file becomes.                                                *)

Pad128(n) == ((n + 127) \div 128) * 128

\* a valid MacBinary II header whose forks fit the file, but for a padding
TryMacBinary(i) ==
  LET h == tree[i].hdr
  IN h.ok /\ size[i] >= 128 /\ 128 + Pad128(h.dl) + h.rl <= size[i] + 127

Forks(i) ==
  LET h == tree[i].hdr
  IN IF TryMacBinary(i)
     THEN [doff |-> 128, dlen |-> h.dl, roff |-> 128 + Pad128(h.dl),
           rlen |-> h.rl, mb |-> TRUE]
     ELSE [doff |-> 0, dlen |-> size[i], roff |-> 0, rlen |-> tree[i].ads,
           mb |-> FALSE]

MacName(i) ==
  LET n == IF tree[i].kind = "file" /\ TryMacBinary(i)
           THEN HeaderName(tree[i].hdr.name) ELSE ToMacRoman(tree[i].name)
  IN IF n = <<>> THEN <<Underscore>> ELSE n

TooBig(i) == Forks(i).dlen > MaxFork \/ Forks(i).rlen > MaxFork

NoForks == [doff |-> 0, dlen |-> 0, roff |-> 0, rlen |-> 0, mb |-> FALSE]

NewItem(i) ==
  [src |-> i, cnid |-> nextCnid, parent |-> cur, mac |-> MacName(i),
   dir |-> tree[i].kind = "dir",
   forks |-> IF tree[i].kind = "dir" THEN NoForks ELSE Forks(i),
   ds |-> 0, rs |-> 0]

Files == SelectSeq(items, LAMBDA it : ~it.dir)
-----------------------------------------------------------------------------
(* Volume geometry.                                                         *)

Sum(s, F(_)) == FoldLeft(LAMBDA a, x : a + F(x), 0, s)

TotalBytes == Sum(Files, LAMBDA f : f.forks.dlen + f.forks.rlen)

AbSize ==
  LET want == TotalBytes + (TotalBytes \div 8) + Slack
  IN Sector * 2^Min({k \in 0..10 : (Sector * 2^k) * MaxBlocks >= want})

BlocksFor(bytes, ab) == (bytes + ab - 1) \div ab

ValenceFiles(cnid) ==
  Len(SelectSeq(items, LAMBDA it : it.parent = cnid /\ ~it.dir))

Valence(cnid) == Len(SelectSeq(items, LAMBDA it : it.parent = cnid))

\* catalog records: a folder's own record and its thread, then the files
Rec(parent, name, kind, id, n) ==
  [parent |-> parent, name |-> name, kind |-> kind, id |-> id, n |-> n]

FolderRecs(parent, name, cnid) ==
  <<Rec(parent, name, "dir", cnid, Valence(cnid)),
    Rec(cnid, <<>>, "thread", parent, 0)>>

CatalogRecs ==
  FoldLeft(LAMBDA s, it : s \o IF it.dir
                               THEN FolderRecs(it.parent, it.mac, it.cnid)
                               ELSE <<>>,
           FolderRecs(1, ToMacRoman(VolName), 2), items)
  \o [k \in DOMAIN Files |->
        Rec(Files[k].parent, Files[k].mac, "file", Files[k].cnid, 0)]

PayloadBytes == [dir |-> 70, thread |-> 46, file |-> 102]

\* the reservation made for the catalog before its tree is built
CatNodesUB ==
  LET ub == Sum(CatalogRecs,
                LAMBDA r : 8 + Len(r.name) + PayloadBytes[r.kind] + 4)
  IN ((ub + Sector - 33) \div (Sector - 32)) * 2 + 8
-----------------------------------------------------------------------------
(* The catalog tree, packed bottom-up.                                      *)

\* keyLen, reserved, parent, name length and name, padded to an even size
KeyBytes(name) == ((7 + Len(name) + 1) \div 2) * 2

RecBytes(r) == IF r.kind = "index" THEN 38 + 4
               ELSE KeyBytes(r.name) + PayloadBytes[r.kind]

PackLevel(recs) ==
  LET Full(a, r) ==
        /\ a.cur # <<>>
        /\ 14 + a.used + RecBytes(r) + 2 * (Len(a.cur) + 2) > Sector
      Put(a, r) ==
        IF Full(a, r)
        THEN [nodes |-> Append(a.nodes, a.cur), cur |-> <<r>>,
              used |-> RecBytes(r)]
        ELSE [a EXCEPT !.cur = Append(@, r), !.used = @ + RecBytes(r)]
      z == FoldLeft(Put, [nodes |-> <<>>, cur |-> <<>>, used |-> 0], recs)
  IN Append(z.nodes, z.cur)

IndexRecsLast(level, first) ==
  [k \in DOMAIN level |->
     LET r == level[k][Len(level[k])]
     IN Rec(r.parent, r.name, "index", first + k - 1, 0)]

\* the parents of a level whose first node has number `first'
IndexRecs(level, first) ==
  [k \in DOMAIN level |->
     Rec(level[k][1].parent, level[k][1].name, "index", first + k - 1, 0)]

RECURSIVE AddLevels(_, _)
AddLevels(nodes, level) ==
  IF Len(level) = 1 THEN nodes
  ELSE LET up == PackLevel(IndexRecs(level, Len(nodes) - Len(level) + 1))
       IN AddLevels(nodes \o up, up)

\* node 0 is the header: node k of the tree is element k; the root is last
BuildCatalogTree ==
  LET leaves == PackLevel(SortSeq(CatalogRecs, KeyLess))
  IN AddLevels(leaves, leaves)

\* the guest's search (external): the last key not above the one it wants
RECURSIVE Descend(_, _, _)
Descend(t, node, key) ==
  LET recs == t[node]
      S == {k \in DOMAIN recs : ~KeyLess(key, recs[k])}
  IN CASE S = {} -> 0
       [] S # {} /\ recs[1].kind = "index" ->
            Descend(t, recs[Max(S)].id, key)
       [] S # {} /\ recs[1].kind # "index" ->
            LET r == recs[Max(S)]
            IN IF KeyLess(r, key) THEN 0 ELSE r.id

Found(t, it) ==
  Descend(t, Len(t), Rec(it.parent, it.mac, "key", 0, 0)) = it.cnid
-----------------------------------------------------------------------------
Init ==
  /\ tree \in Trees
  /\ size = [i \in DOMAIN tree |-> tree[i].size]
  /\ phase = "scan" /\ stack = <<[entry |-> 0, cnid |-> 2]>>
  /\ todo = {} /\ cur = 2 /\ seen = {} /\ items = <<>> /\ left = {}
  /\ nextCnid = 16 /\ geo = [ab |-> Sector, cat |-> 0, ext |-> 0]
  /\ placed = 0 /\ nextBlock = 0 /\ img \in {"none", "old"} /\ cuts = 0

(* Another program of the host cuts a file short while the build runs.      *)
HostCuts ==
  /\ cuts < MaxCuts /\ phase \in {"scan", "place", "write"}
  /\ \E i \in DOMAIN tree :
       /\ tree[i].kind = "file" /\ size[i] > 0
       /\ size' = [size EXCEPT ![i] = 0]
  /\ cuts' = cuts + 1
  /\ UNCHANGED <<tree, phase, scanVars, geo, placed, nextBlock, img>>

NextFolder ==
  /\ phase = "scan" /\ todo = {} /\ stack # <<>>
  /\ cur' = Last(stack).cnid
  /\ todo' = {i \in DOMAIN tree : tree[i].in = Last(stack).entry}
  /\ stack' = Front(stack) /\ seen' = {}
  /\ UNCHANGED <<tree, size, phase, items, left, nextCnid, geo, placed,
                 nextBlock, img, cuts>>

Visit(i) ==
  /\ phase = "scan" /\ i \in todo /\ todo' = todo \ {i}
  /\ UNCHANGED <<tree, size, cur, geo, placed, nextBlock, img, cuts>>

\* dot files and host litter; devices, sockets and links to nothing
SkipEntry(i) ==
  /\ SkipName(tree[i].name) \/ tree[i].kind = "other"
  /\ Visit(i) /\ UNCHANGED <<phase, stack, seen, items, left, nextCnid>>

\* a fork HFS cannot describe is left out, with a warning
LeaveOut(i) ==
  /\ ~SkipName(tree[i].name) /\ tree[i].kind = "file" /\ TooBig(i)
  /\ Visit(i) /\ left' = left \cup {i} /\ nextCnid' = nextCnid + 1
  /\ UNCHANGED <<phase, stack, seen, items>>

Clashes(i) == MacName(i) \in seen

AddItem(i) ==
  /\ ~SkipName(tree[i].name)
  /\ tree[i].kind = "dir" \/ (tree[i].kind = "file" /\ ~TooBig(i))
  /\ Visit(i) /\ nextCnid' = nextCnid + 1
  /\ stack' = IF tree[i].kind = "dir"
              THEN Append(stack, [entry |-> i, cnid |-> nextCnid]) ELSE stack
  /\ IF Clashes(i)
     THEN phase' = "refused" /\ UNCHANGED <<seen, items>>
     ELSE /\ items' = Append(items, NewItem(i))
          /\ seen' = seen \cup {MacName(i)}
          /\ UNCHANGED phase
  /\ UNCHANGED left

\* the block size, the two tree files, then the forks in item order
Layout ==
  /\ phase = "scan" /\ todo = {} /\ stack = <<>>
  /\ IF items = <<>>
     THEN phase' = "refused" /\ UNCHANGED <<geo, nextBlock>>
     ELSE \E ab \in {AbSize} :
          \E g \in {[ab |-> ab, cat |-> BlocksFor(CatNodesUB * Sector, ab),
                     ext |-> BlocksFor(Sector, ab)]} :
            /\ phase' = "place" /\ geo' = g
            /\ nextBlock' = g.cat + g.ext
  /\ UNCHANGED <<tree, size, scanVars, placed, img, cuts>>

FileIdx == SelectSeq([k \in DOMAIN items |-> k], LAMBDA k : ~items[k].dir)

PlaceForksShared(it, at) == [it EXCEPT !.ds = at, !.rs = at]

PlaceForks(it, at) ==
  [it EXCEPT !.ds = at, !.rs = at + BlocksFor(it.forks.dlen, geo.ab)]

ForkEnd(it) == it.rs + BlocksFor(it.forks.rlen, geo.ab)

PlaceFile ==
  /\ phase = "place" /\ placed < Len(FileIdx)
  /\ \E k \in {FileIdx[placed + 1]} :
     \E it \in {PlaceForks(items[k], nextBlock)} :
       /\ items' = [items EXCEPT ![k] = it]
       /\ nextBlock' = ForkEnd(it)
       /\ phase' = IF ForkEnd(it) > MaxBlocks THEN "refused" ELSE phase
  /\ placed' = placed + 1
  /\ UNCHANGED <<tree, size, stack, todo, cur, seen, left, nextCnid, geo, img,
                 cuts>>
-----------------------------------------------------------------------------
(* The image: a driver map and a partition map, then the volume at sector   *)
(* 64: its directory block, bitmap, allocation blocks and the copy of the   *)
(* directory block.                                                         *)

PartBase == 64
TotalBlocks == nextBlock + 64
BmSectors == (TotalBlocks + 8 * Sector - 1) \div (8 * Sector)
AlBlSt == 3 + BmSectors
VolSectors == AlBlSt + TotalBlocks * (geo.ab \div Sector) + 2
ImageSectors == ((PartBase + VolSectors + 3) \div 4) * 4
CatFileNodes == (geo.cat * geo.ab) \div Sector

BlockByte(b) == (PartBase + AlBlSt) * Sector + b * geo.ab

Region(of, lo, n) == [of |-> of, lo |-> lo, hi |-> lo + n]

ForkRegions ==
  UNION {{Region(<<"data", k>>, BlockByte(Files[k].ds), Files[k].forks.dlen),
          Region(<<"rsrc", k>>, BlockByte(Files[k].rs), Files[k].forks.rlen)} :
           k \in DOMAIN Files}

\* every range of bytes the builder writes
Regions(t) ==
  {Region(<<"ddm">>, 0, Sector), Region(<<"map">>, Sector, 3 * Sector),
   Region(<<"mdb">>, (PartBase + 2) * Sector, Sector),
   Region(<<"bitmap">>, (PartBase + 3) * Sector, BmSectors * Sector),
   Region(<<"alternate">>, (PartBase + VolSectors - 2) * Sector, Sector),
   Region(<<"catalog">>, BlockByte(0), (Len(t) + 1) * Sector),
   Region(<<"extents">>, BlockByte(geo.cat), Sector)}
  \cup ForkRegions

Refused(t) == \/ CatFileNodes > MapNodes
              \/ Len(t) + 1 > CatFileNodes
              \/ ImageSectors * Sector > MaxImage

\* the image is truncated, grown to its size and given everything but forks
WriteMaps ==
  /\ phase = "place" /\ placed = Len(FileIdx)
  /\ \E ok \in BOOLEAN :                    \* whether outPath can be written
       \E refused \in {Refused(BuildCatalogTree) \/ ~ok} :
         /\ phase' = IF refused THEN "refused" ELSE "write"
         /\ img' = IF refused THEN img ELSE "partial"
  /\ placed' = 0
  /\ UNCHANGED <<tree, size, scanVars, geo, nextBlock, cuts>>

\* a fork of length len is read from its stream at off, whole or not at all
Readable(it) ==
  /\ it.forks.dlen > 0 => it.forks.doff + it.forks.dlen <= size[it.src]
  /\ it.forks.rlen > 0 /\ it.forks.mb =>
       it.forks.roff + it.forks.rlen <= size[it.src]

ImgAfterFailureKept == "partial"

ImgAfterFailure == "none"

StreamFile ==
  /\ phase = "write" /\ placed < Len(FileIdx)
  /\ IF Readable(items[FileIdx[placed + 1]])
     THEN placed' = placed + 1 /\ UNCHANGED <<phase, img>>
     ELSE /\ phase' = "refused" /\ img' = ImgAfterFailure
          /\ UNCHANGED placed
  /\ UNCHANGED <<tree, size, scanVars, geo, nextBlock, cuts>>

Finish ==
  /\ phase = "write" /\ placed = Len(FileIdx)
  /\ \/ phase' = "done" /\ img' = "whole"
     \/ phase' = "refused" /\ img' = ImgAfterFailure     \* a failed write
  /\ UNCHANGED <<tree, size, scanVars, geo, placed, nextBlock, cuts>>

Next == \/ HostCuts \/ NextFolder \/ Layout \/ PlaceFile \/ WriteMaps
        \/ StreamFile \/ Finish
        \/ \E i \in todo : SkipEntry(i) \/ LeaveOut(i) \/ AddItem(i)

Spec == Init /\ [][Next]_vars
-----------------------------------------------------------------------------
TypeOK ==
  /\ phase \in {"scan", "place", "write", "done", "refused"}
  /\ todo \subseteq DOMAIN tree /\ left \subseteq DOMAIN tree
  /\ placed \in 0..Len(FileIdx)
  /\ phase = "write" => nextBlock <= MaxBlocks
  /\ img \in {"none", "old", "partial", "whole"}

(* No two things written to the image share a byte and all of them lie      *)
(* inside it: trees, bitmap, both directory blocks and every fork           *)
(* (hfsBuildImage, Emit).                                                   *)
RegionsApart ==
  phase = "write" =>
    \E R \in {Regions(BuildCatalogTree)} :
    \A r \in R :
      /\ r.hi <= ImageSectors * Sector
      /\ \A s \in R : s = r \/ r.hi <= s.lo \/ s.hi <= r.lo

Twin(it) ==
  \E k \in DOMAIN items :
    /\ items[k].cnid # it.cnid /\ items[k].parent = it.parent
    /\ ~NameLess(items[k].mac, it.mac) /\ ~NameLess(it.mac, items[k].mac)

(* A guest that searches the catalog with its own comparison comes to every *)
(* item by its folder and name, whatever the order of the scan, the depth   *)
(* of the tree and the packing of its nodes, unless two names of a folder   *)
(* are equal to it (buildCatalogTree, packLevel).                           *)
CatalogFinds ==
  phase = "write" =>
    \E t \in {BuildCatalogTree} :
      \A k \in DOMAIN items : Twin(items[k]) \/ Found(t, items[k])

(* Names clash after Mac conversion, or each is found: what the scan's      *)
(* check for a clash is there for (hfsBuildImage, seen).                    *)
NothingShadowed ==
  phase = "write" =>
    \E t \in {BuildCatalogTree} : \A k \in DOMAIN items : Found(t, items[k])

\* entries that can be reached from the folder and are not skipped
RECURSIVE Shareable(_)
Shareable(i) ==
  /\ ~SkipName(tree[i].name) /\ tree[i].kind # "other"
  /\ tree[i].in = 0 \/ (tree[tree[i].in].kind = "dir"
                          /\ Shareable(tree[i].in))

(* The volume holds everything that can be shared, once, with its own       *)
(* catalog number, and every folder counts what is in it (scan, valence).   *)
CatalogWhole ==
  phase = "write" =>
    /\ {items[k].src : k \in DOMAIN items} =
         {i \in DOMAIN tree : Shareable(i)} \ left
    /\ \A j, k \in DOMAIN items :
         j # k => items[j].src # items[k].src /\ items[j].cnid # items[k].cnid
    /\ \A d \in {[src |-> 0, cnid |-> 2, dir |-> TRUE]} \cup ToSet(items) :
         d.dir => Valence(d.cnid) =
                    Cardinality({i \in DOMAIN tree : tree[i].in = d.src
                                                      /\ Shareable(i)} \ left)

(* A build that fails leaves no image of its own behind, and one that       *)
(* succeeds leaves every fork at its full length, even when the host cuts a *)
(* file short between its scan and its copy (failOut).                      *)
NoHalfVolume ==
  /\ phase = "refused" => img \in {"none", "old"}
  /\ phase = "done" => img = "whole"
=============================================================================
