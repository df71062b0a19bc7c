-------------------------------- MODULE Mmu ---------------------------------
(***************************************************************************)
(* Address translation (core/src/mmu.cpp): the BATs, the segment register, *)
(* the two TLBs with their hashed-page-table walk and its R and C updates, *)
(* and, before them, the one-page translation caches of the fetch path and *)
(* of each data direction (Cpu::xlPage, Cpu::dxlPage).                     *)
(*                                                                         *)
(* The grain is the page: an effective address is a page of one segment,   *)
(* a physical address a tagged page number, WIMG one of a few kinds.  A    *)
(* generation that no longer equals mmuGen is a cache that holds nothing.  *)
(*                                                                         *)
(* images, rewritten and dirty are what an operating system may rely on,   *)
(* kept beside the machine: the page table entries that may be in a TLB,   *)
(* the pages whose entry software wrote without a tlbie since, and the     *)
(* pages stored to since software last wrote their entry.                  *)
(***************************************************************************)
EXTENDS Integers, FiniteSets, FiniteSetsExt

CONSTANTS
  Pages,          \* effective pages
  Inhibited,      \* those at or above realModeInhibitBase
  TlbSetOf,       \* the TLB set of a page (EA[14-19])
  Hash,           \* the primary group of <<vsid, page>>
  Slots,          \* entries of a PTE group (8)
  Bats,           \* BAT pairs of a side, 1..Bats (4)
  BatValues, SegValues, PteValues, MsrValues, DabrValues,
  NoBat, NoPte, DabrOff, ResetSeg,
  BootMsr, BootTable,  \* a machine its firmware has brought up
  Programs,       \* the kinds of access a program makes, for each program
  MaxChanges      \* bound on the changes software makes

VARIABLES
  msr,            \* [ir, dr, pr, le]
  sr,             \* the segment register
  bat,            \* [i, d]: the IBATs and the DBATs
  dabr,           \* the data breakpoint
  pt,             \* the hashed page table: group -> slot -> entry
  tlb, lru,       \* [i, d]: set -> way -> entry, set -> least recent way
  front,          \* the one-page caches: i (fetch), r (load), w (store)
  images, rewritten, dirty,
  program,        \* the kinds of access this program makes
  changes         \* changes software has made

regs == <<msr, sr, bat, dabr>>
walked == <<pt, tlb, lru>>
relied == <<images, rewritten, dirty>>
mmuVars == <<program, regs, walked, front, relied, changes>>

Msrs == [ir: BOOLEAN, dr: BOOLEAN, pr: BOOLEAN, le: BOOLEAN]
Groups == {0, 1}
Wimgs == {"plain", "guarded"}
TlbSets == {TlbSetOf[p] : p \in Pages}
Sides == {"i", "d"}

NoEntry == [v |-> FALSE, c |-> FALSE, vsid |-> 0, page |-> 0,
            rpn |-> 0, wimg |-> "plain", pp |-> 0]

EmptyTlb == [x \in Sides |-> [t \in TlbSets |-> [w \in {0, 1} |-> NoEntry]]]
ZeroLru == [x \in Sides |-> [t \in TlbSets |-> 0]]

NoFront == [on |-> FALSE, pr |-> FALSE, le |-> FALSE, sr |-> ResetSeg,
            page |-> 0, pa |-> <<"none", 0>>, wimg |-> "plain", v |-> FALSE]
NoFronts == [d \in {"i", "r", "w"} |-> NoFront]

NoBats == [x \in Sides |-> [b \in 1..Bats |-> NoBat]]

Image(e) == [vsid |-> e.vsid, page |-> e.page, rpn |-> e.rpn,
             wimg |-> e.wimg, pp |-> e.pp]

Entries(table) == {e \in {table[g][s] : g \in Groups, s \in 1..Slots} : e.v}

Ptes == [v: BOOLEAN, vsid: Nat, page: Pages \cup {0}, h: BOOLEAN, rpn: Nat,
         pp: 0..3, r: BOOLEAN, c: BOOLEAN, wimg: Wimgs]

\* What the constants have to be.  A block address is told from a page's, and
\* a valid entry is one of an effective page.
MmuConstants ==
  /\ Pages \subseteq Nat /\ {Slots, Bats, MaxChanges} \subseteq Nat
  /\ BootMsr \in Msrs /\ MsrValues \subseteq Msrs
  /\ NoBat \in BatValues /\ \A b \in BatValues : b.brpn # "page"
  /\ ResetSeg \in SegValues /\ DabrOff \in DabrValues
  /\ \A s \in SegValues : s.vsid \in Nat /\ \A p \in Pages : Hash[<<s.vsid, p>>] \in Groups
  /\ PteValues \subseteq Ptes /\ \A e \in PteValues : e.v => e.page \in Pages
  /\ BootTable \in [Groups -> [1..Slots -> PteValues]]

MmuInit ==
  /\ msr = BootMsr
  /\ sr = ResetSeg /\ bat = NoBats /\ dabr = DabrOff
  /\ pt = BootTable
  /\ tlb = EmptyTlb /\ lru = ZeroLru /\ front = NoFronts
  /\ images = {Image(e) : e \in Entries(pt)} /\ rewritten = {} /\ dirty = {}
  /\ changes = 0 /\ program \in Programs
-----------------------------------------------------------------------------
(* Cpu::translate.  s is [pt, tlb, lru]; the answer carries the s it leaves.*)

MmuNow == [pt |-> pt, tlb |-> tlb, lru |-> lru]

Granted(s, pa, wimg) ==
  [s |-> s, ok |-> TRUE, why |-> "none", pa |-> pa, wimg |-> wimg]

Refused(s, why) ==
  [s |-> s, ok |-> FALSE, why |-> why, pa |-> <<"none", 0>>, wimg |-> "plain"]

BatHits(side, p) ==
  {b \in 1..Bats : /\ IF msr.pr THEN bat[side][b].vp ELSE bat[side][b].vs
                   /\ p \in bat[side][b].block}

BatAllows(b, write) == b.pp # 0 /\ ~(write /\ b.pp \in {1, 3})

BatAnswer(s, b, p, write, fetch) ==
  IF fetch /\ b.wimg = "guarded" THEN Refused(s, "guarded")
  ELSE IF ~BatAllows(b, write) THEN Refused(s, "protection")
  ELSE Granted(s, <<b.brpn, p>>, b.wimg)

Key == IF msr.pr THEN sr.kp ELSE sr.ks

PpAllows(pp, write) ==
  IF ~Key THEN pp # 3 \/ ~write
          ELSE pp = 2 \/ (pp \in {1, 3} /\ ~write)

\* Mutant: the walk of a store finds C in the entry and leaves it clear.
PteAfterNoC(e, write) == [e EXCEPT !.r = TRUE]

\* Mutant: R is left to the first store.
PteAfterNoR(e, write) ==
  [e EXCEPT !.r = @ \/ write, !.c = @ \/ (write /\ PpAllows(e.pp, write))]

\* R as soon as an entry matches, C for a permitted store.
PteAfter(e, write) ==
  [e EXCEPT !.r = TRUE, !.c = @ \/ (write /\ PpAllows(e.pp, write))]

\* The slots a table search visits, in order: the primary group's, then the
\* secondary's; an entry says which of the two hashes put it there.
GroupAt(k, p) ==
  IF k <= Slots THEN Hash[<<sr.vsid, p>>] ELSE 1 - Hash[<<sr.vsid, p>>]
SlotAt(k) == IF k <= Slots THEN k ELSE k - Slots

Matches(s, k, p) ==
  LET e == s.pt[GroupAt(k, p)][SlotAt(k)]
  IN  e.v /\ e.vsid = sr.vsid /\ e.h = (k > Slots) /\ e.page = p

\* An entry that matches: marked in the table, and loaded into the least
\* recent way of its TLB set if it allows the access.
Reload(s, e, new, side, t, way, p) ==
  [s EXCEPT !.tlb[side][t][way] =
              [v |-> TRUE, c |-> new.c, vsid |-> sr.vsid, page |-> p,
               rpn |-> e.rpn, wimg |-> e.wimg, pp |-> e.pp],
            !.lru[side][t] = 1 - way]

EntryAnswer(s, marked, e, side, t, p, write, fetch) ==
  IF fetch /\ e.wimg = "guarded" THEN Refused(s, "guarded")
  ELSE IF ~PpAllows(e.pp, write) THEN Refused(marked, "protection")
  ELSE Granted(Reload(marked, e, PteAfter(e, write), side, t, s.lru[side][t], p),
               <<"page", e.rpn>>, e.wimg)

EntryAt(s, g, slot, p, write, fetch) ==
  EntryAnswer(s, [s EXCEPT !.pt[g][slot] = PteAfter(@, write)], s.pt[g][slot],
              IF fetch THEN "i" ELSE "d", TlbSetOf[p], p, write, fetch)

SearchFrom(s, found, p, write, fetch) ==
  IF found = {} THEN Refused(s, "miss")
  ELSE EntryAt(s, GroupAt(Min(found), p), SlotAt(Min(found)), p, write, fetch)

TableSearch(s, p, write, fetch) ==
  SearchFrom(s, {k \in 1..2 * Slots : Matches(s, k, p)}, p, write, fetch)

\* Mutant: the entry a store finds unchanged stays while the walk reloads.
TlbAnswerKeep(s, side, t, way, p, write, fetch) ==
  LET e == s.tlb[side][t][way]
  IN  IF fetch /\ e.wimg = "guarded" THEN Refused(s, "guarded")
      ELSE IF ~PpAllows(e.pp, write) THEN Refused(s, "protection")
      ELSE IF write /\ ~e.c THEN TableSearch(s, p, write, fetch)
      ELSE Granted([s EXCEPT !.lru[side][t] = 1 - way],
                   <<"page", e.rpn>>, e.wimg)

\* Mutant: the way used last is the next one replaced.
TlbAnswerNext(s, side, t, way, p, write, fetch) ==
  Granted([s EXCEPT !.lru[side][t] = way + 1],
          <<"page", s.tlb[side][t][way].rpn>>, s.tlb[side][t][way].wimg)

\* A TLB hit answers from its copy of the entry, stale or not; the first
\* store through a clean copy gives the copy up and searches the table.
TlbAnswer(s, side, t, way, p, write, fetch) ==
  LET e == s.tlb[side][t][way]
  IN  IF fetch /\ e.wimg = "guarded" THEN Refused(s, "guarded")
      ELSE IF ~PpAllows(e.pp, write) THEN Refused(s, "protection")
      ELSE IF write /\ ~e.c
           THEN TableSearch([s EXCEPT !.tlb[side][t][way].v = FALSE],
                            p, write, fetch)
      ELSE Granted([s EXCEPT !.lru[side][t] = 1 - way],
                   <<"page", e.rpn>>, e.wimg)

PageAnswer(s, p, write, fetch, side, t) ==
  LET hits == {w \in {0, 1} : /\ s.tlb[side][t][w].v
                              /\ s.tlb[side][t][w].vsid = sr.vsid
                              /\ s.tlb[side][t][w].page = p}
  IN  IF hits = {} THEN TableSearch(s, p, write, fetch)
      ELSE TlbAnswer(s, side, t, Min(hits), p, write, fetch)

TranslateBy(s, hits, side, p, write, fetch) ==
  IF hits # {} THEN BatAnswer(s, bat[side][Min(hits)], p, write, fetch)
  ELSE IF sr.t THEN Refused(s, "direct_store")
  ELSE IF fetch /\ sr.n THEN Refused(s, "no_execute")
  ELSE PageAnswer(s, p, write, fetch, side, TlbSetOf[p])

Translate(s, p, write, fetch) ==
  LET side == IF fetch THEN "i" ELSE "d"
  IN  IF ~(IF fetch THEN msr.ir ELSE msr.dr)
      THEN Granted(s, <<"real", p>>,
                   IF p \in Inhibited THEN "real_inhibited" ELSE "real")
      ELSE TranslateBy(s, BatHits(side, p), side, p, write, fetch)
-----------------------------------------------------------------------------
(* The one-page caches: xlateData and the fetch path's. *)

Side(d) == IF d = "i" THEN msr.ir ELSE msr.dr

\* What a cached translation is compared with on every access.
FrontKey(d, p) ==
  [on |-> Side(d), pr |-> msr.pr, le |-> msr.le, sr |-> sr, page |-> p]

\* Mutant: the segment register is not part of the key.
FrontHitsNoSr(d, p) ==
  /\ front[d].v
  /\ \A k \in {"on", "pr", "le", "page"} : front[d][k] = FrontKey(d, p)[k]

FrontHits(d, p) ==
  /\ front[d].v
  /\ \A k \in {"on", "pr", "le", "page", "sr"} : front[d][k] = FrontKey(d, p)[k]

Filled(d, p, a) ==
  [v |-> TRUE, on |-> Side(d), pr |-> msr.pr, le |-> msr.le, sr |-> sr,
   page |-> p, pa |-> a.pa, wimg |-> a.wimg]

\* Mutant: a load's walk fills the store direction as well.
FrontAfterBoth(d, p, a) ==
  [e \in DOMAIN front |->
     IF a.ok /\ (e = d \/ (d = "r" /\ e = "w")) THEN Filled(d, p, a)
     ELSE front[e]]

\* Each direction fills from its own successful translation.
FrontAfter(d, p, a) ==
  IF a.ok THEN [front EXCEPT ![d] = Filled(d, p, a)] ELSE front

MmuBecome(s) == pt' = s.pt /\ tlb' = s.tlb /\ lru' = s.lru

\* A store that went through the page table leaves its page dirty.
Stored(p, a) ==
  IF a.ok /\ a.pa[1] = "page" THEN {<<sr.vsid, p>>} ELSE {}

\* What an access through the caches is told.
Answer(d, p) ==
  IF FrontHits(d, p) THEN Granted(MmuNow, front[d].pa, front[d].wimg)
                     ELSE Translate(MmuNow, p, d = "w", d = "i")

Handler == [ir |-> FALSE, dr |-> FALSE, pr |-> FALSE, le |-> FALSE]

\* A refused access is an exception, and its handler starts in real mode.
Deliver(ok) == msr' = IF ok THEN msr ELSE Handler

Fronted(d, p) ==
  \E a \in {Answer(d, p)} :
    /\ MmuBecome(a.s)
    /\ front' = IF FrontHits(d, p) THEN front ELSE FrontAfter(d, p, a)
    /\ dirty' = dirty \cup (IF d = "w" THEN Stored(p, a) ELSE {})
    /\ Deliver(a.ok)
    /\ UNCHANGED <<sr, bat, dabr, images, rewritten, changes>>

\* fetchDecoded.
FetchDecoded(p) == Fronted("i", p)

\* dabrHit, a page standing for the doublewords in it.
DabrHit(p, write) ==
  /\ IF write THEN dabr.dw ELSE dabr.dr
  /\ dabr.bt = msr.dr /\ p \in dabr.at

\* A misaligned little-endian access (leAlignCheck), or one the breakpoint
\* catches: an exception before any translation.
Trapped(p, write) ==
  /\ msr.le \/ DabrHit(p, write)
  /\ Deliver(FALSE)
  /\ UNCHANGED <<sr, bat, dabr, walked, front, relied, changes>>

\* readV and writeV within a page.
Data(p, write) ==
  /\ ~DabrHit(p, write)
  /\ Fronted(IF write THEN "w" ELSE "r", p)

\* Accesses that translate without the caches, one part after the other: a
\* page crossing byte by byte, a little-endian doubleword, a cache
\* instruction.  Parts done before a fault stay done.
Parts(p, q, write) ==
  \E a \in {Translate(MmuNow, p, write, FALSE)} :
    \E b \in {IF a.ok THEN Translate(a.s, q, write, FALSE) ELSE a} :
      /\ MmuBecome(b.s)
      /\ dirty' = dirty \cup
           (IF write /\ a.ok THEN Stored(p, a) \cup Stored(q, b) ELSE {})
      /\ Deliver(b.ok)
      /\ UNCHANGED <<sr, bat, dabr, front, images, rewritten, changes>>

Crossing(p, q, write) ==
  /\ ~msr.le /\ ~DabrHit(p, write) /\ q = p + 1
  /\ Parts(p, q, write)

LittleDouble(p, write) == msr.le /\ ~DabrHit(p, write) /\ Parts(p, p, write)

\* dcbz, dcbf, dcbst and dcbi: one translation, no breakpoint.
CacheOp(p, write) == Parts(p, p, write)
-----------------------------------------------------------------------------
(* What software changes. *)

Changed == changes < MaxChanges /\ changes' = changes + 1

\* Mutant: writing a BAT does not retire the caches.
MtBatKeep(side, b, x) ==
  /\ bat' = [bat EXCEPT ![side][b] = x]
  /\ Changed
  /\ UNCHANGED <<msr, sr, dabr, walked, front, relied>>

\* h_mtspr for a BAT: mmuGen moves.
MtBat(side, b, x) ==
  /\ bat' = [bat EXCEPT ![side][b] = x]
  /\ front' = NoFronts /\ Changed
  /\ UNCHANGED <<msr, sr, dabr, walked, relied>>

\* mtmsr, rfi, an exception: compared on use, so nothing is retired.
MtMsr(x) ==
  /\ msr' = x
  /\ UNCHANGED <<changes, sr, bat, dabr, walked, front, relied>>

MtSr(x) ==
  /\ sr' = x /\ Changed
  /\ UNCHANGED <<msr, bat, dabr, walked, front, relied>>

MtDabr(x) ==
  /\ dabr' = x /\ Changed
  /\ UNCHANGED <<msr, sr, bat, walked, front, relied>>

\* Software stores a page table entry.
WritePte(g, s, x) ==
  LET old == {e \in {pt[g][s], x} : e.v}
      named == {<<e.vsid, e.page>> : e \in old}
  IN  /\ pt' = [pt EXCEPT ![g][s] = x]
      /\ images' = images \cup {Image(e) : e \in old}
      /\ rewritten' = rewritten \cup named
      /\ dirty' = dirty \ named
      /\ Changed
      /\ UNCHANGED <<regs, tlb, lru, front>>

\* After a tlbie the class holds nothing but what the table now says.
Forget(t) ==
  /\ images' = {im \in images : TlbSetOf[im.page] # t}
                 \cup {Image(e) : e \in Entries(pt)}
  /\ rewritten' = {vp \in rewritten : TlbSetOf[vp[2]] # t}
  /\ dirty' = dirty \ {vp \in rewritten : TlbSetOf[vp[2]] = t}

\* Mutant: one side of the class is left valid.
TlbInvalidateClassD(t) ==
  tlb' = [tlb EXCEPT !["d"][t] = [w \in {0, 1} |-> [@[w] EXCEPT !.v = FALSE]]]

\* tlbInvalidateClass: both ways, both sides.
TlbInvalidateClass(t) ==
  tlb' = [x \in Sides |-> [tlb[x] EXCEPT
            ![t] = [w \in {0, 1} |-> [@[w] EXCEPT !.v = FALSE]]]]

Tlbie(p) ==
  /\ TlbInvalidateClass(TlbSetOf[p])
  /\ front' = NoFronts
  /\ Forget(TlbSetOf[p])
  /\ Changed
  /\ UNCHANGED <<regs, pt, lru>>

\* tlbFlushAll and Cpu::reset.
Reset ==
  /\ msr' = [ir |-> FALSE, dr |-> FALSE, pr |-> FALSE, le |-> FALSE]
  /\ sr' = ResetSeg /\ bat' = NoBats /\ dabr' = DabrOff
  /\ tlb' = EmptyTlb /\ lru' = ZeroLru /\ front' = NoFronts
  /\ images' = {Image(e) : e \in Entries(pt)} /\ rewritten' = {}
  /\ dirty' = dirty \ rewritten
  /\ Changed
  /\ UNCHANGED pt

\* An access by the program, or a change by the system around it.
Access ==
  \/ \E p \in Pages : "fetch" \in program /\ FetchDecoded(p)
  \/ \E p \in Pages, write \in BOOLEAN :
       /\ (IF write THEN "store" ELSE "load") \in program
       /\ \/ Data(p, write)
          \/ Trapped(p, write)
          \/ LittleDouble(p, write)
          \/ CacheOp(p, write)
          \/ \E q \in Pages : Crossing(p, q, write)

Change ==
  \/ \E side \in Sides, b \in 1..Bats, x \in BatValues : MtBat(side, b, x)
  \/ \E x \in MsrValues : MtMsr(x)
  \/ \E x \in SegValues : MtSr(x)
  \/ \E x \in DabrValues : MtDabr(x)
  \/ \E g \in Groups, s \in 1..Slots, x \in PteValues : WritePte(g, s, x)
  \/ \E p \in Pages : Tlbie(p)
  \/ Reset

MmuNext == (Access \/ Change) /\ UNCHANGED program

MmuSpec == MmuInit /\ [][MmuNext]_mmuVars
-----------------------------------------------------------------------------
Entry == [v: BOOLEAN, c: BOOLEAN, vsid: Nat, page: Pages \cup {0}, rpn: Nat,
          wimg: Wimgs, pp: 0..3]

\* Every cell of the translation state holds a value of its kind.
MmuTypeOK ==
  /\ msr \in Msrs
  /\ bat \in [Sides -> [1..Bats -> BatValues]]
  /\ sr \in SegValues /\ dabr \in DabrValues
  /\ \A x \in Sides, t \in TlbSets, w \in {0, 1} : tlb[x][t][w] \in Entry
  /\ lru \in [Sides -> [TlbSets -> {0, 1}]]
  /\ changes \in 0..MaxChanges
  /\ images \subseteq {Image(e) : e \in PteValues}

\* The two ways of a TLB set never hold the same page twice: translate takes
\* the first that matches, so a second copy would be one a walk had refreshed
\* and the lookup never used.
OneCopyPerSet ==
  \A x \in Sides, t \in TlbSets :
    LET a == tlb[x][t][0]
        b == tlb[x][t][1]
    IN  a.v /\ b.v => <<a.vsid, a.page>> # <<b.vsid, b.page>>

\* What the registers, and an entry the table has held since the class was
\* last invalidated, let the access get.
MayAnswer(d, p, pa, wimg) ==
  LET side == IF d = "i" THEN "i" ELSE "d"
      hits == BatHits(side, p)
  IN  IF ~Side(d)
      THEN pa = <<"real", p>> /\ (wimg = "real_inhibited") = (p \in Inhibited)
      ELSE IF hits # {}
      THEN LET b == bat[side][Min(hits)]
           IN  /\ pa = <<b.brpn, p>> /\ wimg = b.wimg
               /\ BatAllows(b, d = "w") /\ ~(d = "i" /\ b.wimg = "guarded")
      ELSE /\ ~sr.t /\ ~(d = "i" /\ sr.n)
           /\ \E im \in images :
                /\ im.vsid = sr.vsid /\ im.page = p
                /\ pa = <<"page", im.rpn>> /\ wimg = im.wimg
                /\ PpAllows(im.pp, d = "w") /\ ~(d = "i" /\ wimg = "guarded")

\* Three layers of remembered translations (the one-page caches, the TLBs,
\* the table) never give an access an address or attributes that neither the
\* registers of this moment nor an entry software has not yet invalidated
\* allow: a cached answer is as good as a walk (xlateData, fetchDecoded).
AnswersAreCurrent ==
  \A d \in DOMAIN front, p \in Pages :
    \A a \in {Answer(d, p)} : a.ok => MayAnswer(d, p, a.pa, a.wimg)

\* A page that has been stored to is marked changed in the table, unless
\* software has written the entry since without a tlbie.  No layer lets a
\* store through on what a load fetched; the pager would lose the page.
StoredPagesAreChanged ==
  \A vp \in dirty \ rewritten :
    \E e \in Entries(pt) : <<e.vsid, e.page>> = vp /\ e.c

\* A TLB copy marked changed, or held at all, was written back as such.
CopiesAreMarked ==
  \A x \in Sides, t \in TlbSets, w \in {0, 1} :
    LET e == tlb[x][t][w]
    IN  e.v /\ <<e.vsid, e.page>> \notin rewritten =>
          \E f \in Entries(pt) :
            Image(f) = Image(e) /\ f.r /\ (e.c => f.c)

\* A TLB set never holds a page twice, and whatever a TLB copy says was
\* referenced or changed the table says too: translate, with its
\* invalidate-and-reload of a clean copy, keeps both.
TlbIsSound == MmuTypeOK /\ OneCopyPerSet /\ CopiesAreMarked
=============================================================================
