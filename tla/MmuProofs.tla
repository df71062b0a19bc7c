----------------------------- MODULE MmuProofs ------------------------------
(***************************************************************************)
(* Proofs about address translation (Mmu), for every set of pages, every   *)
(* page table, every value software may put in the registers and every     *)
(* order of accesses and changes.                                          *)
(*                                                                         *)
(* The argument has two levels.  A walk (Translate) is a function of the   *)
(* table, the TLBs and their LRU bits: WalkOk is what it finds and leaves, *)
(* Grows says that all it does to the table is to set R and C, and Good is *)
(* what its answer is worth.  Around it stand the one-page caches, which   *)
(* hold an answer that was good for the registers it was made under.       *)
(***************************************************************************)
EXTENDS Mmu, NaturalsInduction, WellFoundedInduction, TLAPS

Dirs == {"i", "r", "w"}

Walked == [pt: [Groups -> [1..Slots -> Ptes]],
           tlb: [Sides -> [TlbSets -> [{0, 1} -> Entry]]],
           lru: [Sides -> [TlbSets -> {0, 1}]]]

\* The table holds, changed, an entry of the virtual page vp.
ChangedIn(table, vp) ==
  \E g \in Groups, k \in 1..Slots :
    table[g][k].v /\ table[g][k].c /\ vp = <<table[g][k].vsid, table[g][k].page>>

\* Table entry f is what TLB copy e was loaded from, marked at least as e is.
Backs(f, e) == f.v /\ Image(f) = Image(e) /\ f.r /\ (e.c => f.c)

TableOk(table) ==
  \A g \in Groups, k \in 1..Slots :
    table[g][k].v => table[g][k].page \in Pages /\ Image(table[g][k]) \in images

CopyOk(table, t, e) ==
  e.v => /\ e.page \in Pages /\ TlbSetOf[e.page] = t /\ Image(e) \in images
         /\ <<e.vsid, e.page>> \notin rewritten =>
              \E g \in Groups, k \in 1..Slots : Backs(table[g][k], e)

CopiesOk(s) ==
  \A x \in Sides, t \in TlbSets, w \in {0, 1} : CopyOk(s.pt, t, s.tlb[x][t][w])

Differ(a, b) == a.v /\ b.v => ~(a.vsid = b.vsid /\ a.page = b.page)

Single(s) == \A x \in Sides, t \in TlbSets : Differ(s.tlb[x][t][0], s.tlb[x][t][1])

WalkOk(s) == s \in Walked /\ TableOk(s.pt) /\ CopiesOk(s) /\ Single(s)

\* All that happens to an entry is that it is marked.
Marked(e, f) ==
  Image(f) = Image(e) /\ f.v = e.v /\ (e.r => f.r) /\ (e.c => f.c)

Grows(a, b) == \A g \in Groups, k \in 1..Slots : Marked(a[g][k], b[g][k])

\* MayAnswer for the registers a cached answer was made under.
HitsUnder(pr, side, p) ==
  {b \in 1..Bats : /\ IF pr THEN bat[side][b].vp ELSE bat[side][b].vs
                   /\ p \in bat[side][b].block}

PpUnder(pr, seg, pp, write) ==
  IF ~(IF pr THEN seg.kp ELSE seg.ks) THEN pp # 3 \/ ~write
  ELSE pp = 2 \/ (pp \in {1, 3} /\ ~write)

May(side, write, on, pr, seg, p, pa, wimg) ==
  IF ~on THEN pa = <<"real", p>> /\ (wimg = "real_inhibited") = (p \in Inhibited)
  ELSE IF HitsUnder(pr, side, p) # {}
  THEN LET b == bat[side][Min(HitsUnder(pr, side, p))]
       IN  /\ pa = <<b.brpn, p>> /\ wimg = b.wimg
           /\ BatAllows(b, write) /\ ~(side = "i" /\ b.wimg = "guarded")
  ELSE /\ ~seg.t /\ ~(side = "i" /\ seg.n)
       /\ \E im \in images :
            /\ im.vsid = seg.vsid /\ im.page = p
            /\ pa = <<"page", im.rpn>> /\ wimg = im.wimg
            /\ PpUnder(pr, seg, im.pp, write) /\ ~(side = "i" /\ wimg = "guarded")

SideOf(fetch) == IF fetch THEN "i" ELSE "d"

\* A page that a store may go to through answer pa is marked changed, or its
\* entry is one software has rewritten.
Accounted(table, vp, pa) == pa[1] = "page" => vp \in rewritten \/ ChangedIn(table, vp)

\* What an answer a to an access is worth, given after state s.
Good(a, s, p, write, fetch) ==
  /\ WalkOk(a.s) /\ Grows(s.pt, a.s.pt) /\ a.ok \in BOOLEAN
  /\ a.ok => May(SideOf(fetch), write, IF fetch THEN msr.ir ELSE msr.dr,
                 msr.pr, sr, p, a.pa, a.wimg)
  /\ a.ok /\ write => Accounted(a.s.pt, <<sr.vsid, p>>, a.pa)

RegsOk ==
  /\ msr \in Msrs /\ bat \in [Sides -> [1..Bats -> BatValues]]
  /\ sr \in SegValues /\ dabr \in DabrValues /\ changes \in 0..MaxChanges

FrontOk(d) ==
  LET f == front[d]
  IN  f.v => May(SideOf(d = "i"), d = "w", f.on, f.pr, f.sr, f.page, f.pa, f.wimg)

FrontsOk ==
  /\ front = [d \in Dirs |-> front[d]] /\ \A d \in Dirs : FrontOk(d)
  /\ front["w"].v =>
       Accounted(pt, <<front["w"].sr.vsid, front["w"].page>>, front["w"].pa)

StoresOk == \A vp \in dirty \ rewritten : ChangedIn(pt, vp)

MmuInv ==
  /\ RegsOk /\ images \subseteq {Image(e) : e \in PteValues}
  /\ WalkOk(MmuNow) /\ FrontsOk /\ StoresOk
-----------------------------------------------------------------------------
\* A set of naturals that is not empty has a least element.
LEMMA LeastOf ==
  ASSUME NEW T \in SUBSET Nat, T # {}
  PROVE  Min(T) \in T /\ \A y \in T : Min(T) <= y
<1>1. PICK x \in T : \A y \in T : ~(<<y, x>> \in OpToRel(<, Nat))
  BY WFMin, NatLessThanWellFounded, Zenon
<1>2. ASSUME NEW y \in T PROVE x <= y
  <2>1. ~(<<y, x>> \in {ss \in Nat \X Nat : ss[1] < ss[2]})
    BY <1>1 DEF OpToRel
  <2> QED BY <2>1
<1>3. \E z \in T : \A y \in T : z <= y BY <1>2
<1> QED BY <1>3 DEF Min

\* Marking is transitive and does not lose a copy's entry or a changed page.
LEMMA MarkedTrans ==
  ASSUME NEW a, NEW b, NEW c, Grows(a, b), Grows(b, c)
  PROVE  Grows(a, c)
  BY DEF Grows, Marked

\* The fields of an entry the table has held.
LEMMA ImageFields ==
  ASSUME NEW e, NEW f, Image(e) = Image(f)
  PROVE  e.vsid = f.vsid /\ e.page = f.page /\ e.rpn = f.rpn
         /\ e.wimg = f.wimg /\ e.pp = f.pp
<1>1. /\ Image(e).vsid = e.vsid /\ Image(f).vsid = f.vsid
      /\ Image(e).page = e.page /\ Image(f).page = f.page
      /\ Image(e).rpn = e.rpn /\ Image(f).rpn = f.rpn
      /\ Image(e).wimg = e.wimg /\ Image(f).wimg = f.wimg
      /\ Image(e).pp = e.pp /\ Image(f).pp = f.pp
  BY DEF Image
<1> QED BY <1>1

\* A page marked changed stays so as entries are only marked.
LEMMA GrowsKeepsChanged ==
  ASSUME NEW a, NEW b, Grows(a, b), NEW vp, ChangedIn(a, vp)
  PROVE  ChangedIn(b, vp)
<1>1. PICK g \in Groups, k \in 1..Slots :
        a[g][k].v /\ a[g][k].c /\ vp = <<a[g][k].vsid, a[g][k].page>>
  BY DEF ChangedIn
<1>2. Marked(a[g][k], b[g][k]) BY DEF Grows
<1>3. b[g][k].v /\ b[g][k].c BY <1>1, <1>2 DEF Marked
<1>4. b[g][k].vsid = a[g][k].vsid /\ b[g][k].page = a[g][k].page
  BY <1>2, ImageFields DEF Marked
<1> QED BY <1>1, <1>3, <1>4 DEF ChangedIn

\* A copy that the table backs stays backed as entries are only marked.
LEMMA GrowsKeepsCopy ==
  ASSUME NEW a, NEW b, Grows(a, b), NEW t, NEW e, CopyOk(a, t, e)
  PROVE  CopyOk(b, t, e)
  BY DEF Grows, Marked, CopyOk, Backs

\* The table keeps its shape as its entries are only marked.
LEMMA GrowsKeepsTable ==
  ASSUME NEW a, NEW b, Grows(a, b), TableOk(a)
  PROVE  TableOk(b)
<1> SUFFICES ASSUME NEW g \in Groups, NEW k \in 1..Slots, b[g][k].v
             PROVE  b[g][k].page \in Pages /\ Image(b[g][k]) \in images
  BY DEF TableOk
<1>1. Marked(a[g][k], b[g][k]) BY DEF Grows
<1>2. a[g][k].page \in Pages /\ Image(a[g][k]) \in images
  BY <1>1 DEF Marked, TableOk
<1> QED BY <1>1, <1>2, ImageFields DEF Marked

\* A table left alone has only been marked.
LEMMA GrowsSelf == ASSUME NEW a PROVE Grows(a, a)
  BY DEF Grows, Marked
-----------------------------------------------------------------------------
(* The walk. *)

\* Nothing but the table, which is marked, and a refusal.
LEMMA RefusedGood ==
  ASSUME NEW s, NEW z, WalkOk(z), Grows(s.pt, z.pt), NEW why, NEW p, NEW write, NEW fetch
  PROVE  Good(Refused(z, why), s, p, write, fetch)
  BY DEF Good, Refused

\* An access the answering image allows is granted well.
LEMMA GrantedGood ==
  ASSUME NEW s, NEW z, WalkOk(z), Grows(s.pt, z.pt), NEW pa, NEW wimg,
         NEW p, NEW write, NEW fetch,
         May(SideOf(fetch), write, IF fetch THEN msr.ir ELSE msr.dr,
             msr.pr, sr, p, pa, wimg),
         write => Accounted(z.pt, <<sr.vsid, p>>, pa)
  PROVE  Good(Granted(z, pa, wimg), s, p, write, fetch)
<1>1. /\ Granted(z, pa, wimg).s = z /\ Granted(z, pa, wimg).ok = TRUE
      /\ Granted(z, pa, wimg).pa = pa /\ Granted(z, pa, wimg).wimg = wimg
  BY DEF Granted
<1> QED BY <1>1 DEF Good

\* The least BAT that hits answers.
LEMMA BatGood ==
  ASSUME MmuConstants, RegsOk, NEW s, WalkOk(s), NEW p \in Pages,
         NEW write \in BOOLEAN, NEW fetch \in BOOLEAN,
         IF fetch THEN msr.ir ELSE msr.dr, BatHits(SideOf(fetch), p) # {}
  PROVE  Good(BatAnswer(s, bat[SideOf(fetch)][Min(BatHits(SideOf(fetch), p))],
                        p, write, fetch), s, p, write, fetch)
<1> DEFINE hits == BatHits(SideOf(fetch), p)
           b == bat[SideOf(fetch)][Min(hits)]
<1>1. hits = HitsUnder(msr.pr, SideOf(fetch), p) BY DEF BatHits, HitsUnder
<1>2. hits \in SUBSET Nat BY DEF BatHits, MmuConstants
<1>3. Min(hits) \in 1..Bats
  <2>1. Min(hits) \in hits BY <1>2, LeastOf
  <2> QED BY <2>1 DEF BatHits
<1>4. SideOf(fetch) \in Sides BY DEF SideOf, Sides
<1>5. b \in BatValues BY <1>3, <1>4 DEF RegsOk
<1>6. b.brpn # "page" BY <1>5 DEF MmuConstants
<1>7. Grows(s.pt, s.pt) BY GrowsSelf
<1>8. CASE fetch /\ b.wimg = "guarded"
  BY <1>7, <1>8, RefusedGood DEF BatAnswer
<1>9. CASE ~(fetch /\ b.wimg = "guarded") /\ ~BatAllows(b, write)
  BY <1>7, <1>9, RefusedGood DEF BatAnswer
<1>10. CASE ~(fetch /\ b.wimg = "guarded") /\ BatAllows(b, write)
  <2>1. BatAnswer(s, b, p, write, fetch) = Granted(s, <<b.brpn, p>>, b.wimg)
    BY <1>10 DEF BatAnswer
  <2>2. SideOf(fetch) = "i" <=> fetch BY DEF SideOf
  <2>3. May(SideOf(fetch), write, IF fetch THEN msr.ir ELSE msr.dr,
            msr.pr, sr, p, <<b.brpn, p>>, b.wimg)
    BY <1>1, <1>10, <2>2 DEF May
  <2>4. Accounted(s.pt, <<sr.vsid, p>>, <<b.brpn, p>>)
    BY <1>6 DEF Accounted
  <2>5. Good(Granted(s, <<b.brpn, p>>, b.wimg), s, p, write, fetch)
    BY <1>7, <2>3, <2>4, GrantedGood
  <2> QED BY <2>1, <2>5
<1> QED BY <1>8, <1>9, <1>10

\* The access is one the page table decides.
Paged(p, fetch) ==
  /\ IF fetch THEN msr.ir ELSE msr.dr
  /\ BatHits(SideOf(fetch), p) = {} /\ ~sr.t /\ ~(fetch /\ sr.n)

\* An image the table has held grants what it permits.
LEMMA ImageMay ==
  ASSUME NEW p, NEW write \in BOOLEAN, NEW fetch \in BOOLEAN, Paged(p, fetch),
         NEW im \in images, im.vsid = sr.vsid, im.page = p,
         PpAllows(im.pp, write), ~(fetch /\ im.wimg = "guarded")
  PROVE  May(SideOf(fetch), write, IF fetch THEN msr.ir ELSE msr.dr,
             msr.pr, sr, p, <<"page", im.rpn>>, im.wimg)
<1>1. HitsUnder(msr.pr, SideOf(fetch), p) = {}
  BY DEF Paged, BatHits, HitsUnder
<1>2. SideOf(fetch) = "i" <=> fetch BY DEF SideOf
<1>3. PpUnder(msr.pr, sr, im.pp, write) BY DEF PpUnder, PpAllows, Key
<1> QED BY <1>1, <1>2, <1>3 DEF May, Paged

\* What a sound walked state says of each of its parts.
LEMMA WalkedParts ==
  ASSUME NEW s \in Walked
  PROVE  /\ s.pt \in [Groups -> [1..Slots -> Ptes]]
         /\ s.tlb \in [Sides -> [TlbSets -> [{0, 1} -> Entry]]]
         /\ s.lru \in [Sides -> [TlbSets -> {0, 1}]]
         /\ \E a, b, c : s = [pt |-> a, tlb |-> b, lru |-> c]
<1> DEFINE P == [Groups -> [1..Slots -> Ptes]]
           T == [Sides -> [TlbSets -> [{0, 1} -> Entry]]]
           L == [Sides -> [TlbSets -> {0, 1}]]
<1> HIDE DEF P, T, L
<1>1. s \in [pt: P, tlb: T, lru: L] BY DEF Walked, P, T, L
<1>2. s.pt \in P /\ s.tlb \in T /\ s.lru \in L
      /\ s = [pt |-> s.pt, tlb |-> s.tlb, lru |-> s.lru]
  BY <1>1
<1> QED BY <1>2 DEF P, T, L

\* What marking an entry does to it.
LEMMA PteAfterMarks ==
  ASSUME NEW e \in Ptes, NEW write \in BOOLEAN
  PROVE  /\ PteAfter(e, write) \in Ptes /\ Marked(e, PteAfter(e, write))
         /\ PteAfter(e, write).r
         /\ write /\ PpAllows(e.pp, write) => PteAfter(e, write).c
<1> DEFINE n == PteAfter(e, write)
<1>1. PpAllows(e.pp, write) \in BOOLEAN BY DEF PpAllows
<1>2. n \in Ptes BY <1>1 DEF PteAfter, Ptes
<1>3. /\ n.v = e.v /\ n.vsid = e.vsid /\ n.page = e.page /\ n.rpn = e.rpn
      /\ n.wimg = e.wimg /\ n.pp = e.pp /\ n.r = TRUE
      /\ n.c = (e.c \/ (write /\ PpAllows(e.pp, write)))
  BY <1>1 DEF PteAfter, Ptes
<1> HIDE DEF n
<1>4. Image(n) = Image(e) BY <1>3 DEF Image
<1>5. Marked(e, n) BY <1>3, <1>4 DEF Marked
<1>6. n.r /\ (write /\ PpAllows(e.pp, write) => n.c) BY <1>3
<1> QED BY <1>2, <1>5, <1>6 DEF n

\* Marking one entry leaves the walked state sound.
LEMMA MarkOk ==
  ASSUME NEW s, WalkOk(s), NEW g \in Groups, NEW k \in 1..Slots, NEW write \in BOOLEAN
  PROVE  LET z == [s EXCEPT !.pt[g][k] = PteAfter(@, write)]
         IN  /\ WalkOk(z) /\ Grows(s.pt, z.pt) /\ z.tlb = s.tlb /\ z.lru = s.lru
             /\ z.pt[g][k] = PteAfter(s.pt[g][k], write)
<1> DEFINE e == s.pt[g][k]
           n == PteAfter(e, write)
           z == [s EXCEPT !.pt[g][k] = n]
<1>1. s \in Walked BY DEF WalkOk
<1>2. e \in Ptes
  <2>1. s.pt \in [Groups -> [1..Slots -> Ptes]] BY <1>1, WalkedParts
  <2> QED BY <2>1
<1>3. n \in Ptes /\ Marked(e, n) BY <1>2, PteAfterMarks
<1> HIDE DEF n
<1>4. /\ z.pt = [s.pt EXCEPT ![g][k] = n] /\ z.tlb = s.tlb /\ z.lru = s.lru
      /\ z = [pt |-> z.pt, tlb |-> z.tlb, lru |-> z.lru]
  <2>1. PICK a, b, c : s = [pt |-> a, tlb |-> b, lru |-> c] BY <1>1, WalkedParts
  <2>2. z = [pt |-> [a EXCEPT ![g][k] = n], tlb |-> b, lru |-> c] BY <2>1
  <2> QED BY <2>1, <2>2
<1>5. z.pt \in [Groups -> [1..Slots -> Ptes]] BY <1>1, <1>3, <1>4 DEF Walked
<1>6. z \in Walked
  <2>1. z.tlb \in [Sides -> [TlbSets -> [{0, 1} -> Entry]]]
    BY <1>1, <1>4 DEF Walked
  <2>2. z.lru \in [Sides -> [TlbSets -> {0, 1}]] BY <1>1, <1>4 DEF Walked
  <2> HIDE DEF z
  <2> QED BY <1>4, <1>5, <2>1, <2>2 DEF Walked
<1>7. Grows(s.pt, z.pt)
  <2> SUFFICES ASSUME NEW h \in Groups, NEW j \in 1..Slots
               PROVE  Marked(s.pt[h][j], z.pt[h][j])
    BY DEF Grows
  <2>1. CASE h = g /\ j = k
    <3>1. z.pt[h][j] = n BY <1>1, <1>4, <2>1 DEF Walked
    <3> QED BY <1>3, <2>1, <3>1
  <2>2. CASE ~(h = g /\ j = k)
    <3>1. z.pt[h][j] = s.pt[h][j] BY <1>1, <1>4, <2>2 DEF Walked
    <3> QED BY <3>1 DEF Marked
  <2> QED BY <2>1, <2>2
<1>8. z.pt[g][k] = n BY <1>1, <1>4 DEF Walked
<1> HIDE DEF z
<1>9. TableOk(z.pt) BY <1>7, GrowsKeepsTable DEF WalkOk
<1>10. CopiesOk(z) BY <1>4, <1>7, GrowsKeepsCopy DEF WalkOk, CopiesOk
<1>11. Single(z) BY <1>4 DEF WalkOk, Single
<1>12. WalkOk(z) BY <1>6, <1>9, <1>10, <1>11 DEF WalkOk
<1> QED BY <1>4, <1>7, <1>8, <1>12 DEF z, n

\* A copy put into a way of its set, none there being of its page.
CopyOf(e, new, p) ==
  [v |-> TRUE, c |-> new.c, vsid |-> sr.vsid, page |-> p,
   rpn |-> e.rpn, wimg |-> e.wimg, pp |-> e.pp]

\* A copy loaded into the least recent way leaves the TLBs sound.
LEMMA ReloadOk ==
  ASSUME NEW s, WalkOk(s), NEW x \in Sides, NEW t \in TlbSets, NEW w \in {0, 1},
         NEW e, NEW new, NEW p,
         CopyOf(e, new, p) \in Entry, CopyOk(s.pt, t, CopyOf(e, new, p)),
         \A v \in {0, 1} : Differ(CopyOf(e, new, p), s.tlb[x][t][v])
  PROVE  WalkOk(Reload(s, e, new, x, t, w, p)) /\ Reload(s, e, new, x, t, w, p).pt = s.pt
<1> DEFINE z == Reload(s, e, new, x, t, w, p)
           n == CopyOf(e, new, p)
           l == 1 - w
<1>0. z = [s EXCEPT !.tlb[x][t][w] = n, !.lru[x][t] = l] BY DEF Reload, CopyOf
<1>l. l \in {0, 1} OBVIOUS
<1> HIDE DEF z, n, l
<1>n. /\ n \in Entry /\ CopyOk(s.pt, t, n)
      /\ \A v \in {0, 1} : Differ(n, s.tlb[x][t][v])
  BY DEF n
<1>1. s \in Walked BY DEF WalkOk
<1>2. /\ z.tlb = [s.tlb EXCEPT ![x][t][w] = n] /\ z.pt = s.pt
      /\ z.lru = [s.lru EXCEPT ![x][t] = l]
      /\ z = [pt |-> z.pt, tlb |-> z.tlb, lru |-> z.lru]
  <2>1. PICK a, b, c : s = [pt |-> a, tlb |-> b, lru |-> c] BY <1>1, WalkedParts
  <2> DEFINE y == [s EXCEPT !.tlb[x][t][w] = n]
  <2>3. y = [pt |-> a, tlb |-> [b EXCEPT ![x][t][w] = n], lru |-> c] BY <2>1
  <2>4. z = [y EXCEPT !.lru[x][t] = l] BY <1>0
  <2> HIDE DEF y
  <2>2. z = [pt |-> a, tlb |-> [b EXCEPT ![x][t][w] = n], lru |-> [c EXCEPT ![x][t] = l]]
    BY <2>3, <2>4
  <2> QED BY <2>1, <2>2
<1>3. z.tlb \in [Sides -> [TlbSets -> [{0, 1} -> Entry]]]
  BY <1>1, <1>2, <1>l, <1>n DEF Walked
<1>4. z.lru \in [Sides -> [TlbSets -> {0, 1}]] BY <1>1, <1>2, <1>l, <1>n DEF Walked
<1>5. z \in Walked BY <1>1, <1>2, <1>3, <1>4 DEF Walked
<1>6. ASSUME NEW y \in Sides, NEW u \in TlbSets, NEW v \in {0, 1}
      PROVE  z.tlb[y][u][v] = IF y = x /\ u = t /\ v = w THEN n ELSE s.tlb[y][u][v]
  BY <1>1, <1>2, <1>l, <1>n DEF Walked
<1>7. CopiesOk(z)
  <2> SUFFICES ASSUME NEW y \in Sides, NEW u \in TlbSets, NEW v \in {0, 1}
               PROVE  CopyOk(z.pt, u, z.tlb[y][u][v])
    BY DEF CopiesOk
  <2>1. CopyOk(s.pt, u, s.tlb[y][u][v]) BY DEF WalkOk, CopiesOk
  <2>2. CASE y = x /\ u = t /\ v = w BY <1>2, <1>6, <1>n, <2>2
  <2>3. CASE ~(y = x /\ u = t /\ v = w) BY <1>2, <1>6, <2>1, <2>3
  <2> QED BY <2>2, <2>3
<1>8. Single(z)
  <2> SUFFICES ASSUME NEW y \in Sides, NEW u \in TlbSets
               PROVE  Differ(z.tlb[y][u][0], z.tlb[y][u][1])
    BY DEF Single
  <2>1. Differ(s.tlb[y][u][0], s.tlb[y][u][1]) BY DEF WalkOk, Single
  <2>2. CASE ~(y = x /\ u = t) BY <1>6, <2>1, <2>2
  <2>3. CASE y = x /\ u = t /\ w = 0
    <3>1. z.tlb[y][u][0] = n /\ z.tlb[y][u][1] = s.tlb[x][t][1] BY <1>6, <2>3
    <3> QED BY <1>n, <3>1
  <2>4. CASE y = x /\ u = t /\ w = 1
    <3>1. z.tlb[y][u][1] = n /\ z.tlb[y][u][0] = s.tlb[x][t][0] BY <1>6, <2>4
    <3>2. Differ(n, s.tlb[x][t][0]) BY <1>n
    <3> QED BY <3>1, <3>2 DEF Differ
  <2> QED BY <2>2, <2>3, <2>4
<1>9. TableOk(z.pt) BY <1>2 DEF WalkOk
<1>10. WalkOk(z) BY <1>5, <1>7, <1>8, <1>9 DEF WalkOk
<1> QED BY <1>2, <1>10 DEF z

\* No way of the set a fetch or a data access looks in is a copy of its page.
Absent(s, p, fetch) ==
  \A w \in {0, 1} :
    LET e == s.tlb[SideOf(fetch)][TlbSetOf[p]][w]
    IN  ~(e.v /\ e.vsid = sr.vsid /\ e.page = p)

\* An entry that matches answers, is marked, and is loaded if it permits.
LEMMA EntryGood ==
  ASSUME MmuConstants, RegsOk, NEW s, WalkOk(s), NEW p \in Pages,
         NEW write \in BOOLEAN, NEW fetch \in BOOLEAN,
         Paged(p, fetch), Absent(s, p, fetch),
         NEW g \in Groups, NEW k \in 1..Slots,
         s.pt[g][k].v, s.pt[g][k].vsid = sr.vsid, s.pt[g][k].page = p
  PROVE  Good(EntryAt(s, g, k, p, write, fetch), s, p, write, fetch)
<1> DEFINE e == s.pt[g][k]
           z == [s EXCEPT !.pt[g][k] = PteAfter(@, write)]
           n == PteAfter(e, write)
           x == SideOf(fetch)
           t == TlbSetOf[p]
           way == s.lru[x][t]
           copy == CopyOf(e, n, p)
           r == Reload(z, e, n, x, t, way, p)
<1>1. s.pt \in [Groups -> [1..Slots -> Ptes]] /\ s.lru \in [Sides -> [TlbSets -> {0, 1}]]
  BY WalkedParts DEF WalkOk
<1>2. e \in Ptes BY <1>1
<1>3. x \in Sides /\ t \in TlbSets BY DEF SideOf, Sides, TlbSets
<1>4. way \in {0, 1} BY <1>1, <1>3
<1>5. /\ n \in Ptes /\ Marked(e, n) /\ n.r
      /\ (write /\ PpAllows(e.pp, write) => n.c)
  BY <1>2, PteAfterMarks
<1>6. /\ WalkOk(z) /\ Grows(s.pt, z.pt) /\ z.tlb = s.tlb /\ z.lru = s.lru
      /\ z.pt[g][k] = n
  BY MarkOk
<1>7. EntryAt(s, g, k, p, write, fetch)
      = EntryAnswer(s, z, e, x, t, p, write, fetch)
  BY DEF EntryAt, SideOf
<1>8. Image(e) \in images BY DEF WalkOk, TableOk
<1>9. /\ Image(e).vsid = sr.vsid /\ Image(e).page = p /\ Image(e).rpn = e.rpn
      /\ Image(e).wimg = e.wimg /\ Image(e).pp = e.pp
  BY DEF Image
<1>10. CASE fetch /\ e.wimg = "guarded"
  <2>1. EntryAnswer(s, z, e, x, t, p, write, fetch) = Refused(s, "guarded")
    BY <1>10 DEF EntryAnswer
  <2>2. Good(Refused(s, "guarded"), s, p, write, fetch) BY GrowsSelf, RefusedGood
  <2> QED BY <1>7, <2>1, <2>2
<1>11. CASE ~(fetch /\ e.wimg = "guarded") /\ ~PpAllows(e.pp, write)
  <2>1. EntryAnswer(s, z, e, x, t, p, write, fetch) = Refused(z, "protection")
    BY <1>11 DEF EntryAnswer
  <2> HIDE DEF z
  <2>2. Good(Refused(z, "protection"), s, p, write, fetch) BY <1>6, RefusedGood
  <2> QED BY <1>7, <2>1, <2>2
<1>12. CASE ~(fetch /\ e.wimg = "guarded") /\ PpAllows(e.pp, write)
  <2>1. EntryAnswer(s, z, e, x, t, p, write, fetch)
        = Granted(r, <<"page", e.rpn>>, e.wimg)
    BY <1>12 DEF EntryAnswer
  <2> HIDE DEF z, n
  <2>2. copy \in Entry
    <3>1. sr.vsid \in Nat BY DEF RegsOk, MmuConstants
    <3>2. e.rpn \in Nat /\ e.wimg \in Wimgs /\ e.pp \in 0..3 BY <1>2 DEF Ptes
    <3>3. n.c \in BOOLEAN BY <1>5 DEF Ptes
    <3> QED BY <3>1, <3>2, <3>3 DEF Entry, CopyOf
  <2>3. CopyOk(z.pt, t, copy)
    <3>1. Image(copy) = Image(e) BY DEF Image, CopyOf
    <3>2. Backs(z.pt[g][k], copy)
      <4>1. Image(n) = Image(e) /\ n.v BY <1>5 DEF Marked
      <4>2. copy.c = n.c BY DEF CopyOf
      <4> HIDE DEF copy
      <4> QED BY <1>5, <1>6, <3>1, <4>1, <4>2 DEF Backs
    <3>3. copy.page = p BY DEF CopyOf
    <3> HIDE DEF copy
    <3> QED BY <1>8, <3>1, <3>2, <3>3 DEF CopyOk
  <2>4. \A v \in {0, 1} : Differ(copy, z.tlb[x][t][v])
    <3>1. copy.vsid = sr.vsid /\ copy.page = p BY DEF CopyOf
    <3> HIDE DEF copy
    <3> QED BY <1>6, <3>1 DEF Absent, Differ
  <2> HIDE DEF copy
  <2>5. WalkOk(r) /\ r.pt = z.pt
    BY <1>3, <1>4, <1>6, <2>2, <2>3, <2>4, ReloadOk DEF copy
  <2>6. May(SideOf(fetch), write, IF fetch THEN msr.ir ELSE msr.dr,
            msr.pr, sr, p, <<"page", e.rpn>>, e.wimg)
    <3> DEFINE im == Image(e)
    <3> HIDE DEF im
    <3>1. May(SideOf(fetch), write, IF fetch THEN msr.ir ELSE msr.dr,
              msr.pr, sr, p, <<"page", im.rpn>>, im.wimg)
      BY <1>8, <1>9, <1>12, ImageMay DEF im
    <3> QED BY <1>9, <3>1 DEF im
  <2>7. ASSUME write PROVE ChangedIn(r.pt, <<sr.vsid, p>>)
    <3>1. n.v /\ n.vsid = sr.vsid /\ n.page = p BY <1>5, ImageFields DEF Marked
    <3> QED BY <1>5, <1>6, <1>12, <2>5, <2>7, <3>1 DEF ChangedIn
  <2> HIDE DEF r
  <2>8. Good(Granted(r, <<"page", e.rpn>>, e.wimg), s, p, write, fetch)
    BY <1>6, <2>5, <2>6, <2>7, GrantedGood DEF Accounted
  <2> QED BY <1>7, <2>1, <2>8
<1> QED BY <1>10, <1>11, <1>12

\* The first slot that matches answers; none, and it is a miss.
LEMMA SearchGood ==
  ASSUME MmuConstants, RegsOk, NEW s, WalkOk(s), NEW p \in Pages,
         NEW write \in BOOLEAN, NEW fetch \in BOOLEAN,
         Paged(p, fetch), Absent(s, p, fetch)
  PROVE  Good(TableSearch(s, p, write, fetch), s, p, write, fetch)
<1> DEFINE found == {k \in 1..2 * Slots : Matches(s, k, p)}
           m == Min(found)
<1>1. Slots \in Nat BY DEF MmuConstants
<1>2. CASE found = {}
  <2>1. TableSearch(s, p, write, fetch) = Refused(s, "miss")
    BY <1>2 DEF TableSearch, SearchFrom
  <2>2. Good(Refused(s, "miss"), s, p, write, fetch) BY GrowsSelf, RefusedGood
  <2> QED BY <2>1, <2>2
<1>3. CASE found # {}
  <2>1. found \in SUBSET Nat BY <1>1
  <2>2. m \in found BY <1>3, <2>1, LeastOf
  <2>3. m \in 1..2 * Slots /\ Matches(s, m, p) BY <2>2
  <2>4. TableSearch(s, p, write, fetch)
        = EntryAt(s, GroupAt(m, p), SlotAt(m), p, write, fetch)
    BY <1>3 DEF TableSearch, SearchFrom
  <2> HIDE DEF m, found
  <2>5. SlotAt(m) \in 1..Slots BY <1>1, <2>3 DEF SlotAt
  <2>6. GroupAt(m, p) \in Groups
    <3>1. Hash[<<sr.vsid, p>>] \in Groups BY DEF RegsOk, MmuConstants
    <3> QED BY <3>1 DEF GroupAt, Groups
  <2>7. LET e == s.pt[GroupAt(m, p)][SlotAt(m)]
        IN  e.v /\ e.vsid = sr.vsid /\ e.page = p
    BY <2>3 DEF Matches
  <2> QED BY <2>4, <2>5, <2>6, <2>7, EntryGood
<1> QED BY <1>2, <1>3

Drop(s, x, t, w) == [s EXCEPT !.tlb[x][t][w].v = FALSE]
Touch(s, x, t, l) == [s EXCEPT !.lru[x][t] = l]

\* A copy given up: nothing else changes, and its page is nowhere in the set.
LEMMA DropOk ==
  ASSUME NEW s, WalkOk(s), NEW x \in Sides, NEW t \in TlbSets, NEW w \in {0, 1}
  PROVE  LET z == Drop(s, x, t, w)
         IN  /\ WalkOk(z) /\ z.pt = s.pt
             /\ ~z.tlb[x][t][w].v
             /\ \A v \in {0, 1} : v # w => z.tlb[x][t][v] = s.tlb[x][t][v]
<1> DEFINE z == Drop(s, x, t, w)
           o == s.tlb[x][t][w]
           n == [o EXCEPT !.v = FALSE]
<1>1. s \in Walked BY DEF WalkOk
<1>2. /\ z.tlb = [s.tlb EXCEPT ![x][t][w] = n] /\ z.pt = s.pt /\ z.lru = s.lru
      /\ z = [pt |-> z.pt, tlb |-> z.tlb, lru |-> z.lru]
  <2>1. PICK a, b, c : s = [pt |-> a, tlb |-> b, lru |-> c] BY <1>1, WalkedParts
  <2>4. z = [s EXCEPT !.tlb = [b EXCEPT ![x][t][w].v = FALSE]] BY <2>1 DEF Drop
  <2> HIDE DEF z
  <2>2. z = [pt |-> a, tlb |-> [b EXCEPT ![x][t][w].v = FALSE], lru |-> c] BY <2>1, <2>4
  <2>3. [b EXCEPT ![x][t][w].v = FALSE] = [b EXCEPT ![x][t][w] = n] BY <2>1
  <2> QED BY <2>1, <2>2, <2>3
<1>3. s.tlb \in [Sides -> [TlbSets -> [{0, 1} -> Entry]]] BY <1>1, WalkedParts
<1>4. o \in Entry BY <1>3
<1>5. n \in Entry /\ n.v = FALSE BY <1>4 DEF Entry
<1> HIDE DEF z, n
<1>6. z.tlb \in [Sides -> [TlbSets -> [{0, 1} -> Entry]]] BY <1>2, <1>3, <1>5
<1>7. z \in Walked BY <1>1, <1>2, <1>6, WalkedParts DEF Walked
<1>8. ASSUME NEW y \in Sides, NEW u \in TlbSets, NEW v \in {0, 1}
      PROVE  z.tlb[y][u][v] = IF y = x /\ u = t /\ v = w THEN n ELSE s.tlb[y][u][v]
  BY <1>2, <1>3
<1>9. CopiesOk(z)
  <2> SUFFICES ASSUME NEW y \in Sides, NEW u \in TlbSets, NEW v \in {0, 1}
               PROVE  CopyOk(z.pt, u, z.tlb[y][u][v])
    BY DEF CopiesOk
  <2>1. CopyOk(s.pt, u, s.tlb[y][u][v]) BY DEF WalkOk, CopiesOk
  <2>2. CASE y = x /\ u = t /\ v = w BY <1>5, <1>8, <2>2 DEF CopyOk
  <2>3. CASE ~(y = x /\ u = t /\ v = w) BY <1>2, <1>8, <2>1, <2>3
  <2> QED BY <2>2, <2>3
<1>10. Single(z)
  <2> SUFFICES ASSUME NEW y \in Sides, NEW u \in TlbSets
               PROVE  Differ(z.tlb[y][u][0], z.tlb[y][u][1])
    BY DEF Single
  <2>1. Differ(s.tlb[y][u][0], s.tlb[y][u][1]) BY DEF WalkOk, Single
  <2>2. CASE ~(y = x /\ u = t) BY <1>8, <2>1, <2>2
  <2>3. CASE y = x /\ u = t BY <1>5, <1>8, <2>3 DEF Differ
  <2> QED BY <2>2, <2>3
<1>11. TableOk(z.pt) BY <1>2 DEF WalkOk
<1>12. WalkOk(z) BY <1>7, <1>9, <1>10, <1>11 DEF WalkOk
<1>13. ~z.tlb[x][t][w].v BY <1>5, <1>8
<1>14. \A v \in {0, 1} : v # w => z.tlb[x][t][v] = s.tlb[x][t][v] BY <1>8
<1> QED BY <1>2, <1>12, <1>13, <1>14 DEF z

\* Making a copy the most recent of its set changes nothing else.
LEMMA TouchOk ==
  ASSUME NEW s, WalkOk(s), NEW x \in Sides, NEW t \in TlbSets, NEW l \in {0, 1}
  PROVE  LET z == Touch(s, x, t, l) IN WalkOk(z) /\ z.pt = s.pt
<1> DEFINE z == Touch(s, x, t, l)
<1>1. s \in Walked BY DEF WalkOk
<1>2. /\ z.lru = [s.lru EXCEPT ![x][t] = l] /\ z.pt = s.pt /\ z.tlb = s.tlb
      /\ z = [pt |-> z.pt, tlb |-> z.tlb, lru |-> z.lru]
  <2>1. PICK a, b, c : s = [pt |-> a, tlb |-> b, lru |-> c] BY <1>1, WalkedParts
  <2>2. z = [pt |-> a, tlb |-> b, lru |-> [c EXCEPT ![x][t] = l]] BY <2>1 DEF Touch
  <2> HIDE DEF z
  <2> QED BY <2>1, <2>2
<1>3. s.lru \in [Sides -> [TlbSets -> {0, 1}]] BY <1>1, WalkedParts
<1> HIDE DEF z
<1>4. z.lru \in [Sides -> [TlbSets -> {0, 1}]] BY <1>2, <1>3
<1>5. z \in Walked BY <1>1, <1>2, <1>4, WalkedParts DEF Walked
<1>6. WalkOk(z) BY <1>2, <1>5 DEF WalkOk, CopiesOk, Single
<1> QED BY <1>2, <1>6 DEF z

\* A TLB hit answers from its copy, or gives it up for a search.
LEMMA TlbGood ==
  ASSUME MmuConstants, RegsOk, NEW s, WalkOk(s), NEW p \in Pages,
         NEW write \in BOOLEAN, NEW fetch \in BOOLEAN, Paged(p, fetch),
         NEW way \in {0, 1},
         LET e == s.tlb[SideOf(fetch)][TlbSetOf[p]][way]
         IN  e.v /\ e.vsid = sr.vsid /\ e.page = p
  PROVE  Good(TlbAnswer(s, SideOf(fetch), TlbSetOf[p], way, p, write, fetch),
              s, p, write, fetch)
<1> DEFINE x == SideOf(fetch)
           t == TlbSetOf[p]
           e == s.tlb[x][t][way]
           z == Drop(s, x, t, way)
           l == 1 - way
           y == Touch(s, x, t, l)
           A == TlbAnswer(s, x, t, way, p, write, fetch)
<1>1. x \in Sides /\ t \in TlbSets BY DEF SideOf, Sides, TlbSets
<1>2. s.tlb \in [Sides -> [TlbSets -> [{0, 1} -> Entry]]] BY WalkedParts DEF WalkOk
<1>3. e \in Entry BY <1>1, <1>2
<1>4. e.c \in BOOLEAN BY <1>3 DEF Entry
<1>5. CASE fetch /\ e.wimg = "guarded"
  <2>1. A = Refused(s, "guarded") BY <1>5 DEF TlbAnswer
  <2> QED BY <2>1, GrowsSelf, RefusedGood
<1>6. CASE ~(fetch /\ e.wimg = "guarded") /\ ~PpAllows(e.pp, write)
  <2>1. A = Refused(s, "protection") BY <1>6 DEF TlbAnswer
  <2> QED BY <2>1, GrowsSelf, RefusedGood
<1>7. CASE ~(fetch /\ e.wimg = "guarded") /\ PpAllows(e.pp, write) /\ write /\ ~e.c
  <2>1. A = TableSearch(z, p, write, fetch) BY <1>7 DEF TlbAnswer, Drop
  <2>2. /\ WalkOk(z) /\ z.pt = s.pt /\ ~z.tlb[x][t][way].v
        /\ \A v \in {0, 1} : v # way => z.tlb[x][t][v] = s.tlb[x][t][v]
    BY <1>1, DropOk
  <2> HIDE DEF z
  <2>3. Absent(z, p, fetch)
    <3> SUFFICES ASSUME NEW v \in {0, 1}
                 PROVE  ~(/\ z.tlb[x][t][v].v /\ z.tlb[x][t][v].vsid = sr.vsid
                          /\ z.tlb[x][t][v].page = p)
      BY DEF Absent
    <3>1. Differ(s.tlb[x][t][0], s.tlb[x][t][1]) BY <1>1 DEF WalkOk, Single
    <3>2. CASE v = way BY <2>2, <3>2
    <3>3. CASE v # way
      <4>1. z.tlb[x][t][v] = s.tlb[x][t][v] BY <2>2, <3>3
      <4>2. Differ(e, s.tlb[x][t][v])
        <5>1. CASE way = 0 BY <3>1, <3>3, <5>1
        <5>2. CASE way = 1
          <6>1. v = 0 BY <3>3, <5>2
          <6> QED BY <3>1, <5>2, <6>1 DEF Differ
        <5> QED BY <5>1, <5>2
      <4> QED BY <4>1, <4>2 DEF Differ
    <3> QED BY <3>2, <3>3
  <2>4. Good(TableSearch(z, p, write, fetch), z, p, write, fetch)
    BY <2>2, <2>3, SearchGood
  <2>5. Good(TableSearch(z, p, write, fetch), s, p, write, fetch)
    BY <2>2, <2>4 DEF Good
  <2> QED BY <2>1, <2>5
<1>8. CASE /\ ~(fetch /\ e.wimg = "guarded") /\ PpAllows(e.pp, write)
           /\ ~(write /\ ~e.c)
  <2>1. A = Granted(y, <<"page", e.rpn>>, e.wimg) BY <1>8 DEF TlbAnswer, Touch
  <2>2. WalkOk(y) /\ y.pt = s.pt
    <3>1. l \in {0, 1} OBVIOUS
    <3> HIDE DEF l
    <3> QED BY <1>1, <3>1, TouchOk
  <2> HIDE DEF y
  <2>3. CopyOk(s.pt, t, e) BY <1>1 DEF WalkOk, CopiesOk
  <2>4. Image(e) \in images BY <2>3 DEF CopyOk
  <2>5. /\ Image(e).vsid = sr.vsid /\ Image(e).page = p /\ Image(e).rpn = e.rpn
        /\ Image(e).wimg = e.wimg /\ Image(e).pp = e.pp
    BY DEF Image
  <2>6. May(SideOf(fetch), write, IF fetch THEN msr.ir ELSE msr.dr,
            msr.pr, sr, p, <<"page", e.rpn>>, e.wimg)
    <3> DEFINE im == Image(e)
    <3> HIDE DEF im
    <3>1. May(SideOf(fetch), write, IF fetch THEN msr.ir ELSE msr.dr,
              msr.pr, sr, p, <<"page", im.rpn>>, im.wimg)
      BY <1>8, <2>4, <2>5, ImageMay DEF im
    <3> QED BY <2>5, <3>1 DEF im
  <2>7. ASSUME write, <<sr.vsid, p>> \notin rewritten
        PROVE  ChangedIn(s.pt, <<sr.vsid, p>>)
    <3>1. PICK g \in Groups, k \in 1..Slots : Backs(s.pt[g][k], e)
      BY <2>3, <2>7 DEF CopyOk
    <3> DEFINE f == s.pt[g][k]
    <3>2. f.v /\ f.c BY <1>4, <1>8, <2>7, <3>1 DEF Backs
    <3>3. f.vsid = sr.vsid /\ f.page = p BY <3>1, ImageFields DEF Backs
    <3> QED BY <3>2, <3>3 DEF ChangedIn
  <2>8. Good(Granted(y, <<"page", e.rpn>>, e.wimg), s, p, write, fetch)
    <3>1. Grows(s.pt, y.pt) BY <2>2, GrowsSelf
    <3>2. write => Accounted(y.pt, <<sr.vsid, p>>, <<"page", e.rpn>>)
      BY <2>2, <2>7 DEF Accounted
    <3> QED BY <2>2, <2>6, <3>1, <3>2, GrantedGood
  <2> QED BY <2>1, <2>8
<1> QED BY <1>4, <1>5, <1>6, <1>7, <1>8

\* A segment that is a page segment answers from its TLB, or from a search.
LEMMA PageGood ==
  ASSUME MmuConstants, RegsOk, NEW s, WalkOk(s), NEW p \in Pages,
         NEW write \in BOOLEAN, NEW fetch \in BOOLEAN, Paged(p, fetch)
  PROVE  Good(PageAnswer(s, p, write, fetch, SideOf(fetch), TlbSetOf[p]),
              s, p, write, fetch)
<1> DEFINE x == SideOf(fetch)
           t == TlbSetOf[p]
           hits == {w \in {0, 1} : /\ s.tlb[x][t][w].v
                                   /\ s.tlb[x][t][w].vsid = sr.vsid
                                   /\ s.tlb[x][t][w].page = p}
           A == PageAnswer(s, p, write, fetch, x, t)
<1>1. CASE hits = {}
  <2>1. A = TableSearch(s, p, write, fetch) BY <1>1 DEF PageAnswer
  <2>2. Absent(s, p, fetch) BY <1>1 DEF Absent
  <2> QED BY <2>1, <2>2, SearchGood
<1>2. CASE hits # {}
  <2>1. A = TlbAnswer(s, x, t, Min(hits), p, write, fetch) BY <1>2 DEF PageAnswer
  <2>2. hits \in SUBSET Nat OBVIOUS
  <2> DEFINE m == Min(hits)
  <2>3. m \in hits BY <1>2, <2>2, LeastOf
  <2>4. m \in {0, 1} /\ LET e == s.tlb[x][t][m]
                        IN  e.v /\ e.vsid = sr.vsid /\ e.page = p
    BY <2>3
  <2>5. A = TlbAnswer(s, x, t, m, p, write, fetch) BY <2>1
  <2> HIDE DEF m, hits
  <2>6. Good(TlbAnswer(s, x, t, m, p, write, fetch), s, p, write, fetch) BY <2>4, TlbGood
  <2> QED BY <2>5, <2>6
<1> QED BY <1>1, <1>2

\* Whatever layer answers a walk, the answer is good.
LEMMA TranslateGood ==
  ASSUME MmuConstants, RegsOk, NEW s, WalkOk(s), NEW p \in Pages,
         NEW write \in BOOLEAN, NEW fetch \in BOOLEAN
  PROVE  Good(Translate(s, p, write, fetch), s, p, write, fetch)
<1> DEFINE x == SideOf(fetch)
           on == IF fetch THEN msr.ir ELSE msr.dr
           A == Translate(s, p, write, fetch)
<1>1. on \in BOOLEAN BY DEF RegsOk, Msrs
<1>2. CASE ~on
  <2> DEFINE wimg == IF p \in Inhibited THEN "real_inhibited" ELSE "real"
  <2>1. A = Granted(s, <<"real", p>>, wimg) BY <1>2 DEF Translate
  <2>2. May(x, write, on, msr.pr, sr, p, <<"real", p>>, wimg) BY <1>2 DEF May
  <2>3. Accounted(s.pt, <<sr.vsid, p>>, <<"real", p>>) BY DEF Accounted
  <2> HIDE DEF wimg
  <2> QED BY <2>1, <2>2, <2>3, GrowsSelf, GrantedGood
<1>3. CASE on
  <2>1. A = TranslateBy(s, BatHits(x, p), x, p, write, fetch)
    BY <1>3 DEF Translate, SideOf
  <2>2. CASE BatHits(x, p) # {} BY <1>3, <2>1, <2>2, BatGood DEF TranslateBy
  <2>3. CASE BatHits(x, p) = {} /\ sr.t
    <3>1. A = Refused(s, "direct_store") BY <2>1, <2>3 DEF TranslateBy
    <3> QED BY <3>1, GrowsSelf, RefusedGood
  <2>4. CASE BatHits(x, p) = {} /\ ~sr.t /\ fetch /\ sr.n
    <3>1. A = Refused(s, "no_execute") BY <2>1, <2>4 DEF TranslateBy
    <3> QED BY <3>1, GrowsSelf, RefusedGood
  <2>5. CASE BatHits(x, p) = {} /\ ~sr.t /\ ~(fetch /\ sr.n)
    <3>1. A = PageAnswer(s, p, write, fetch, x, TlbSetOf[p])
      BY <2>1, <2>5 DEF TranslateBy
    <3>2. Paged(p, fetch) BY <1>3, <2>5 DEF Paged
    <3> QED BY <3>1, <3>2, PageGood
  <2> QED BY <2>2, <2>3, <2>4, <2>5
<1> QED BY <1>1, <1>2, <1>3

-----------------------------------------------------------------------------
(* The steps.  First, what they have in common. *)

\* The state a walk leaves is sound, and its table is the old one, marked.
LEMMA BecomeOk ==
  ASSUME NEW z, WalkOk(z), Grows(pt, z.pt), MmuBecome(z), UNCHANGED <<images, rewritten>>
  PROVE  WalkOk(MmuNow)' /\ Grows(pt, pt')
<1>1. pt' = z.pt /\ tlb' = z.tlb /\ lru' = z.lru BY DEF MmuBecome
<1>2. z \in Walked BY DEF WalkOk
<1>3. MmuNow' = z
  <2>1. PICK a, b, c : z = [pt |-> a, tlb |-> b, lru |-> c] BY <1>2, WalkedParts
  <2> QED BY <1>1, <2>1 DEF MmuNow
<1>4. (MmuNow \in Walked)' BY <1>2, <1>3
<1>5. TableOk(MmuNow.pt)' BY <1>3 DEF WalkOk, TableOk
<1>6. CopiesOk(MmuNow)'
  <2>1. CopiesOk(MmuNow)' = \A x \in Sides, t \in TlbSets, w \in {0, 1} :
                           CopyOk(z.pt, t, z.tlb[x][t][w])'
    BY <1>3 DEF CopiesOk
  <2>2. ASSUME NEW t, NEW e, CopyOk(z.pt, t, e) PROVE CopyOk(z.pt, t, e)'
    BY <2>2 DEF CopyOk
  <2> QED BY <2>1, <2>2 DEF WalkOk, CopiesOk
<1>7. Single(MmuNow)' BY <1>3 DEF WalkOk, Single
<1> QED BY <1>1, <1>4, <1>5, <1>6, <1>7 DEF WalkOk

\* A changed page stays changed as the table is marked.
LEMMA StoresKept ==
  ASSUME StoresOk, Grows(pt, pt'), rewritten' = rewritten, NEW new,
         dirty' = dirty \cup new,
         \A vp \in new : vp \in rewritten \/ ChangedIn(pt', vp)
  PROVE  StoresOk'
<1> SUFFICES ASSUME NEW vp \in dirty', vp \notin rewritten'
             PROVE  ChangedIn(pt', vp)
  BY DEF StoresOk
<1>1. CASE vp \in new BY <1>1
<1>2. CASE vp \in dirty
  <2>1. ChangedIn(pt, vp) BY <1>2 DEF StoresOk
  <2> QED BY <2>1, GrowsKeepsChanged
<1> QED BY <1>1, <1>2

\* A cached answer outlives everything but the end of its image.
LEMMA FrontKept ==
  ASSUME NEW d, FrontOk(d), front'[d] = front[d], bat' = bat, images \subseteq images'
  PROVE  FrontOk(d)'
<1> SUFFICES ASSUME front'[d].v PROVE FrontOk(d)' BY DEF FrontOk
<1>1. PICK f : f = front[d] OBVIOUS
<1> DEFINE side == SideOf(d = "i")
           write == d = "w"
<1>2. May(side, write, f.on, f.pr, f.sr, f.page, f.pa, f.wimg)
  BY <1>1 DEF FrontOk
<1>3. HitsUnder(f.pr, side, f.page)' = HitsUnder(f.pr, side, f.page) BY DEF HitsUnder
<1>4. May(side, write, f.on, f.pr, f.sr, f.page, f.pa, f.wimg)'
  <2>1. CASE ~f.on BY <1>2, <2>1 DEF May
  <2>2. CASE f.on /\ HitsUnder(f.pr, side, f.page) # {} BY <1>2, <1>3, <2>2 DEF May
  <2>3. CASE f.on /\ HitsUnder(f.pr, side, f.page) = {}
    <3>1. PICK im \in images :
            /\ im.vsid = f.sr.vsid /\ im.page = f.page
            /\ f.pa = <<"page", im.rpn>> /\ f.wimg = im.wimg
            /\ PpUnder(f.pr, f.sr, im.pp, write) /\ ~(side = "i" /\ f.wimg = "guarded")
      BY <1>2, <2>3 DEF May
    <3>2. ~f.sr.t /\ ~(side = "i" /\ f.sr.n) BY <1>2, <2>3 DEF May
    <3>3. im \in images' OBVIOUS
    <3> QED BY <1>3, <2>3, <3>1, <3>2, <3>3 DEF May
  <2> QED BY <2>1, <2>2, <2>3
<1> QED BY <1>1, <1>4 DEF FrontOk

\* An answer is good for the key it is kept under.
LEMMA FrontFilled ==
  ASSUME NEW d \in Dirs, NEW p, NEW a,
         May(SideOf(d = "i"), d = "w", Side(d), msr.pr, sr, p, a.pa, a.wimg),
         front'[d] = Filled(d, p, a), UNCHANGED <<bat, images>>
  PROVE  FrontOk(d)'
<1>1. PICK f : f = Filled(d, p, a) OBVIOUS
<1>2. /\ f.on = Side(d) /\ f.pr = msr.pr /\ f.sr = sr /\ f.page = p
      /\ f.pa = a.pa /\ f.wimg = a.wimg
  BY <1>1 DEF Filled
<1> DEFINE side == SideOf(d = "i")
           write == d = "w"
<1>3. May(side, write, f.on, f.pr, f.sr, f.page, f.pa, f.wimg)
  BY <1>2
<1>4. HitsUnder(f.pr, side, f.page)' = HitsUnder(f.pr, side, f.page) BY DEF HitsUnder
<1>5. May(side, write, f.on, f.pr, f.sr, f.page, f.pa, f.wimg)'
  BY <1>3, <1>4 DEF May
<1> QED BY <1>1, <1>5 DEF FrontOk

\* Empty one-page caches are sound.
LEMMA NoFrontsOk ==
  ASSUME front' = NoFronts
  PROVE  FrontsOk'
<1>1. front' = [d \in Dirs |-> front'[d]] /\ \A d \in Dirs : ~front'[d].v
  BY DEF NoFronts, NoFront, Dirs
<1> QED BY <1>1 DEF FrontsOk, FrontOk, Dirs

-----------------------------------------------------------------------------
(* An access. *)

\* What a hit in a one-page cache is worth.
LEMMA FrontGood ==
  ASSUME MmuInv, NEW d \in Dirs, NEW p \in Pages, FrontHits(d, p)
  PROVE  Good(Granted(MmuNow, front[d].pa, front[d].wimg), MmuNow, p, d = "w", d = "i")
<1> DEFINE f == front[d]
<1>1. /\ f.v /\ f.on = Side(d) /\ f.pr = msr.pr /\ f.page = p /\ f.sr = sr
  BY DEF FrontHits, FrontKey
<1>2. FrontOk(d) BY DEF MmuInv, FrontsOk
<1>3. Side(d) = IF d = "i" THEN msr.ir ELSE msr.dr BY DEF Side
<1>4. May(SideOf(d = "i"), d = "w", IF d = "i" THEN msr.ir ELSE msr.dr,
          msr.pr, sr, p, f.pa, f.wimg)
  BY <1>1, <1>2, <1>3 DEF FrontOk
<1>5. ASSUME d = "w" PROVE Accounted(MmuNow.pt, <<sr.vsid, p>>, f.pa)
  BY <1>1, <1>5 DEF MmuInv, FrontsOk, MmuNow
<1> HIDE DEF f
<1>6. WalkOk(MmuNow) /\ Grows(MmuNow.pt, MmuNow.pt) BY GrowsSelf DEF MmuInv
<1>7. Good(Granted(MmuNow, f.pa, f.wimg), MmuNow, p, d = "w", d = "i")
  BY <1>4, <1>5, <1>6, GrantedGood
<1> QED BY <1>7 DEF f

\* Whatever answers an access, a one-page cache or a walk, answers well.
LEMMA AnswerGood ==
  ASSUME MmuConstants, MmuInv, NEW d \in Dirs, NEW p \in Pages
  PROVE  Good(Answer(d, p), MmuNow, p, d = "w", d = "i")
<1>1. CASE FrontHits(d, p) BY <1>1, FrontGood DEF Answer
<1>2. CASE ~FrontHits(d, p)
  <2>1. Good(Translate(MmuNow, p, d = "w", d = "i"), MmuNow, p, d = "w", d = "i")
    BY TranslateGood DEF MmuInv
  <2> QED BY <1>2, <2>1 DEF Answer
<1> QED BY <1>1, <1>2

\* The registers an access leaves.
LEMMA DeliverOk ==
  ASSUME RegsOk, NEW ok \in BOOLEAN, Deliver(ok), UNCHANGED <<sr, bat, dabr, changes>>
  PROVE  RegsOk'
<1>1. msr' \in Msrs BY DEF Deliver, RegsOk, Handler, Msrs
<1> QED BY <1>1 DEF RegsOk

\* An access of one page keeps the invariant.
LEMMA FrontedStep ==
  ASSUME MmuConstants, MmuInv, NEW d \in Dirs, NEW p \in Pages, Fronted(d, p)
  PROVE  MmuInv'
<1>1. PICK a \in {Answer(d, p)} :
        /\ MmuBecome(a.s)
        /\ front' = IF FrontHits(d, p) THEN front ELSE FrontAfter(d, p, a)
        /\ dirty' = dirty \cup (IF d = "w" THEN Stored(p, a) ELSE {})
        /\ Deliver(a.ok)
        /\ UNCHANGED <<sr, bat, dabr, images, rewritten, changes>>
  BY DEF Fronted
<1>2. Good(a, MmuNow, p, d = "w", d = "i") BY <1>1, AnswerGood
<1>3. /\ WalkOk(a.s) /\ Grows(pt, a.s.pt) /\ a.ok \in BOOLEAN
      /\ a.ok => May(SideOf(d = "i"), d = "w", Side(d), msr.pr, sr, p, a.pa, a.wimg)
      /\ a.ok /\ d = "w" => Accounted(a.s.pt, <<sr.vsid, p>>, a.pa)
  BY <1>2 DEF Good, MmuNow, Side
<1>4. WalkOk(MmuNow)' /\ Grows(pt, pt') BY <1>1, <1>3, BecomeOk
<1>5. pt' = a.s.pt BY <1>1 DEF MmuBecome
<1>6. RegsOk' BY <1>1, <1>3, DeliverOk DEF MmuInv
<1>7. (images \subseteq {Image(e) : e \in PteValues})' BY <1>1 DEF MmuInv
<1>8. StoresOk'
  <2> DEFINE new == IF d = "w" THEN Stored(p, a) ELSE {}
  <2>1. ASSUME NEW vp \in new PROVE vp \in rewritten \/ ChangedIn(pt', vp)
    <3>1. d = "w" /\ a.ok /\ a.pa[1] = "page" /\ vp = <<sr.vsid, p>>
      BY <2>1 DEF Stored
    <3> QED BY <1>3, <1>5, <3>1 DEF Accounted
  <2>2. dirty' = dirty \cup new BY <1>1
  <2> HIDE DEF new
  <2> QED BY <1>1, <1>4, <2>1, <2>2, StoresKept DEF MmuInv
<1>9. FrontsOk'
  <2>1. front = [e \in Dirs |-> front[e]] BY DEF MmuInv, FrontsOk
  <2>2. ASSUME NEW e \in Dirs, front'[e] = front[e] PROVE FrontOk(e)'
    BY <1>1, <2>2, FrontKept DEF MmuInv, FrontsOk
  <2>3. ASSUME front'["w"] = front["w"]
        PROVE  front'["w"].v =>
                 Accounted(pt, <<front["w"].sr.vsid, front["w"].page>>, front["w"].pa)'
    <3> SUFFICES ASSUME front["w"].v
                 PROVE  Accounted(pt, <<front["w"].sr.vsid, front["w"].page>>, front["w"].pa)'
      BY <2>3
    <3>1. PICK vp : vp = <<front["w"].sr.vsid, front["w"].page>> OBVIOUS
    <3>2. Accounted(pt, vp, front["w"].pa) BY <3>1 DEF MmuInv, FrontsOk
    <3>3. ChangedIn(pt, vp) => ChangedIn(pt', vp) BY <1>4, GrowsKeepsChanged
    <3> QED BY <1>1, <2>3, <3>1, <3>2, <3>3 DEF Accounted
  <2>4. CASE front' = front
    BY <2>1, <2>2, <2>3, <2>4 DEF FrontsOk, Dirs
  <2>5. CASE a.ok /\ front' = [front EXCEPT ![d] = Filled(d, p, a)]
    <3>1. front' = [e \in Dirs |-> front'[e]] BY <2>1, <2>5
    <3>2. front'[d] = Filled(d, p, a) BY <2>1, <2>5
    <3>3. ASSUME NEW e \in Dirs, e # d PROVE front'[e] = front[e]
      BY <2>1, <2>5, <3>3
    <3>4. FrontOk(d)' BY <1>1, <1>3, <2>5, <3>2, FrontFilled
    <3>5. \A e \in Dirs : FrontOk(e)' BY <2>2, <3>3, <3>4
    <3>6. ASSUME d = "w"
          PROVE  Accounted(pt, <<front["w"].sr.vsid, front["w"].page>>, front["w"].pa)'
      <4>1. /\ front'["w"].sr = sr /\ front'["w"].page = p /\ front'["w"].pa = a.pa
        BY <3>2, <3>6 DEF Filled
      <4>2. Accounted(pt', <<sr.vsid, p>>, a.pa) BY <1>3, <1>5, <2>5, <3>6
      <4> QED BY <1>1, <4>1, <4>2 DEF Accounted
    <3>7. ASSUME d # "w" PROVE front'["w"] = front["w"] BY <3>3, <3>7 DEF Dirs
    <3> QED BY <2>3, <3>1, <3>5, <3>6, <3>7 DEF FrontsOk
  <2> QED BY <1>1, <1>3, <2>4, <2>5 DEF FrontAfter
<1> QED BY <1>4, <1>6, <1>7, <1>8, <1>9 DEF MmuInv

\* Untouched caches stay good while images and rewritten pages are only added.
LEMMA FrontsKept ==
  ASSUME FrontsOk, front' = front, bat' = bat, images \subseteq images',
         rewritten \subseteq rewritten',
         \A vp : ChangedIn(pt, vp) => vp \in rewritten' \/ ChangedIn(pt', vp)
  PROVE  FrontsOk'
<1>1. \A e \in Dirs : FrontOk(e)' BY FrontKept DEF FrontsOk
<1>2. ASSUME front["w"].v
      PROVE  Accounted(pt, <<front["w"].sr.vsid, front["w"].page>>, front["w"].pa)'
  <2>1. PICK vp : vp = <<front["w"].sr.vsid, front["w"].page>> OBVIOUS
  <2>2. Accounted(pt, vp, front["w"].pa) BY <1>2, <2>1 DEF FrontsOk
  <2> QED BY <2>1, <2>2 DEF Accounted
<1> QED BY <1>1, <1>2 DEF FrontsOk

\* An access in two parts, the second of which may fault, keeps it.
LEMMA PartsStep ==
  ASSUME MmuConstants, MmuInv, NEW p \in Pages, NEW q \in Pages,
         NEW write \in BOOLEAN, Parts(p, q, write)
  PROVE  MmuInv'
<1>1. PICK a \in {Translate(MmuNow, p, write, FALSE)} :
        \E b \in {IF a.ok THEN Translate(a.s, q, write, FALSE) ELSE a} :
          /\ MmuBecome(b.s)
          /\ dirty' = dirty \cup
               (IF write /\ a.ok THEN Stored(p, a) \cup Stored(q, b) ELSE {})
          /\ Deliver(b.ok)
          /\ UNCHANGED <<sr, bat, dabr, front, images, rewritten, changes>>
  BY DEF Parts
<1>2. PICK b \in {IF a.ok THEN Translate(a.s, q, write, FALSE) ELSE a} :
        /\ MmuBecome(b.s)
        /\ dirty' = dirty \cup
             (IF write /\ a.ok THEN Stored(p, a) \cup Stored(q, b) ELSE {})
        /\ Deliver(b.ok)
        /\ UNCHANGED <<sr, bat, dabr, front, images, rewritten, changes>>
  BY <1>1
<1>3. Good(a, MmuNow, p, write, FALSE) BY <1>1, TranslateGood DEF MmuInv
<1>4. /\ WalkOk(a.s) /\ Grows(pt, a.s.pt) /\ a.ok \in BOOLEAN
      /\ a.ok /\ write => Accounted(a.s.pt, <<sr.vsid, p>>, a.pa)
  BY <1>3 DEF Good, MmuNow
<1>5. a.ok => Good(b, a.s, q, write, FALSE)
  BY <1>2, <1>4, TranslateGood DEF MmuInv
<1>6. ~a.ok => b = a BY <1>2
<1>7. /\ WalkOk(b.s) /\ Grows(a.s.pt, b.s.pt) /\ b.ok \in BOOLEAN
      /\ a.ok /\ b.ok /\ write => Accounted(b.s.pt, <<sr.vsid, q>>, b.pa)
  BY <1>4, <1>5, <1>6, GrowsSelf DEF Good
<1>8. Grows(pt, b.s.pt) BY <1>4, <1>7, MarkedTrans
<1>9. WalkOk(MmuNow)' /\ Grows(pt, pt') BY <1>2, <1>7, <1>8, BecomeOk
<1>10. pt' = b.s.pt BY <1>2 DEF MmuBecome
<1>11. RegsOk' BY <1>2, <1>7, DeliverOk DEF MmuInv
<1>12. (images \subseteq {Image(e) : e \in PteValues})' BY <1>2 DEF MmuInv
<1>13. StoresOk'
  <2> DEFINE new == IF write /\ a.ok THEN Stored(p, a) \cup Stored(q, b) ELSE {}
  <2>1. ASSUME NEW vp \in new PROVE vp \in rewritten \/ ChangedIn(pt', vp)
    <3>1. CASE /\ write /\ a.ok /\ a.pa[1] = "page" /\ vp = <<sr.vsid, p>>
      <4>1. vp \in rewritten \/ ChangedIn(a.s.pt, vp) BY <1>4, <3>1 DEF Accounted
      <4> QED BY <1>7, <1>10, <4>1, GrowsKeepsChanged
    <3>2. CASE /\ write /\ a.ok /\ b.ok /\ b.pa[1] = "page" /\ vp = <<sr.vsid, q>>
      BY <1>7, <1>10, <3>2 DEF Accounted
    <3> QED BY <2>1, <3>1, <3>2 DEF Stored
  <2>2. dirty' = dirty \cup new BY <1>2
  <2> HIDE DEF new
  <2> QED BY <1>2, <1>9, <2>1, <2>2, StoresKept DEF MmuInv
<1>14. FrontsOk' BY <1>2, <1>9, GrowsKeepsChanged, FrontsKept DEF MmuInv
<1> QED BY <1>9, <1>11, <1>12, <1>13, <1>14 DEF MmuInv
-----------------------------------------------------------------------------
(* What software changes. *)

\* Nothing walked, kept or relied on changes.
LEMMA WalkKept ==
  ASSUME MmuInv, UNCHANGED <<walked, relied>>
  PROVE  WalkOk(MmuNow)' /\ StoresOk' /\ (images \subseteq {Image(e) : e \in PteValues})'
<1>1. UNCHANGED <<pt, tlb, lru, images, rewritten, dirty>> BY DEF walked, relied
<1>2. MmuBecome(MmuNow) BY <1>1 DEF MmuBecome, MmuNow
<1>3. WalkOk(MmuNow)'
  <2>1. PICK z : z = MmuNow OBVIOUS
  <2>2. MmuNow.pt = pt BY DEF MmuNow
  <2>3. WalkOk(z) /\ Grows(pt, z.pt) /\ MmuBecome(z)
    BY <1>2, <2>1, <2>2, GrowsSelf DEF MmuInv, MmuBecome
  <2> QED BY <1>1, <2>3, BecomeOk
<1>4. StoresOk' BY <1>1 DEF MmuInv, StoresOk
<1> QED BY <1>1, <1>3, <1>4 DEF MmuInv

\* An access that traps before it is translated keeps it.
LEMMA TrappedStep ==
  ASSUME MmuInv, NEW p, NEW write, Trapped(p, write)
  PROVE  MmuInv'
<1>1. Deliver(FALSE) /\ UNCHANGED <<sr, bat, dabr, walked, front, relied, changes>>
  BY DEF Trapped
<1>2. RegsOk' BY <1>1, DeliverOk DEF MmuInv
<1>3. FrontsOk' BY <1>1, FrontsKept DEF MmuInv, relied, walked
<1> QED BY <1>1, <1>2, <1>3, WalkKept DEF MmuInv

\* Counting a change of software keeps the count a number.
LEMMA ChangedOk ==
  ASSUME MmuConstants, changes \in 0..MaxChanges, Changed
  PROVE  changes' \in 0..MaxChanges
  BY DEF Changed, MmuConstants

\* mtspr of a BAT keeps the invariant: the generation moves.
LEMMA MtBatStep ==
  ASSUME MmuConstants, MmuInv, NEW side \in Sides, NEW b \in 1..Bats,
         NEW x \in BatValues, MtBat(side, b, x)
  PROVE  MmuInv'
<1>1. RegsOk'
  <2>1. bat' \in [Sides -> [1..Bats -> BatValues]] BY DEF MtBat, MmuInv, RegsOk
  <2>2. changes' \in 0..MaxChanges BY ChangedOk DEF MtBat, MmuInv, RegsOk
  <2> QED BY <2>1, <2>2 DEF MtBat, MmuInv, RegsOk
<1>2. FrontsOk' BY NoFrontsOk DEF MtBat
<1>3. UNCHANGED <<walked, relied>> BY DEF MtBat
<1> QED BY <1>1, <1>2, <1>3, WalkKept DEF MmuInv

\* mtmsr, mtsr and mtspr DABR keep it.
LEMMA MtRegStep ==
  ASSUME MmuConstants, MmuInv,
         \/ \E x \in MsrValues : MtMsr(x)
         \/ \E x \in SegValues : MtSr(x)
         \/ \E x \in DabrValues : MtDabr(x)
  PROVE  MmuInv'
<1>1. RegsOk'
  <2>1. CASE \E x \in MsrValues : MtMsr(x)
    BY <2>1 DEF MtMsr, MmuInv, RegsOk, MmuConstants
  <2>2. CASE \E x \in SegValues : MtSr(x)
    BY <2>2, ChangedOk DEF MtSr, MmuInv, RegsOk
  <2>3. CASE \E x \in DabrValues : MtDabr(x)
    BY <2>3, ChangedOk DEF MtDabr, MmuInv, RegsOk
  <2> QED BY <2>1, <2>2, <2>3
<1>2. UNCHANGED <<bat, front, walked, relied>> BY DEF MtMsr, MtSr, MtDabr
<1>3. FrontsOk' BY <1>2, FrontsKept DEF MmuInv, relied, walked
<1> QED BY <1>1, <1>2, <1>3, WalkKept DEF MmuInv

\* An entry that is overwritten is a rewritten page's; no other is disturbed.
LEMMA WritePteStep ==
  ASSUME MmuConstants, MmuInv, NEW g \in Groups, NEW s \in 1..Slots,
         NEW x \in PteValues, WritePte(g, s, x)
  PROVE  MmuInv'
<1> DEFINE old == {e \in {pt[g][s], x} : e.v}
           named == {<<e.vsid, e.page>> : e \in old}
<1>1. /\ pt' = [pt EXCEPT ![g][s] = x]
      /\ images' = images \cup {Image(e) : e \in old}
      /\ rewritten' = rewritten \cup named
      /\ dirty' = dirty \ named
      /\ Changed /\ UNCHANGED <<regs, tlb, lru, front>>
  BY DEF WritePte
<1>2. /\ pt \in [Groups -> [1..Slots -> Ptes]]
      /\ tlb \in [Sides -> [TlbSets -> [{0, 1} -> Entry]]]
      /\ lru \in [Sides -> [TlbSets -> {0, 1}]]
  <2>1. MmuNow \in Walked BY DEF MmuInv, WalkOk
  <2>2. MmuNow.pt = pt /\ MmuNow.tlb = tlb /\ MmuNow.lru = lru BY DEF MmuNow
  <2> QED BY <2>1, <2>2, WalkedParts
<1>3. x \in Ptes BY DEF MmuConstants
<1>4. pt' \in [Groups -> [1..Slots -> Ptes]] BY <1>1, <1>2, <1>3
<1>5. ASSUME NEW h \in Groups, NEW k \in 1..Slots
      PROVE  pt'[h][k] = IF h = g /\ k = s THEN x ELSE pt[h][k]
  BY <1>1, <1>2
<1>6. ASSUME NEW h \in Groups, NEW k \in 1..Slots, pt[h][k].v,
             <<pt[h][k].vsid, pt[h][k].page>> \notin rewritten'
      PROVE  pt'[h][k] = pt[h][k]
  <2>1. ~(h = g /\ k = s) BY <1>1, <1>6
  <2> QED BY <1>5, <2>1
<1>7. RegsOk'
  <2>1. changes' \in 0..MaxChanges BY <1>1, ChangedOk DEF MmuInv, RegsOk
  <2> QED BY <1>1, <2>1 DEF MmuInv, RegsOk, regs
<1>8. TableOk(pt) /\ CopiesOk(MmuNow) /\ Single(MmuNow) BY DEF MmuInv, WalkOk, MmuNow
<1>9. (images \subseteq {Image(e) : e \in PteValues})'
  <2>1. ASSUME NEW e \in old PROVE Image(e) \in {Image(f) : f \in PteValues}
    <3>1. CASE e = x BY <3>1
    <3>2. CASE e = pt[g][s] BY <1>8, <2>1, <3>2 DEF TableOk, MmuInv
    <3> QED BY <3>1, <3>2
  <2> QED BY <1>1, <2>1 DEF MmuInv
<1>10. TableOk(pt)'
  <2> SUFFICES ASSUME NEW h \in Groups, NEW k \in 1..Slots, pt'[h][k].v
               PROVE  pt'[h][k].page \in Pages /\ Image(pt'[h][k]) \in images'
    BY DEF TableOk
  <2>1. CASE h = g /\ k = s
    <3>1. pt'[h][k] = x BY <1>5, <2>1
    <3>2. x.page \in Pages BY <3>1 DEF MmuConstants
    <3> QED BY <1>1, <3>1, <3>2
  <2>2. CASE ~(h = g /\ k = s)
    <3>1. pt'[h][k] = pt[h][k] BY <1>5, <2>2
    <3> QED BY <1>1, <1>8, <3>1 DEF TableOk
  <2> QED BY <2>1, <2>2
<1>11. ASSUME NEW t, NEW e, CopyOk(pt, t, e) PROVE CopyOk(pt, t, e)'
  <2> SUFFICES ASSUME e.v PROVE CopyOk(pt, t, e)' BY DEF CopyOk
  <2>1. e.page \in Pages /\ TlbSetOf[e.page] = t /\ Image(e) \in images'
    BY <1>1, <1>11 DEF CopyOk
  <2>2. ASSUME <<e.vsid, e.page>> \notin rewritten'
        PROVE  \E h \in Groups, k \in 1..Slots : Backs(pt'[h][k], e)
    <3>1. PICK h \in Groups, k \in 1..Slots : Backs(pt[h][k], e)
      BY <1>1, <1>11, <2>2 DEF CopyOk
    <3>2. pt[h][k].v /\ pt[h][k].vsid = e.vsid /\ pt[h][k].page = e.page
      BY <3>1, ImageFields DEF Backs
    <3>3. pt'[h][k] = pt[h][k] BY <1>6, <2>2, <3>2
    <3> QED BY <3>1, <3>3
  <2> QED BY <2>1, <2>2 DEF CopyOk
<1>12. CopiesOk(MmuNow)'
  <2> SUFFICES ASSUME NEW y \in Sides, NEW t \in TlbSets, NEW w \in {0, 1}
               PROVE  CopyOk(pt, t, tlb[y][t][w])'
    BY DEF CopiesOk, MmuNow
  <2>1. PICK e : e = tlb[y][t][w] OBVIOUS
  <2>2. CopyOk(pt, t, e) BY <1>8, <2>1 DEF CopiesOk, MmuNow
  <2>3. CopyOk(pt, t, e)' BY <1>11, <2>2
  <2>4. e = tlb'[y][t][w] BY <1>1, <2>1
  <2> QED BY <2>3, <2>4
<1>13. Single(MmuNow)' BY <1>1, <1>8 DEF Single, MmuNow
<1>14. (MmuNow \in Walked)' BY <1>1, <1>2, <1>4 DEF MmuNow, Walked
<1>15. WalkOk(MmuNow)' BY <1>10, <1>12, <1>13, <1>14 DEF WalkOk, MmuNow
<1>16. ASSUME NEW vp, ChangedIn(pt, vp), vp \notin rewritten' PROVE ChangedIn(pt', vp)
  <2>1. PICK h \in Groups, k \in 1..Slots :
          pt[h][k].v /\ pt[h][k].c /\ vp = <<pt[h][k].vsid, pt[h][k].page>>
    BY <1>16 DEF ChangedIn
  <2>2. pt'[h][k] = pt[h][k] BY <1>6, <1>16, <2>1
  <2> QED BY <2>1, <2>2 DEF ChangedIn
<1>17. StoresOk' BY <1>1, <1>16 DEF MmuInv, StoresOk
<1>18. FrontsOk' BY <1>1, <1>16, FrontsKept DEF MmuInv, regs
<1> QED BY <1>7, <1>9, <1>15, <1>17, <1>18 DEF MmuInv

\* A tlbie empties its class on both sides and forgets no other.
LEMMA TlbieStep ==
  ASSUME MmuConstants, MmuInv, NEW p \in Pages, Tlbie(p)
  PROVE  MmuInv'
<1> DEFINE t == TlbSetOf[p]
<1>1. /\ TlbInvalidateClass(t) /\ front' = NoFronts /\ Changed
      /\ images' = {im \in images : TlbSetOf[im.page] # t}
                     \cup {Image(e) : e \in Entries(pt)}
      /\ rewritten' = {vp \in rewritten : TlbSetOf[vp[2]] # t}
      /\ dirty' = dirty \ {vp \in rewritten : TlbSetOf[vp[2]] = t}
      /\ UNCHANGED <<regs, pt, lru>>
  BY DEF Tlbie, Forget
<1>2. /\ pt \in [Groups -> [1..Slots -> Ptes]]
      /\ tlb \in [Sides -> [TlbSets -> [{0, 1} -> Entry]]]
      /\ lru \in [Sides -> [TlbSets -> {0, 1}]]
  <2>1. MmuNow \in Walked BY DEF MmuInv, WalkOk
  <2>2. MmuNow.pt = pt /\ MmuNow.tlb = tlb /\ MmuNow.lru = lru BY DEF MmuNow
  <2> QED BY <2>1, <2>2, WalkedParts
<1>3. TableOk(pt) /\ CopiesOk(MmuNow) /\ Single(MmuNow) BY DEF MmuInv, WalkOk, MmuNow
<1>4. ASSUME NEW x \in Sides, NEW u \in TlbSets, NEW w \in {0, 1}
      PROVE  /\ u # t => tlb'[x][u][w] = tlb[x][u][w]
             /\ u = t => tlb'[x][u][w] = [tlb[x][u][w] EXCEPT !.v = FALSE]
  BY <1>1, <1>2 DEF TlbInvalidateClass
<1>5. ASSUME NEW x \in Sides, NEW u \in TlbSets, NEW w \in {0, 1}
      PROVE  tlb'[x][u][w] \in Entry /\ (u = t => ~tlb'[x][u][w].v)
  <2>1. PICK e : e = tlb[x][u][w] OBVIOUS
  <2>2. e \in Entry BY <1>2, <2>1
  <2>3. [e EXCEPT !.v = FALSE] \in Entry /\ [e EXCEPT !.v = FALSE].v = FALSE
    BY <2>2 DEF Entry
  <2> QED BY <1>4, <2>1, <2>2, <2>3
<1>6. tlb' \in [Sides -> [TlbSets -> [{0, 1} -> Entry]]]
  <2>1. /\ tlb' = [x \in Sides |-> tlb'[x]]
        /\ \A x \in Sides : tlb'[x] = [u \in TlbSets |-> tlb'[x][u]]
        /\ \A x \in Sides, u \in TlbSets : tlb'[x][u] = [w \in {0, 1} |-> tlb'[x][u][w]]
    <3> DEFINE N(x, w) == [tlb[x][t][w] EXCEPT !.v = FALSE]
               R(x) == [w \in {0, 1} |-> N(x, w)]
    <3>1. tlb' = [x \in Sides |-> [tlb[x] EXCEPT ![t] = R(x)]]
      BY <1>1, <1>2 DEF TlbInvalidateClass, TlbSets
    <3> HIDE DEF N, R
    <3>2. tlb' = [x \in Sides |-> tlb'[x]] BY <3>1
    <3>3. ASSUME NEW x \in Sides PROVE tlb'[x] = [tlb[x] EXCEPT ![t] = R(x)]
      BY <3>1
    <3>4. ASSUME NEW x \in Sides PROVE tlb'[x] = [u \in TlbSets |-> tlb'[x][u]]
      BY <1>2, <3>3
    <3>5. ASSUME NEW x \in Sides, NEW u \in TlbSets
          PROVE  tlb'[x][u] = [w \in {0, 1} |-> tlb'[x][u][w]]
      <4>1. CASE u = t
        <5>1. tlb'[x][u] = R(x) BY <1>2, <3>3, <4>1
        <5>2. R(x) = [w \in {0, 1} |-> R(x)[w]] BY DEF R
        <5> QED BY <5>1, <5>2
      <4>2. CASE u # t
        <5>1. tlb'[x][u] = tlb[x][u] BY <1>2, <3>3, <4>2
        <5> QED BY <1>2, <5>1
      <4> QED BY <4>1, <4>2
    <3> QED BY <3>2, <3>4, <3>5
  <2>2. ASSUME NEW x \in Sides, NEW u \in TlbSets
        PROVE  tlb'[x][u] \in [{0, 1} -> Entry]
    BY <1>5, <2>1
  <2>3. ASSUME NEW x \in Sides PROVE tlb'[x] \in [TlbSets -> [{0, 1} -> Entry]]
    BY <2>1, <2>2
  <2> QED BY <2>1, <2>3
<1>7. RegsOk'
  <2>1. changes' \in 0..MaxChanges BY <1>1, ChangedOk DEF MmuInv, RegsOk
  <2> QED BY <1>1, <2>1 DEF MmuInv, RegsOk, regs
<1>8. ASSUME NEW e \in Entries(pt) PROVE Image(e) \in images
  BY <1>3 DEF Entries, TableOk
<1>9. (images \subseteq {Image(e) : e \in PteValues})' BY <1>1, <1>8 DEF MmuInv
<1>10. TableOk(pt)'
  <2> SUFFICES ASSUME NEW h \in Groups, NEW k \in 1..Slots, pt[h][k].v
               PROVE  pt[h][k].page \in Pages /\ Image(pt[h][k]) \in images'
    BY <1>1 DEF TableOk
  <2>1. pt[h][k] \in Entries(pt) BY DEF Entries
  <2> QED BY <1>1, <1>3, <2>1 DEF TableOk
<1>11. ASSUME NEW u, NEW e, u # t, CopyOk(pt, u, e) PROVE CopyOk(pt, u, e)'
  <2> SUFFICES ASSUME e.v PROVE CopyOk(pt, u, e)' BY DEF CopyOk
  <2>1. e.page \in Pages /\ TlbSetOf[e.page] = u /\ Image(e) \in images
    BY <1>11 DEF CopyOk
  <2>2. Image(e).page = e.page BY DEF Image
  <2>3. Image(e) \in images' BY <1>1, <1>11, <2>1, <2>2
  <2>4. <<e.vsid, e.page>> \notin rewritten' => <<e.vsid, e.page>> \notin rewritten
    BY <1>1, <1>11, <2>1
  <2> QED BY <1>1, <1>11, <2>1, <2>3, <2>4 DEF CopyOk
<1>12. CopiesOk(MmuNow)'
  <2> SUFFICES ASSUME NEW y \in Sides, NEW u \in TlbSets, NEW w \in {0, 1}
               PROVE  CopyOk(pt, u, tlb[y][u][w])'
    BY DEF CopiesOk, MmuNow
  <2>1. CASE u = t BY <1>5, <2>1 DEF CopyOk
  <2>2. CASE u # t
    <3>1. PICK e : e = tlb[y][u][w] OBVIOUS
    <3>2. CopyOk(pt, u, e) BY <1>3, <3>1 DEF CopiesOk, MmuNow
    <3>3. CopyOk(pt, u, e)' BY <1>11, <2>2, <3>2
    <3>4. e = tlb'[y][u][w] BY <1>4, <2>2, <3>1
    <3> QED BY <3>3, <3>4
  <2> QED BY <2>1, <2>2
<1>13. Single(MmuNow)'
  <2> SUFFICES ASSUME NEW y \in Sides, NEW u \in TlbSets
               PROVE  Differ(tlb'[y][u][0], tlb'[y][u][1])
    BY DEF Single, MmuNow
  <2>1. CASE u = t BY <1>5, <2>1 DEF Differ
  <2>2. CASE u # t
    <3>1. tlb'[y][u][0] = tlb[y][u][0] /\ tlb'[y][u][1] = tlb[y][u][1]
      BY <1>4, <2>2
    <3> QED BY <1>3, <3>1 DEF Single, MmuNow
  <2> QED BY <2>1, <2>2
<1>14. (MmuNow \in Walked)' BY <1>1, <1>2, <1>6 DEF MmuNow, Walked
<1>15. WalkOk(MmuNow)' BY <1>10, <1>12, <1>13, <1>14 DEF WalkOk, MmuNow
<1>16. StoresOk' BY <1>1 DEF MmuInv, StoresOk
<1>17. FrontsOk' BY <1>1, NoFrontsOk
<1> QED BY <1>7, <1>9, <1>15, <1>16, <1>17 DEF MmuInv

\* Empty TLBs and caches hold nothing that could be wrong.
LEMMA EmptyOk ==
  /\ EmptyTlb \in [Sides -> [TlbSets -> [{0, 1} -> Entry]]]
  /\ ZeroLru \in [Sides -> [TlbSets -> {0, 1}]]
  /\ \A x \in Sides, t \in TlbSets, w \in {0, 1} : ~EmptyTlb[x][t][w].v
<1>1. NoEntry \in Entry /\ NoEntry.v = FALSE
  <2>1. FALSE \in BOOLEAN /\ 0 \in Nat /\ 0 \in Pages \cup {0} /\ 0 \in 0..3
    OBVIOUS
  <2>4. "plain" \in Wimgs BY DEF Wimgs
  <2>2. NoEntry \in Entry BY <2>1, <2>4, Zenon DEF NoEntry, Entry
  <2>3. NoEntry.v = FALSE BY DEF NoEntry
  <2> QED BY <2>2, <2>3
<1> HIDE DEF NoEntry
<1> QED BY <1>1 DEF EmptyTlb, ZeroLru

\* A reset keeps it: TLBs, caches and history start over.
LEMMA ResetStep ==
  ASSUME MmuConstants, MmuInv, Reset
  PROVE  MmuInv'
<1>1. /\ msr' = [ir |-> FALSE, dr |-> FALSE, pr |-> FALSE, le |-> FALSE]
      /\ sr' = ResetSeg /\ bat' = NoBats /\ dabr' = DabrOff
      /\ tlb' = EmptyTlb /\ lru' = ZeroLru /\ front' = NoFronts
      /\ images' = {Image(e) : e \in Entries(pt)} /\ rewritten' = {}
      /\ dirty' = dirty \ rewritten /\ Changed /\ pt' = pt
  BY DEF Reset
<1>2. RegsOk'
  <2>1. changes' \in 0..MaxChanges BY <1>1, ChangedOk DEF MmuInv, RegsOk
  <2>2. msr' \in Msrs BY <1>1 DEF Msrs
  <2>3. bat' \in [Sides -> [1..Bats -> BatValues]] BY <1>1 DEF NoBats, MmuConstants
  <2> QED BY <1>1, <2>1, <2>2, <2>3 DEF RegsOk, MmuConstants
<1>3. TableOk(pt) BY DEF MmuInv, WalkOk, MmuNow
<1>4. (images \subseteq {Image(e) : e \in PteValues})'
  BY <1>1, <1>3 DEF MmuInv, TableOk, Entries
<1>5. TableOk(pt)' BY <1>1, <1>3 DEF TableOk, Entries
<1>6. pt \in [Groups -> [1..Slots -> Ptes]]
  <2>1. MmuNow \in Walked /\ MmuNow.pt = pt BY DEF MmuInv, WalkOk, MmuNow
  <2> QED BY <2>1, WalkedParts
<1>7. (MmuNow \in Walked)' BY <1>1, <1>6, EmptyOk DEF MmuNow, Walked
<1>8. CopiesOk(MmuNow)' BY <1>1, EmptyOk DEF CopiesOk, CopyOk, MmuNow
<1>9. Single(MmuNow)' BY <1>1, EmptyOk DEF Single, Differ, MmuNow
<1>10. WalkOk(MmuNow)' BY <1>5, <1>7, <1>8, <1>9 DEF WalkOk, MmuNow
<1>11. StoresOk' BY <1>1 DEF MmuInv, StoresOk
<1>12. FrontsOk' BY <1>1, NoFrontsOk
<1> QED BY <1>2, <1>4, <1>10, <1>11, <1>12 DEF MmuInv

\* It holds at reset.
LEMMA MmuInitially ==
  ASSUME MmuConstants, MmuInit
  PROVE  MmuInv
<1>1. RegsOk
  <2>1. bat \in [Sides -> [1..Bats -> BatValues]] BY DEF MmuInit, NoBats, MmuConstants
  <2>2. changes \in 0..MaxChanges BY DEF MmuInit, MmuConstants
  <2> QED BY <2>1, <2>2 DEF MmuInit, RegsOk, MmuConstants
<1>2. pt \in [Groups -> [1..Slots -> PteValues]] BY DEF MmuInit, MmuConstants
<1>3. images \subseteq {Image(e) : e \in PteValues}
  <2>1. ASSUME NEW e \in Entries(pt) PROVE e \in PteValues
    <3>1. PICK g \in Groups, k \in 1..Slots : e = pt[g][k] BY <2>1 DEF Entries
    <3>2. pt[g] \in [1..Slots -> PteValues] BY <1>2
    <3> QED BY <3>1, <3>2
  <2>2. images = {Image(e) : e \in Entries(pt)} BY DEF MmuInit
  <2> QED BY <2>1, <2>2
<1>4. TableOk(pt) BY <1>2 DEF TableOk, MmuInit, Entries, MmuConstants
<1>5. MmuNow \in Walked
  <2>1. pt \in [Groups -> [1..Slots -> Ptes]] BY <1>2 DEF MmuConstants
  <2> QED BY <2>1, EmptyOk DEF MmuNow, Walked, MmuInit
<1>6. CopiesOk(MmuNow) /\ Single(MmuNow)
  BY EmptyOk DEF MmuInit, CopiesOk, CopyOk, Single, Differ, MmuNow
<1>7. WalkOk(MmuNow) BY <1>4, <1>5, <1>6 DEF WalkOk, MmuNow
<1>8. FrontsOk
  <2>1. front = [d \in Dirs |-> front[d]] /\ \A d \in Dirs : ~front[d].v
    BY DEF MmuInit, NoFronts, NoFront, Dirs
  <2> QED BY <2>1 DEF FrontsOk, FrontOk, Dirs
<1>9. StoresOk BY DEF MmuInit, StoresOk
<1> QED BY <1>1, <1>3, <1>7, <1>8, <1>9 DEF MmuInv

\* Every access keeps it.
LEMMA AccessStep ==
  ASSUME MmuConstants, MmuInv, Access
  PROVE  MmuInv'
<1>1. CASE \E p \in Pages : FetchDecoded(p)
  BY <1>1, FrontedStep DEF FetchDecoded, Dirs
<1>2. ASSUME NEW p \in Pages, NEW write \in BOOLEAN, Data(p, write) PROVE MmuInv'
  BY <1>2, FrontedStep DEF Data, Dirs
<1>3. ASSUME NEW p \in Pages, NEW write \in BOOLEAN,
             \/ LittleDouble(p, write) \/ CacheOp(p, write)
             \/ \E q \in Pages : Crossing(p, q, write)
      PROVE  MmuInv'
  <2>1. PICK q \in Pages : Parts(p, q, write)
    BY <1>3 DEF LittleDouble, CacheOp, Crossing
  <2> QED BY <2>1, PartsStep
<1> QED BY <1>1, <1>2, <1>3, TrappedStep DEF Access

\* Every change by software keeps it.
LEMMA ChangeStep ==
  ASSUME MmuConstants, MmuInv, Change
  PROVE  MmuInv'
<1>1. CASE \E side \in Sides, b \in 1..Bats, x \in BatValues : MtBat(side, b, x)
  BY <1>1, MtBatStep
<1>2. CASE \E g \in Groups, s \in 1..Slots, x \in PteValues : WritePte(g, s, x)
  BY <1>2, WritePteStep
<1>3. CASE \E p \in Pages : Tlbie(p) BY <1>3, TlbieStep
<1> QED BY <1>1, <1>2, <1>3, MtRegStep, ResetStep DEF Change

\* A step of something else keeps it.
LEMMA MmuStutter ==
  ASSUME MmuInv, UNCHANGED mmuVars
  PROVE  MmuInv'
<1>1. UNCHANGED <<regs, walked, front, relied, changes>> BY DEF mmuVars
<1>2. RegsOk' BY <1>1 DEF MmuInv, RegsOk, regs
<1>3. FrontsOk' BY <1>1, FrontsKept DEF MmuInv, relied, walked, regs
<1> QED BY <1>1, <1>2, <1>3, WalkKept DEF MmuInv

\* The inductive invariant holds in every state.
THEOREM MmuInvariant == ASSUME MmuConstants PROVE MmuSpec => []MmuInv
<1>1. MmuInit => MmuInv BY MmuInitially
<1>2. MmuInv /\ [MmuNext]_mmuVars => MmuInv'
  BY AccessStep, ChangeStep, MmuStutter DEF MmuNext
<1> QED BY <1>1, <1>2, PTL DEF MmuSpec
-----------------------------------------------------------------------------
(* What it is worth. *)

\* What the invariant says of the state of this moment.
LEMMA NowParts ==
  ASSUME WalkOk(MmuNow)
  PROVE  /\ pt \in [Groups -> [1..Slots -> Ptes]]
         /\ tlb \in [Sides -> [TlbSets -> [{0, 1} -> Entry]]]
         /\ lru \in [Sides -> [TlbSets -> {0, 1}]]
<1>1. MmuNow \in Walked BY DEF WalkOk
<1>2. MmuNow.pt = pt /\ MmuNow.tlb = tlb /\ MmuNow.lru = lru BY DEF MmuNow
<1> QED BY <1>1, <1>2, WalkedParts

\* translate keeps every TLB set free of second copies, and keeps the table
\* as marked as the copies it hands out: with any pages, table, programs and
\* changes by software.
THEOREM TlbsAreSound == ASSUME MmuConstants PROVE MmuSpec => []TlbIsSound
<1>1. ASSUME MmuInv PROVE TlbIsSound
  <2>1. WalkOk(MmuNow) BY <1>1 DEF MmuInv
  <2>2. MmuTypeOK BY <1>1, <2>1, NowParts DEF MmuTypeOK, MmuInv, RegsOk
  <2>3. OneCopyPerSet
    <3>1. \A x \in Sides, t \in TlbSets : Differ(tlb[x][t][0], tlb[x][t][1])
      BY <2>1 DEF WalkOk, Single, MmuNow
    <3> QED BY <3>1 DEF OneCopyPerSet, Differ
  <2>4. CopiesAreMarked
    <3> SUFFICES ASSUME NEW x \in Sides, NEW t \in TlbSets, NEW w \in {0, 1},
                        NEW e, e = tlb[x][t][w], e.v,
                        <<e.vsid, e.page>> \notin rewritten
                 PROVE  \E f \in Entries(pt) : Image(f) = Image(e) /\ f.r /\ (e.c => f.c)
      BY DEF CopiesAreMarked
    <3>1. CopyOk(pt, t, e) BY <2>1 DEF WalkOk, CopiesOk, MmuNow
    <3>2. PICK g \in Groups, k \in 1..Slots : Backs(pt[g][k], e) BY <3>1 DEF CopyOk
    <3>3. pt[g][k] \in Entries(pt) BY <3>2 DEF Backs, Entries
    <3> QED BY <3>2, <3>3 DEF Backs
  <2> QED BY <2>2, <2>3, <2>4 DEF TlbIsSound
<1> QED BY <1>1, MmuInvariant, PTL

\* No store reaches a page through the one-page caches, the TLBs or a walk
\* without its table entry being marked changed, unless software is itself
\* rewriting that entry.
THEOREM StoresAreAccounted == ASSUME MmuConstants PROVE MmuSpec => []StoredPagesAreChanged
<1>1. ASSUME MmuInv PROVE StoredPagesAreChanged
  <2> SUFFICES ASSUME NEW vp \in dirty \ rewritten
               PROVE  \E e \in Entries(pt) : <<e.vsid, e.page>> = vp /\ e.c
    BY DEF StoredPagesAreChanged
  <2>1. ChangedIn(pt, vp) BY <1>1 DEF MmuInv, StoresOk
  <2>2. PICK g \in Groups, k \in 1..Slots :
          pt[g][k].v /\ pt[g][k].c /\ vp = <<pt[g][k].vsid, pt[g][k].page>>
    BY <2>1 DEF ChangedIn
  <2>3. pt[g][k] \in Entries(pt) BY <2>2 DEF Entries
  <2> QED BY <2>2, <2>3
<1> QED BY <1>1, MmuInvariant, PTL

\* Whatever layer answers, an access is given only what the registers of the
\* moment, and an entry not yet invalidated, allow.
THEOREM AnswersStayCurrent == ASSUME MmuConstants PROVE MmuSpec => []AnswersAreCurrent
<1>1. ASSUME MmuInv PROVE AnswersAreCurrent
  <2>1. DOMAIN front = Dirs BY <1>1 DEF MmuInv, FrontsOk
  <2> SUFFICES ASSUME NEW d \in Dirs, NEW p \in Pages, NEW a, a = Answer(d, p), a.ok
               PROVE  MayAnswer(d, p, a.pa, a.wimg)
    BY <2>1 DEF AnswersAreCurrent
  <2>2. Good(a, MmuNow, p, d = "w", d = "i") BY <1>1, AnswerGood
  <2>3. May(SideOf(d = "i"), d = "w", Side(d), msr.pr, sr, p, a.pa, a.wimg)
    BY <2>2 DEF Good, Side
  <2> DEFINE side == SideOf(d = "i")
  <2>4. side = (IF d = "i" THEN "i" ELSE "d") /\ (side = "i" <=> d = "i") BY DEF SideOf
  <2>5. BatHits(side, p) = HitsUnder(msr.pr, side, p) BY DEF BatHits, HitsUnder
  <2>6. \A pp : PpAllows(pp, d = "w") = PpUnder(msr.pr, sr, pp, d = "w")
    BY DEF PpAllows, PpUnder, Key
  <2> HIDE DEF side
  <2>7. CASE ~Side(d) BY <2>3, <2>7 DEF May, MayAnswer
  <2>8. CASE Side(d) /\ BatHits(side, p) # {}
    BY <2>3, <2>4, <2>5, <2>8 DEF May, MayAnswer, side
  <2>9. CASE Side(d) /\ BatHits(side, p) = {}
    BY <2>3, <2>4, <2>5, <2>6, <2>9 DEF May, MayAnswer, side
  <2> QED BY <2>7, <2>8, <2>9
<1> QED BY <1>1, MmuInvariant, PTL
=============================================================================
