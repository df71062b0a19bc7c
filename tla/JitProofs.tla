----------------------------- MODULE JitProofs ------------------------------
(***************************************************************************)
(* What Jit promises, for every size of line, page, slot table, cache and  *)
(* arena, every program and every budget.                                  *)
(*                                                                         *)
(* The invariant has three parts.  CodeOk: a way that describes a line     *)
(* owns a block of the arena compiled from the words that are resident if  *)
(* the line is, and every link out of that block leads to a way that       *)
(* describes the target and has the site on record.  InsideBlock: while    *)
(* emitted code runs, some way describes its block, the line under it is   *)
(* resident with its words and is the one the translation gives, and the   *)
(* rest of the line fits the budget.  Behind: there, the counters lag by   *)
(* what rbx holds.  A store can break the first two only by dropping the   *)
(* line, which Dropped captures and flCheck tests.                         *)
(***************************************************************************)
EXTENDS Jit, FiniteSetTheorems, SequenceTheorems, TLAPS

-----------------------------------------------------------------------------
(* Arithmetic of lines and pages.                                           *)

Lines0 == 0..(Lines - 1)
Addr == 0..(Lines * LineWords - 1)

(* The sizes are numbers, and all but three of them positive.               *)
LEMMA Sizes ==
  /\ LineWords \in Nat \ {0} /\ LinesPerPage \in Nat \ {0} /\ Lines \in Nat \ {0}
  /\ Slots \in Nat \ {0} /\ Ways \in Nat \ {0} /\ ArenaBlocks \in Nat \ {0}
  /\ Brefs \in Nat /\ Budget \in Nat /\ MaxWrites \in Nat
BY JitConstants

(* Division with remainder.                                                 *)
LEMMA Euclid ==
  ASSUME NEW m \in Nat, NEW k \in Nat \ {0}
  PROVE  /\ m \div k \in Nat /\ m % k \in 0..(k - 1)
         /\ m = (m \div k) * k + (m % k)
OBVIOUS

(* A quotient and a remainder are the only ones that fit.                   *)
LEMMA EuclidUnique ==
  ASSUME NEW q \in Nat, NEW r \in Nat, NEW k \in Nat \ {0}, r < k
  PROVE  (q * k + r) \div k = q /\ (q * k + r) % k = r
<1> DEFINE m == q * k + r
           Q == m \div k
           R == m % k
<1>1. m \in Nat OBVIOUS
<1>2. Q \in Nat /\ R \in 0..(k - 1) /\ q * k + r = Q * k + R
  BY <1>1, Euclid
<1> HIDE DEF m, Q, R
<1>3. ~(Q > q)
  <2> SUFFICES ASSUME Q > q PROVE FALSE OBVIOUS
  <2>1. Q * k >= (q + 1) * k /\ (q + 1) * k = q * k + k BY <1>2
  <2> QED BY <1>2, <2>1
<1>4. ~(Q < q)
  <2> SUFFICES ASSUME Q < q PROVE FALSE OBVIOUS
  <2>1. q * k >= (Q + 1) * k /\ (Q + 1) * k = Q * k + k BY <1>2
  <2> QED BY <1>2, <2>1
<1>5. Q = q BY <1>2, <1>3, <1>4
<1>6. R = r BY <1>2, <1>5
<1> QED BY <1>5, <1>6 DEF Q, R, m

(* Smaller numbers have smaller quotients.                                  *)
LEMMA EuclidMono ==
  ASSUME NEW m \in Nat, NEW n \in Nat, NEW k \in Nat \ {0}, m <= n
  PROVE  m \div k <= n \div k
<1> DEFINE a == m \div k
           b == n \div k
<1>1. a \in Nat /\ m >= a * k BY Euclid
<1>2. b \in Nat /\ n < (b + 1) * k
  <2>1. b \in Nat /\ n % k \in 0..(k - 1) /\ n = b * k + (n % k) BY Euclid
  <2> HIDE DEF b
  <2>2. (b + 1) * k = b * k + k BY <2>1
  <2> QED BY <2>1, <2>2
<1> HIDE DEF a, b
<1>3. ~(a >= b + 1)
  <2> SUFFICES ASSUME a >= b + 1 PROVE FALSE OBVIOUS
  <2>1. a * k >= (b + 1) * k BY <1>1, <1>2
  <2> QED BY <1>1, <1>2, <2>1
<1> QED BY <1>1, <1>2, <1>3 DEF a, b

(* A line has a slot.                                                       *)
LEMMA SlotType == ASSUME NEW l \in Nat PROVE Slot(l) \in 0..(Slots - 1)
BY Sizes, Euclid DEF Slot

(* An address is a word of a line.                                          *)
LEMMA LineOfType ==
  ASSUME NEW a \in Addr
  PROVE  LineOf(a) \in Lines0 /\ WordOf(a) \in 1..LineWords /\ a = LineOf(a) * LineWords + WordOf(a) - 1
<1>1. a \in Nat /\ a < Lines * LineWords BY Sizes DEF Addr
<1>2. /\ LineOf(a) \in Nat /\ a % LineWords \in 0..(LineWords - 1)
      /\ a = LineOf(a) * LineWords + (a % LineWords)
  BY <1>1, Sizes, Euclid DEF LineOf
<1>3. ~(LineOf(a) >= Lines)
  <2> SUFFICES ASSUME LineOf(a) >= Lines PROVE FALSE OBVIOUS
  <2>1. LineOf(a) * LineWords >= Lines * LineWords BY <1>2, Sizes
  <2> QED BY <1>1, <1>2, <2>1, Sizes
<1> QED BY <1>1, <1>2, <1>3, Sizes DEF Lines0, WordOf

(* The word after word x of a line is in the same line, but for the last.   *)
LEMMA SuccInLine ==
  ASSUME NEW v \in Lines0, NEW x \in 1..LineWords
  PROVE  /\ v * LineWords + x - 1 \in Addr
         /\ Succ(v * LineWords + x - 1) \in Addr
         /\ x < LineWords => Succ(v * LineWords + x - 1) = v * LineWords + (x + 1) - 1
<1> DEFINE n == Lines * LineWords
           p == v * LineWords
<1>1. n \in Nat \ {0} /\ p \in Nat BY Sizes DEF Lines0
<1>2. p + LineWords <= n
  <2>1. v \in Nat /\ v + 1 <= Lines BY Sizes DEF Lines0
  <2>2. (v + 1) * LineWords <= Lines * LineWords BY <2>1, Sizes
  <2>3. (v + 1) * LineWords = v * LineWords + LineWords BY <2>1, Sizes
  <2> QED BY <2>2, <2>3
<1>3. Addr = 0..(n - 1) BY DEF Addr
<1>4. \A a : Succ(a) = (a + 1) % n BY DEF Succ
<1> HIDE DEF n, p
<1>5. p + x - 1 \in Addr BY <1>1, <1>2, <1>3, Sizes
<1>6. Succ(p + x - 1) \in Addr
  <2>1. p + x \in Nat /\ (p + x - 1) + 1 = p + x BY <1>1, Sizes
  <2>2. (p + x) % n \in 0..(n - 1) BY <1>1, <2>1, Euclid
  <2> QED BY <1>3, <1>4, <2>1, <2>2
<1>7. ASSUME x < LineWords PROVE Succ(p + x - 1) = p + (x + 1) - 1
  <2>1. p + x \in Nat /\ (p + x - 1) + 1 = p + x /\ p + x < n BY <1>1, <1>2, <1>7, Sizes
  <2>2. (0 * n + (p + x)) % n = p + x BY <1>1, <2>1, EuclidUnique
  <2> QED BY <1>1, <1>4, <2>1, <2>2, Sizes
<1> QED BY <1>5, <1>6, <1>7 DEF p

(* A line of a page of memory is a line of memory, in that page.            *)
LEMMA PaPage ==
  ASSUME NEW pp \in Nat, NEW v \in Nat
  PROVE  /\ PaOf(pp, v) \in Nat /\ Page(PaOf(pp, v)) = pp
         /\ pp <= Page(Lines - 1) => PaOf(pp, v) \in Lines0
<1> DEFINE r == v % LinesPerPage
           K == Lines \div LinesPerPage
<1>1. r \in 0..(LinesPerPage - 1) BY Sizes, Euclid
<1>2. PaOf(pp, v) = pp * LinesPerPage + r BY DEF PaOf
<1>3. K \in Nat /\ Lines = K * LinesPerPage
  BY Sizes, Euclid, JitConstants
<1> HIDE DEF r, K
<1>4. PaOf(pp, v) \in Nat BY <1>1, <1>2, Sizes
<1>5. Page(PaOf(pp, v)) = pp
  <2>1. r \in Nat /\ r < LinesPerPage /\ LinesPerPage \in Nat \ {0} BY <1>1, Sizes
  <2>2. (pp * LinesPerPage + r) \div LinesPerPage = pp BY <2>1, EuclidUnique
  <2> QED BY <1>2, <2>2 DEF Page
<1>6. ASSUME pp <= Page(Lines - 1) PROVE PaOf(pp, v) \in Lines0
  <2>1. Page(Lines - 1) * LinesPerPage <= Lines - 1 /\ Page(Lines - 1) \in Nat
    <3>1. Lines - 1 \in Nat BY Sizes
    <3> QED BY <3>1, Sizes, Euclid DEF Page
  <2>2. pp < K
    <3> SUFFICES ASSUME pp >= K PROVE FALSE BY <1>3
    <3>1. pp * LinesPerPage >= K * LinesPerPage BY <1>3, Sizes
    <3>2. Page(Lines - 1) * LinesPerPage >= pp * LinesPerPage BY <1>6, <2>1, Sizes
    <3> QED BY <1>3, <2>1, <3>1, <3>2, Sizes
  <2>3. (pp + 1) * LinesPerPage <= K * LinesPerPage BY <1>3, <2>2, Sizes
  <2>4. (pp + 1) * LinesPerPage = pp * LinesPerPage + LinesPerPage BY Sizes
  <2> QED BY <1>1, <1>2, <1>3, <2>3, <2>4, Sizes DEF Lines0
<1> QED BY <1>4, <1>5, <1>6

(* A line of memory is in a page of memory.                                 *)
LEMMA PageType ==
  ASSUME NEW l \in Lines0
  PROVE  Page(l) \in Nat /\ Page(l) <= Page(Lines - 1)
<1>1. l \in Nat /\ Lines - 1 \in Nat /\ l <= Lines - 1 BY Sizes DEF Lines0
<1> QED BY <1>1, Sizes, Euclid, EuclidMono DEF Page

(* A set of numbers has a smallest element, which First chooses.            *)
LEMMA FirstIsOne ==
  ASSUME NEW T, T \subseteq Nat, T # {}
  PROVE  First(T) \in T
<1>1. PICK x \in T : \A y \in T : ~(<<y, x>> \in OpToRel(<, Nat))
  BY WFMin, NatLessThanWellFounded, Zenon
<1>2. ASSUME NEW y \in T PROVE x <= y
  <2>1. ~(<<y, x>> \in {ss \in Nat \X Nat : ss[1] < ss[2]})
    BY <1>1 DEF OpToRel
  <2> QED BY <2>1
<1> QED BY <1>2 DEF First
-----------------------------------------------------------------------------
(* What an instruction may do.                                              *)

MsrSet == [ir: BOOLEAN, ee: BOOLEAN, fe: BOOLEAN]
FlSet == [0..(Slots - 1) -> [base: 0..Lines, w: Contents]]
MemSet == [Lines0 -> Contents]
XlSet == [ok: BOOLEAN, page: Nat, ir: BOOLEAN, pp: Nat]

(* The machine outside the cache.                                           *)
Outside ==
  /\ mem \in MemSet /\ msr \in MsrSet /\ alt \in BOOLEAN /\ irq \in BOOLEAN
  /\ brk \in BOOLEAN /\ writes \in 0..MaxWrites

(* A fetch line may have been dropped, and nothing else happened to it.     *)
Dropped(f, g) ==
  /\ g \in FlSet
  /\ \A s \in 0..(Slots - 1) : g[s].w = f[s].w /\ g[s].base \in {f[s].base, NoLine}

OutcomeSet ==
  [mem: MemSet, fl: FlSet, xl: XlSet, msr: MsrSet, alt: BOOLEAN, irq: BOOLEAN,
   writes: 0..MaxWrites, brk: BOOLEAN, pc: Addr, trapped: BOOLEAN]

(* A write drops the fetch line it hits and touches no other.               *)
LEMMA DropAtDrops ==
  ASSUME NEW f \in FlSet, NEW l \in Lines0
  PROVE  Dropped(f, FetchDropAt(f, l))
<1>1. l \in Nat /\ NoLine \in 0..Lines BY Sizes DEF Lines0, NoLine
<1>2. Slot(l) \in 0..(Slots - 1) BY <1>1, SlotType
<1> QED BY <1>1, <1>2 DEF Dropped, FetchDropAt, FlSet

(* What the rest of the proof needs to know of an outcome.                  *)
OutcomeOk(i, cia, f, x, o) ==
  /\ o \in OutcomeSet
  /\ Dropped(f, o.fl)
  /\ o.xl # x => o.brk
  /\ o.trapped => i.op = "fp"
  /\ i.op \in {"alu", "br"} => o.xl = x /\ o.fl = f /\ o.mem = mem /\ o.msr = msr
       /\ o.alt = alt /\ o.irq = irq /\ o.writes = writes /\ o.brk = brk
       /\ o.trapped = FALSE
  /\ i.op = "alu" => o.pc = Succ(cia)
  /\ i.op = "br" => o.pc \in {Succ(cia), i.to}
  /\ i.op = "fp" => o.xl = x /\ o.fl = f /\ o.brk = brk
                     /\ (o.trapped \/ o.pc = Succ(cia))

(* Every outcome of an instruction the emitter knows is of this kind.       *)
LEMMA OutcomeFacts ==
  ASSUME Outside, NEW i, NEW cia, NEW f \in FlSet, NEW x \in XlSet,
         i.op \in {"alu", "mem", "fp", "br", "mtmsr", "remap"},
         i.op = "br" => i.to \in Addr, Succ(cia) \in Addr,
         NEW o \in Outcomes(i, cia, f, x)
  PROVE  OutcomeOk(i, cia, f, x, o)
<1> SUFFICES /\ o \in OutcomeSet
             /\ Dropped(f, o.fl)
             /\ o.xl # x => o.brk
             /\ o.trapped => i.op = "fp"
             /\ i.op \in {"alu", "br"} => o.xl = x /\ o.fl = f /\ o.mem = mem /\ o.msr = msr
                  /\ o.alt = alt /\ o.irq = irq /\ o.writes = writes /\ o.brk = brk
                  /\ o.trapped = FALSE
             /\ i.op = "alu" => o.pc = Succ(cia)
             /\ i.op = "br" => o.pc \in {Succ(cia), i.to}
             /\ i.op = "fp" => o.xl = x /\ o.fl = f /\ o.brk = brk
                                /\ (o.trapped \/ o.pc = Succ(cia))
  BY Zenon DEF OutcomeOk
<1> DEFINE F == Fallthrough(cia, f, x)
<1>1. F \in OutcomeSet /\ F.fl = f /\ F.xl = x /\ F.trapped = FALSE /\ F.mem = mem /\ F.msr = msr
      /\ F.alt = alt /\ F.irq = irq /\ F.writes = writes /\ F.brk = brk /\ F.pc = Succ(cia)
  BY DEF Fallthrough, OutcomeSet, Outside
<1>2. Dropped(f, f) BY DEF Dropped, FlSet
<1>3. Vector \in Addr /\ NoMsr \in MsrSet BY JitConstants DEF Addr, NoMsr, MsrSet
<1> HIDE DEF F
<1>4. Exception(F) \in OutcomeSet /\ Exception(F).fl = f /\ Exception(F).xl = x
      /\ Exception(F).trapped = FALSE /\ Exception(F).brk = brk
  BY <1>1, <1>3 DEF Exception, OutcomeSet
<1>5. CASE i.op = "alu"
  <2>1. o = F BY <1>5 DEF Outcomes, F
  <2> QED BY <1>1, <1>2, <1>5, <2>1 DEF F
<1>6. CASE i.op = "br"
  <2>1. o = F \/ o = [F EXCEPT !.pc = i.to] BY <1>6 DEF Outcomes, F
  <2>2. CASE o = F BY <1>1, <1>2, <1>6, <2>2 DEF F
  <2>3. CASE o = [F EXCEPT !.pc = i.to]
    <3>1. /\ o \in OutcomeSet /\ o.fl = f /\ o.xl = x /\ o.trapped = FALSE /\ o.pc = i.to
          /\ o.mem = mem /\ o.msr = msr /\ o.alt = alt /\ o.irq = irq /\ o.writes = writes
          /\ o.brk = brk
      BY <1>1, <1>6, <2>3 DEF OutcomeSet
    <3> QED BY <1>2, <1>6, <2>3, <3>1 DEF F
  <2> QED BY <2>1, <2>2, <2>3
<1>7. CASE i.op = "fp"
  <2>1. \/ o = F \/ o = [Exception(F) EXCEPT !.trapped = TRUE]
    BY <1>7 DEF Outcomes, F
  <2>2. CASE o = F BY <1>1, <1>2, <1>7, <2>2
  <2>3. CASE o = [Exception(F) EXCEPT !.trapped = TRUE]
    <3>1. o \in OutcomeSet /\ o.fl = f /\ o.xl = x /\ o.brk = brk /\ o.trapped
      BY <1>4, <2>3 DEF OutcomeSet
    <3> QED BY <1>2, <1>7, <3>1
  <2> QED BY <2>1, <2>2, <2>3
<1>8. CASE i.op = "mtmsr"
  <2>1. PICK v \in Msrs : o = [F EXCEPT !.msr = v] BY <1>8 DEF Outcomes, F
  <2>2. v \in MsrSet BY JitConstants DEF MsrSet
  <2>3. o \in OutcomeSet /\ o.fl = f /\ o.xl = x /\ o.trapped = FALSE
    BY <1>1, <2>1, <2>2 DEF OutcomeSet
  <2> QED BY <1>2, <1>8, <2>3
<1>9. CASE i.op = "remap"
  <2>1. o = [F EXCEPT !.alt = ~alt, !.brk = TRUE, !.xl.ok = FALSE] BY <1>9 DEF Outcomes, F
  <2>2. o \in OutcomeSet /\ o.fl = f /\ o.brk = TRUE /\ o.trapped = FALSE
    BY <1>1, <2>1 DEF OutcomeSet, XlSet, Outside
  <2> QED BY <1>2, <1>9, <2>2
<1>10. CASE i.op = "mem"
  <2>1. o \in MemOutcomes(F) BY <1>10 DEF Outcomes, F
  <2>2. CASE o = F BY <1>1, <1>2, <1>10, <2>2
  <2>3. CASE o = Exception(F) BY <1>2, <1>4, <1>10, <2>3
  <2>4. CASE o = [F EXCEPT !.brk = TRUE, !.irq = TRUE]
    <3>1. o \in OutcomeSet /\ o.fl = f /\ o.xl = x /\ o.trapped = FALSE
      BY <1>1, <2>4 DEF OutcomeSet
    <3> QED BY <1>2, <1>10, <3>1
  <2>5. CASE o \in Writes(F)
    <3>1. writes # MaxWrites BY <2>5 DEF Writes
    <3>2. PICK l \in Lines0, c \in Patches : o = Written(F, l, c)
      BY <2>5, <3>1 DEF Writes, Lines0
    <3>3. c \in Contents /\ writes + 1 \in 0..MaxWrites
      BY <3>1, Sizes, JitConstants DEF Outside
    <3>4. Dropped(f, FetchDropAt(f, l)) BY DropAtDrops
    <3> DEFINE d == FetchDropAt(f, l)
    <3>5. d \in FlSet BY <3>4 DEF Dropped
    <3>6. o = [F EXCEPT !.mem = [mem EXCEPT ![l] = c], !.fl = d, !.writes = writes + 1]
      BY <1>1, <3>2 DEF Written, OutcomeSet
    <3> HIDE DEF d
    <3>7. o \in OutcomeSet /\ o.fl = d /\ o.xl = x /\ o.trapped = FALSE
      BY <1>1, <3>3, <3>5, <3>6 DEF OutcomeSet, MemSet
    <3> QED BY <1>10, <3>4, <3>7 DEF d
  <2> QED BY <2>1, <2>2, <2>3, <2>4, <2>5 DEF MemOutcomes
<1> QED BY <1>5, <1>6, <1>7, <1>8, <1>9, <1>10
-----------------------------------------------------------------------------
(* The cache.                                                               *)

Sites == 1..(LineWords + 1)
WaySet == [base: 0..Lines, va: Lines0, srcW: Contents \cup {<<>>}, blk: Nat,
           bref: SUBSET (Nat \X Nat)]
WaysSet == [0..(Slots - 1) -> [1..Ways -> WaySet]]

(* Exit x of block b leads where it says, and the way it leads to can undo  *)
(* the link.                                                                *)
LinkOk(ws, ar, b, x) ==
  LET v == LineOf(Target(ar[b], x))
      l == PaOf(Page(ar[b].base), v)
  IN  /\ l \in Lines0
      /\ \E j \in 1..Ways : /\ ws[Slot(l)][j].base = l
                            /\ ws[Slot(l)][j].va = v
                            /\ ws[Slot(l)][j].blk = ar[b].site[x]
                            /\ <<b, x>> \in ws[Slot(l)][j].bref

(* A way that describes a line has the block of that line, compiled from    *)
(* the words that are resident if the line is, with links that can be       *)
(* undone.                                                                  *)
Described(f, ar, s, jl) ==
  /\ Slot(jl.base) = s /\ jl.blk \in 1..Len(ar)
  /\ ar[jl.blk].base = jl.base /\ ar[jl.blk].va = jl.va /\ ar[jl.blk].w = jl.srcW
  /\ f[s].base = jl.base => f[s].w = jl.srcW

CodeOk(f, ws, ar) ==
  /\ ws \in WaysSet /\ ar \in Seq(Blocks) /\ Len(ar) <= ArenaBlocks
  /\ \A s \in 0..(Slots - 1), k \in 1..Ways :
        /\ IsFiniteSet(ws[s][k].bref) /\ Cardinality(ws[s][k].bref) <= Brefs
        /\ ws[s][k].base # NoLine =>
              /\ Described(f, ar, s, ws[s][k])
              /\ \A x \in Sites : ar[ws[s][k].blk].site[x] \notin {Thunk, Park} =>
                    LinkOk(ws, ar, ws[s][k].blk, x)

(* A function on the domain of a sequence is one of the same length.        *)
LEMMA SeqByDomain ==
  ASSUME NEW S, NEW a \in Seq(S), NEW c \in [DOMAIN a -> S]
  PROVE  c \in Seq(S) /\ Len(c) = Len(a) /\ DOMAIN c = 1..Len(a)
<1>1. Len(a) \in Nat /\ DOMAIN a = 1..Len(a) BY LenProperties
<1>2. c \in [1..Len(a) -> S] BY <1>1
<1>3. c \in Seq(S) BY <1>1, <1>2, SeqDef
<1>4. Len(c) \in Nat /\ DOMAIN c = 1..Len(c) BY <1>3, LenProperties
<1>5. 1..Len(c) = 1..Len(a) BY <1>2, <1>4
<1>6. Len(c) = Len(a) BY <1>1, <1>4, <1>5
<1> QED BY <1>2, <1>3, <1>6

(* sever changes the recorded sites and nothing else.                       *)
LEMMA SeverFacts ==
  ASSUME NEW a \in Seq(Blocks), NEW S
  PROVE  /\ Sever(a, S) \in Seq(Blocks) /\ Len(Sever(a, S)) = Len(a)
         /\ \A b \in 1..Len(a) :
              /\ Sever(a, S)[b].base = a[b].base /\ Sever(a, S)[b].va = a[b].va
              /\ Sever(a, S)[b].w = a[b].w
              /\ \A x \in Sites : Target(Sever(a, S)[b], x) = Target(a[b], x)
              /\ \A x \in Sites : Sever(a, S)[b].site[x] =
                                     IF <<b, x>> \in S THEN Thunk ELSE a[b].site[x]
<1>1. Len(a) \in Nat /\ DOMAIN a = 1..Len(a) BY LenProperties
<1>2. ASSUME NEW b \in 1..Len(a)
      PROVE  /\ Sever(a, S)[b] \in Blocks
             /\ Sever(a, S)[b].base = a[b].base /\ Sever(a, S)[b].va = a[b].va
             /\ Sever(a, S)[b].w = a[b].w
             /\ \A x \in Sites : Sever(a, S)[b].site[x] =
                                     IF <<b, x>> \in S THEN Thunk ELSE a[b].site[x]
  <2>1. a[b] \in Blocks BY ElementOfSeq
  <2> DEFINE st == [x \in Sites |-> IF <<b, x>> \in S THEN Thunk ELSE a[b].site[x]]
  <2>2. DOMAIN a[b].site = Sites BY <2>1 DEF Blocks, Sites
  <2>3. Sever(a, S)[b] = [a[b] EXCEPT !.site = st]
    BY <1>1, <2>1, <2>2 DEF Sever, Blocks
  <2>4. st \in [1..(LineWords + 1) -> 0..(ArenaBlocks + 1)]
    <3>1. a[b].site \in [Sites -> 0..(ArenaBlocks + 1)] BY <2>1 DEF Blocks, Sites
    <3>2. Thunk \in 0..(ArenaBlocks + 1) BY Sizes DEF Thunk
    <3>3. \A x \in Sites : (IF <<b, x>> \in S THEN Thunk ELSE a[b].site[x]) \in 0..(ArenaBlocks + 1)
      BY <3>1, <3>2
    <3> QED BY <3>3, Zenon DEF Sites
  <2>5. \A x \in Sites : st[x] = IF <<b, x>> \in S THEN Thunk ELSE a[b].site[x] OBVIOUS
  <2> HIDE DEF st
  <2> QED BY <2>1, <2>3, <2>4, <2>5 DEF Blocks
<1>3. Sever(a, S) \in [DOMAIN a -> Blocks]
  <2>1. Sever(a, S) = [b \in DOMAIN a |-> Sever(a, S)[b]] BY DEF Sever
  <2> QED BY <1>1, <1>2, <2>1
<1>4. Sever(a, S) \in Seq(Blocks) /\ Len(Sever(a, S)) = Len(a)
  BY <1>3, SeqByDomain
<1>5. ASSUME NEW b \in 1..Len(a), NEW x \in Sites
      PROVE  Target(Sever(a, S)[b], x) = Target(a[b], x)
  BY <1>2 DEF Target, LineAfter
<1> QED BY <1>2, <1>4, <1>5

(* Dropping fetch lines keeps the cache sound.                              *)
LEMMA DropKeeps ==
  ASSUME NEW f, NEW g, NEW ws, NEW ar, CodeOk(f, ws, ar), Dropped(f, g)
  PROVE  CodeOk(g, ws, ar)
<1>1. ASSUME NEW s \in 0..(Slots - 1), NEW k \in 1..Ways, ws[s][k].base # NoLine
      PROVE  Described(g, ar, s, ws[s][k])
  BY <1>1 DEF CodeOk, Described, Dropped
<1> QED BY <1>1 DEF CodeOk

(* A dead way.                                                              *)
LEMMA DeadFacts ==
  /\ Dead \in WaySet /\ Dead.base = NoLine /\ Dead.bref = {}
  /\ IsFiniteSet(Dead.bref) /\ Cardinality(Dead.bref) <= Brefs
<1>1. Dead \in WaySet /\ Dead.base = NoLine /\ Dead.bref = {}
  BY Sizes DEF Dead, WaySet, NoLine, Lines0
<1> QED BY <1>1, FS_EmptySet, Sizes

(* Ways may be given up if the sites recorded for them are severed.         *)
Killed(ws, D, S, ws2) ==
  /\ ws2 \in WaysSet
  /\ \A s \in 0..(Slots - 1), k \in 1..Ways :
       /\ <<s, k>> \in D => ws[s][k].bref \subseteq S
       /\ ws2[s][k] = IF <<s, k>> \in D THEN Dead ELSE ws[s][k]

(* Killing ways and severing what they recorded leaves the cache in order.  *)
LEMMA KillKeeps ==
  ASSUME NEW f, NEW ws, NEW ar, NEW S, NEW D, NEW ws2,
         CodeOk(f, ws, ar), Killed(ws, D, S, ws2)
  PROVE  CodeOk(f, ws2, Sever(ar, S))
<1>0. /\ ws2 \in WaysSet
      /\ \A s \in 0..(Slots - 1), k \in 1..Ways :
           /\ <<s, k>> \in D => ws[s][k].bref \subseteq S
           /\ ws2[s][k] = IF <<s, k>> \in D THEN Dead ELSE ws[s][k]
  BY DEF Killed
<1> DEFINE ar2 == Sever(ar, S)
<1>1. /\ ar2 \in Seq(Blocks) /\ Len(ar2) = Len(ar)
      /\ \A b \in 1..Len(ar) :
            /\ ar2[b].base = ar[b].base /\ ar2[b].va = ar[b].va /\ ar2[b].w = ar[b].w
            /\ \A x \in Sites : Target(ar2[b], x) = Target(ar[b], x)
            /\ \A x \in Sites : ar2[b].site[x] =
                                   IF <<b, x>> \in S THEN Thunk ELSE ar[b].site[x]
  BY SeverFacts DEF CodeOk
<1> HIDE DEF ar2
<1>2. ASSUME NEW s \in 0..(Slots - 1), NEW k \in 1..Ways
      PROVE  /\ IsFiniteSet(ws2[s][k].bref) /\ Cardinality(ws2[s][k].bref) <= Brefs
             /\ ws2[s][k].base # NoLine => Described(f, ar2, s, ws2[s][k])
  <2>1. CASE <<s, k>> \in D
    BY <1>0, <2>1, DeadFacts
  <2>2. CASE <<s, k>> \notin D
    <3>1. ws2[s][k] = ws[s][k] BY <1>0, <2>2
    <3>2. /\ IsFiniteSet(ws[s][k].bref) /\ Cardinality(ws[s][k].bref) <= Brefs
          /\ ws[s][k].base # NoLine => Described(f, ar, s, ws[s][k])
      BY DEF CodeOk
    <3>3. ASSUME ws[s][k].base # NoLine PROVE Described(f, ar2, s, ws[s][k])
      BY <1>1, <3>2, <3>3 DEF Described
    <3> QED BY <3>1, <3>2, <3>3
  <2> QED BY <2>1, <2>2
<1>3. ASSUME NEW s \in 0..(Slots - 1), NEW k \in 1..Ways, ws2[s][k].base # NoLine,
             NEW x \in Sites, ar2[ws2[s][k].blk].site[x] \notin {Thunk, Park}
      PROVE  LinkOk(ws2, ar2, ws2[s][k].blk, x)
  <2>1. ws2[s][k] = ws[s][k] BY <1>0, <1>3, DeadFacts
  <2> DEFINE b == ws[s][k].blk
             v == LineOf(Target(ar[b], x))
             l == PaOf(Page(ar[b].base), v)
  <2>2. b \in 1..Len(ar) BY <1>3, <2>1 DEF CodeOk, Described
  <2>3. <<b, x>> \notin S /\ ar2[b].site[x] = ar[b].site[x]
    BY <1>1, <1>3, <2>1, <2>2
  <2>4. LinkOk(ws, ar, b, x)
    BY <1>3, <2>1, <2>3 DEF CodeOk
  <2>5. PICK j \in 1..Ways : /\ l \in Lines0
                             /\ ws[Slot(l)][j].base = l /\ ws[Slot(l)][j].va = v
                             /\ ws[Slot(l)][j].blk = ar[b].site[x]
                             /\ <<b, x>> \in ws[Slot(l)][j].bref
    BY <2>4 DEF LinkOk
  <2>6. v = LineOf(Target(ar2[b], x)) /\ l = PaOf(Page(ar2[b].base), v)
    BY <1>1, <2>2
  <2> HIDE DEF b, l, v
  <2>7. Slot(l) \in 0..(Slots - 1) BY <2>5, SlotType, Sizes DEF Lines0
  <2>8. <<Slot(l), j>> \notin D BY <1>0, <2>3, <2>5, <2>7
  <2>9. ws2[Slot(l)][j] = ws[Slot(l)][j] BY <1>0, <2>7, <2>8
  <2>10. LinkOk(ws2, ar2, b, x) BY <2>3, <2>5, <2>6, <2>9 DEF LinkOk
  <2> QED BY <2>1, <2>10 DEF b
<1> QED BY <1>0, <1>1, <1>2, <1>3 DEF CodeOk, ar2

(* jitNoteRefill, with the line it is about to make resident.               *)
LEMMA RefillKeeps ==
  ASSUME NEW f \in FlSet, NEW l \in Lines0, NEW w \in Contents, CodeOk(f, ways, arena),
         JitNoteRefill(Slot(l), l, w)
  PROVE  CodeOk([f EXCEPT ![Slot(l)] = [base |-> l, w |-> w]], ways', arena')
<1> DEFINE s == Slot(l)
           K == Stale(s, l, w)
           D == {<<s, k>> : k \in K}
           S == UNION {ways[s][k].bref : k \in K}
           g == [f EXCEPT ![s] = [base |-> l, w |-> w]]
<1>1. s \in 0..(Slots - 1) /\ l \in Nat /\ l # NoLine BY SlotType, Sizes DEF Lines0, NoLine
<1>2. K \subseteq 1..Ways BY DEF Stale
<1>3. arena' = Sever(arena, S)
      /\ ways' = [ways EXCEPT ![s] = [k \in 1..Ways |-> IF k \in K THEN Dead ELSE @[k]]]
  BY DEF JitNoteRefill
<1>4. ways \in WaysSet BY DEF CodeOk
<1>5. \A k \in 1..Ways : k \in K <=> ways[s][k].base = l /\ ways[s][k].srcW # w BY DEF Stale
<1> HIDE DEF s, K
<1>6. /\ ways' \in WaysSet
      /\ \A t \in 0..(Slots - 1), k \in 1..Ways :
            ways'[t][k] = IF t = s /\ k \in K THEN Dead ELSE ways[t][k]
  BY <1>1, <1>3, <1>4, DeadFacts DEF WaysSet
<1>7. \A t \in 0..(Slots - 1), k \in 1..Ways : <<t, k>> \in D <=> t = s /\ k \in K
  OBVIOUS
<1>8. ASSUME NEW k \in K PROVE ways[s][k].bref \subseteq S
  BY <1>8
<1> HIDE DEF D, S
<1>9. Killed(ways, D, S, ways')
  <2>1. ASSUME NEW t \in 0..(Slots - 1), NEW k \in 1..Ways
        PROVE  /\ <<t, k>> \in D => ways[t][k].bref \subseteq S
               /\ ways'[t][k] = IF <<t, k>> \in D THEN Dead ELSE ways[t][k]
    <3>1. CASE t = s /\ k \in K
      <4>1. <<t, k>> \in D /\ ways'[t][k] = Dead BY <1>6, <1>7, <3>1
      <4>2. ways[t][k].bref \subseteq S BY <1>8, <3>1
      <4> QED BY <4>1, <4>2
    <3>2. CASE ~(t = s /\ k \in K)
      <4>1. <<t, k>> \notin D /\ ways'[t][k] = ways[t][k] BY <1>6, <1>7, <3>2
      <4> QED BY <4>1
    <3> QED BY <3>1, <3>2
  <2> QED BY <1>6, <2>1 DEF Killed
<1>10. CodeOk(f, ways', arena')
  <2>1. CodeOk(f, ways', Sever(arena, S)) BY <1>9, KillKeeps
  <2> QED BY <1>3, <2>1
<1>11. ASSUME NEW t \in 0..(Slots - 1), NEW k \in 1..Ways, ways'[t][k].base # NoLine
       PROVE  Described(g, arena', t, ways'[t][k])
  <2>1. Described(f, arena', t, ways'[t][k]) BY <1>10, <1>11 DEF CodeOk
  <2>2. g[t].base = ways'[t][k].base => g[t].w = ways'[t][k].srcW
    <3>1. CASE t = s
      <4>1. g[t].base = l /\ g[t].w = w BY <1>1, <3>1 DEF FlSet
      <4>2. k \notin K /\ ways'[t][k] = ways[t][k] BY <1>6, <1>11, <3>1, DeadFacts
      <4> QED BY <1>5, <3>1, <4>1, <4>2
    <3>2. CASE t # s
      <4>1. g[t] = f[t] BY <3>2 DEF FlSet
      <4> QED BY <2>1, <4>1 DEF Described
    <3> QED BY <3>1, <3>2
  <2> QED BY <2>1, <2>2 DEF Described
<1> HIDE DEF g
<1>12. CodeOk(g, ways', arena') BY <1>10, <1>11 DEF CodeOk
<1> QED BY <1>12 DEF g, s

(* Everything may be dropped.                                               *)
LEMMA DropAllKeeps ==
  ASSUME NEW f, NEW ws \in WaysSet, NEW ar \in Seq(Blocks), Len(ar) <= ArenaBlocks
  PROVE  DropAll(ws) \in WaysSet /\ CodeOk(f, DropAll(ws), ar)
         /\ \A s \in 0..(Slots - 1), k \in 1..Ways : DropAll(ws)[s][k] = Dead
<1>1. DropAll(ws) = [s \in 0..(Slots - 1) |-> [k \in 1..Ways |-> Dead]]
  BY DEF DropAll, WaysSet
<1>2. DropAll(ws) \in WaysSet BY <1>1, DeadFacts DEF WaysSet
<1>3. \A s \in 0..(Slots - 1), k \in 1..Ways : DropAll(ws)[s][k] = Dead
  BY <1>1
<1> QED BY <1>2, <1>3, DeadFacts DEF CodeOk

(* A new block and a way that describes it, in the place of a dead way.     *)
LEMMA InstallKeeps ==
  ASSUME NEW f \in FlSet, NEW ws, NEW ar, CodeOk(f, ws, ar), Len(ar) < ArenaBlocks,
         NEW l \in Lines0, NEW v \in Lines0, NEW k \in 1..Ways,
         ws[Slot(l)][k].base = NoLine, f[Slot(l)].base = l,
         NEW jl, jl = [base |-> l, va |-> v, srcW |-> f[Slot(l)].w,
                       blk |-> Len(ar) + 1, bref |-> {}]
  PROVE  CodeOk(f, [ws EXCEPT ![Slot(l)][k] = jl], Append(ar, Fresh(l, v, f[Slot(l)].w)))
<1> DEFINE s == Slot(l)
           w == f[s].w
           blk == Fresh(l, v, w)
           ws2 == [ws EXCEPT ![s][k] = jl]
           ar2 == Append(ar, blk)
<1>1. s \in 0..(Slots - 1) /\ l \in Nat /\ l # NoLine BY SlotType, Sizes DEF Lines0, NoLine
<1>2. w \in Contents BY <1>1 DEF FlSet
<1>3. blk \in Blocks /\ blk.base = l /\ blk.va = v /\ blk.w = w
      /\ \A x \in Sites : blk.site[x] = Thunk
  BY <1>2, Sizes DEF Fresh, Blocks, Thunk, Lines0, Sites
<1>4. ws \in WaysSet /\ ar \in Seq(Blocks) /\ Len(ar) \in Nat
  BY LenProperties DEF CodeOk
<1> HIDE DEF blk
<1>5. /\ ar2 \in Seq(Blocks) /\ Len(ar2) = Len(ar) + 1
      /\ \A i \in 1..Len(ar) : ar2[i] = ar[i]
      /\ ar2[Len(ar) + 1] = blk
  BY <1>3, <1>4, AppendProperties
<1>6. jl \in WaySet /\ jl.base = l /\ jl.va = v /\ jl.srcW = w /\ jl.blk = Len(ar) + 1
      /\ jl.bref = {}
  BY <1>2, <1>4, Sizes DEF WaySet, Lines0
<1> HIDE DEF s, w, ar2
<1>7. /\ ws2 \in WaysSet
      /\ \A t \in 0..(Slots - 1), j \in 1..Ways :
            ws2[t][j] = IF t = s /\ j = k THEN jl ELSE ws[t][j]
  BY <1>1, <1>4, <1>6 DEF WaysSet
<1> HIDE DEF ws2
<1>8. ASSUME NEW t \in 0..(Slots - 1), NEW j \in 1..Ways
      PROVE  /\ IsFiniteSet(ws2[t][j].bref) /\ Cardinality(ws2[t][j].bref) <= Brefs
             /\ ws2[t][j].base # NoLine => Described(f, ar2, t, ws2[t][j])
  <2>1. CASE t = s /\ j = k
    <3>1. ws2[t][j] = jl BY <1>7, <2>1
    <3>2. IsFiniteSet(jl.bref) /\ Cardinality(jl.bref) <= Brefs
      BY <1>6, FS_EmptySet, Sizes
    <3>3. Described(f, ar2, t, jl)
      BY <1>3, <1>4, <1>5, <1>6, <2>1 DEF Described, s, w
    <3> QED BY <3>1, <3>2, <3>3
  <2>2. CASE ~(t = s /\ j = k)
    <3>1. ws2[t][j] = ws[t][j] BY <1>7, <2>2
    <3>2. ws[t][j].base # NoLine => Described(f, ar, t, ws[t][j]) BY DEF CodeOk
    <3>3. ws[t][j].base # NoLine => Described(f, ar2, t, ws[t][j])
      BY <1>4, <1>5, <3>2 DEF Described
    <3> QED BY <3>1, <3>3 DEF CodeOk
  <2> QED BY <2>1, <2>2
<1>9. ASSUME NEW t \in 0..(Slots - 1), NEW j \in 1..Ways, ws2[t][j].base # NoLine,
             NEW x \in Sites, ar2[ws2[t][j].blk].site[x] \notin {Thunk, Park}
      PROVE  LinkOk(ws2, ar2, ws2[t][j].blk, x)
  <2>1. ~(t = s /\ j = k) /\ ws2[t][j] = ws[t][j]
    BY <1>3, <1>5, <1>6, <1>7, <1>9
  <2> DEFINE b == ws[t][j].blk
             u == LineOf(Target(ar[b], x))
             m == PaOf(Page(ar[b].base), u)
  <2>2. b \in 1..Len(ar) BY <1>9, <2>1 DEF CodeOk, Described
  <2>3. ar2[b] = ar[b] BY <1>5, <2>2
  <2>4. LinkOk(ws, ar, b, x) BY <1>9, <2>1, <2>3 DEF CodeOk
  <2>5. PICK i \in 1..Ways : /\ m \in Lines0
                             /\ ws[Slot(m)][i].base = m /\ ws[Slot(m)][i].va = u
                             /\ ws[Slot(m)][i].blk = ar[b].site[x]
                             /\ <<b, x>> \in ws[Slot(m)][i].bref
    BY <2>4 DEF LinkOk
  <2>6. u = LineOf(Target(ar2[b], x)) /\ m = PaOf(Page(ar2[b].base), u)
    BY <2>3
  <2> HIDE DEF b, m, u
  <2>7. Slot(m) \in 0..(Slots - 1) /\ m # NoLine BY <2>5, SlotType, Sizes DEF Lines0, NoLine
  <2>8. ws2[Slot(m)][i] = ws[Slot(m)][i] BY <1>7, <2>5, <2>7 DEF s
  <2>9. LinkOk(ws2, ar2, b, x) BY <2>3, <2>5, <2>6, <2>8 DEF LinkOk
  <2> QED BY <2>1, <2>9 DEF b
<1>10. CodeOk(f, ws2, ar2)
  <2>1. Len(ar2) <= ArenaBlocks BY <1>4, <1>5, Sizes
  <2> QED BY <1>5, <1>7, <1>8, <1>9, <2>1 DEF CodeOk
<1> QED BY <1>10 DEF ws2, ar2, blk, w, s

(* compileLine for a resident line: some way of the slot describes it now.  *)
LEMMA CompileKeeps ==
  ASSUME NEW l \in Lines0, NEW v \in Lines0, fl \in FlSet, CodeOk(fl, ways, arena),
         rr \in [0..(Slots - 1) -> 0..(Ways - 1)],
         fl[Slot(l)].base = l, CompileLine(Slot(l), l, fl[Slot(l)].w, v)
  PROVE  CodeOk(fl, ways', arena') /\ rr' \in [0..(Slots - 1) -> 0..(Ways - 1)]
<1> DEFINE s == Slot(l)
           full == Len(arena) = ArenaBlocks
           ws == IF full THEN DropAll(ways) ELSE ways
           turn == IF full THEN [t \in DOMAIN rr |-> 0] ELSE rr
           dead == {k \in 1..Ways : ws[s][k].base = NoLine}
           way == IF dead # {} THEN First(dead) ELSE turn[s] + 1
           code0 == IF full THEN <<>> ELSE arena
           jl == [base |-> l, va |-> v, srcW |-> fl[s].w, blk |-> Len(code0) + 1, bref |-> {}]
<1>1. /\ arena' = Append(Sever(code0, ws[s][way].bref), Fresh(l, v, fl[s].w))
      /\ ways' = [ws EXCEPT ![s][way] = jl]
      /\ rr' = IF dead # {} THEN turn ELSE [turn EXCEPT ![s] = (@ + 1) % Ways]
  BY DEF CompileLine
<1>2. s \in 0..(Slots - 1) BY SlotType, Sizes DEF Lines0
<1>3. CodeOk(fl, ws, code0) /\ Len(code0) < ArenaBlocks
  <2>1. CASE full
    <3>1. <<>> \in Seq(Blocks) /\ Len(<<>>) = 0 BY EmptySeq
    <3>2. ways \in WaysSet /\ Len(<<>>) <= ArenaBlocks BY <3>1, Sizes DEF CodeOk
    <3>3. CodeOk(fl, DropAll(ways), <<>>) BY <3>1, <3>2, DropAllKeeps
    <3> QED BY <2>1, <3>1, <3>3, Sizes
  <2>2. CASE ~full
    <3>1. Len(arena) <= ArenaBlocks /\ Len(arena) \in Nat BY LenProperties DEF CodeOk
    <3> QED BY <2>2, <3>1, Sizes
  <2> QED BY <2>1, <2>2
<1>4. turn \in [0..(Slots - 1) -> 0..(Ways - 1)] BY Sizes
<1>5. way \in 1..Ways
  <2>1. CASE dead # {}
    <3>1. dead \subseteq Nat BY Sizes
    <3>2. First(dead) \in dead BY <2>1, <3>1, FirstIsOne
    <3> QED BY <2>1, <3>2
  <2>2. CASE dead = {} BY <1>2, <1>4, <2>2, Sizes
  <2> QED BY <2>1, <2>2
<1>6. rr' \in [0..(Slots - 1) -> 0..(Ways - 1)]
  <2>1. turn[s] + 1 \in Nat BY <1>2, <1>4
  <2>2. (turn[s] + 1) % Ways \in 0..(Ways - 1) BY <2>1, Sizes, Euclid
  <2> QED BY <1>1, <1>2, <1>4, <2>2
<1> HIDE DEF ws, turn, dead, way, code0, full, s
<1> DEFINE S == ws[s][way].bref
           ws1 == [ws EXCEPT ![s][way] = Dead]
           ar1 == Sever(code0, S)
           D == {<<s, way>>}
<1>7. ws \in WaysSet /\ code0 \in Seq(Blocks) BY <1>3 DEF CodeOk
<1>8. /\ ws1 \in WaysSet
      /\ \A t \in 0..(Slots - 1), k \in 1..Ways :
            ws1[t][k] = IF <<t, k>> \in D THEN Dead ELSE ws[t][k]
  BY <1>2, <1>5, <1>7, DeadFacts DEF WaysSet
<1>9. Killed(ws, D, S, ws1)
  BY <1>8 DEF Killed
<1>10. ws1[s][way] = Dead BY <1>2, <1>5, <1>8
<1>11. [ws1 EXCEPT ![s][way] = jl] = [ws EXCEPT ![s][way] = jl]
  BY <1>2, <1>5, <1>7 DEF WaysSet
<1>12. Len(ar1) = Len(code0) BY <1>7, SeverFacts
<1> HIDE DEF D, S, ws1
<1>13. CodeOk(fl, ws1, ar1) BY <1>3, <1>9, KillKeeps
<1> HIDE DEF ar1
<1>14. ws1[Slot(l)][way].base = NoLine BY <1>10, DeadFacts DEF s
<1>15. jl = [base |-> l, va |-> v, srcW |-> fl[Slot(l)].w, blk |-> Len(ar1) + 1, bref |-> {}]
  BY <1>12 DEF s
<1> HIDE DEF jl
<1>16. CodeOk(fl, [ws1 EXCEPT ![Slot(l)][way] = jl], Append(ar1, Fresh(l, v, fl[Slot(l)].w)))
  BY <1>3, <1>5, <1>12, <1>13, <1>14, <1>15, InstallKeeps
<1> QED BY <1>1, <1>6, <1>11, <1>16 DEF ar1, S, s

(* One site is given a new value: everything else stays.                    *)
SiteIsSet(a, b, x, n, c) ==
  /\ c \in Seq(Blocks) /\ Len(c) = Len(a)
  /\ \A i \in 1..Len(a) :
       /\ c[i].base = a[i].base /\ c[i].va = a[i].va /\ c[i].w = a[i].w
       /\ \A y \in Sites : Target(c[i], y) = Target(a[i], y)
       /\ \A y \in Sites : c[i].site[y] = IF i = b /\ y = x THEN n ELSE a[i].site[y]

(* Writing one site changes nothing else of the arena.                      *)
LEMMA SiteFacts ==
  ASSUME NEW a \in Seq(Blocks), NEW b \in 1..Len(a), NEW x \in Sites,
         NEW n \in 0..(ArenaBlocks + 1)
  PROVE  SiteIsSet(a, b, x, n, [a EXCEPT ![b].site[x] = n])
<1> DEFINE c == [a EXCEPT ![b].site[x] = n]
<1>1. Len(a) \in Nat /\ DOMAIN a = 1..Len(a) BY LenProperties
<1>2. ASSUME NEW i \in 1..Len(a)
      PROVE  /\ c[i] \in Blocks
             /\ c[i].base = a[i].base /\ c[i].va = a[i].va /\ c[i].w = a[i].w
             /\ \A y \in Sites : c[i].site[y] = IF i = b /\ y = x THEN n ELSE a[i].site[y]
  <2>1. a[i] \in Blocks BY ElementOfSeq
  <2>2. CASE i # b
    <3>1. c[i] = a[i] BY <1>1, <2>2
    <3> QED BY <2>1, <2>2, <3>1
  <2>3. CASE i = b
    <3> DEFINE st == [a[b].site EXCEPT ![x] = n]
    <3>1. c[i] = [a[b] EXCEPT !.site = st] BY <1>1, <2>1, <2>3
    <3>2. st \in [1..(LineWords + 1) -> 0..(ArenaBlocks + 1)]
          /\ \A y \in Sites : st[y] = IF y = x THEN n ELSE a[b].site[y]
      BY <2>1, <2>3 DEF Blocks, Sites
    <3> HIDE DEF st
    <3>3. c[i] \in Blocks /\ c[i].base = a[b].base /\ c[i].va = a[b].va /\ c[i].w = a[b].w
          /\ c[i].site = st
      <4> HIDE DEF c
      <4> QED BY <2>1, <2>3, <3>1, <3>2 DEF Blocks
    <3> HIDE DEF c
    <3> QED BY <2>3, <3>2, <3>3
  <2> QED BY <2>2, <2>3
<1>3. c \in [DOMAIN a -> Blocks]
  <2>1. c = [i \in DOMAIN a |-> c[i]] BY <1>1
  <2> QED BY <1>1, <1>2, <2>1
<1>4. c \in Seq(Blocks) /\ Len(c) = Len(a) BY <1>3, SeqByDomain
<1> HIDE DEF c
<1>5. ASSUME NEW i \in 1..Len(a), NEW y \in Sites PROVE Target(c[i], y) = Target(a[i], y)
  BY <1>2 DEF Target, LineAfter
<1>6. SiteIsSet(a, b, x, n, c)
  BY <1>2, <1>4, <1>5 DEF SiteIsSet
<1> QED BY <1>6, Zenon DEF c

(* opmJitChainResolve: a miss, a parked site, or a link with its record.    *)
LEMMA ResolveKeeps ==
  ASSUME NEW b \in 1..Len(arena), NEW x \in Sites, NEW l \in Lines0, NEW v,
         CodeOk(fl, ways, arena), Resolve(b, x, l, v),
         v = LineOf(Target(arena[b], x)), l = PaOf(Page(arena[b].base), v)
  PROVE  CodeOk(fl, ways', arena') /\ rr' = rr
<1> DEFINE k == First(Describing(l, v))
           s == Slot(l)
           jl == ways[s][k]
<1>1. s \in 0..(Slots - 1) /\ l # NoLine BY SlotType, Sizes DEF Lines0, NoLine
<1>2. ways \in WaysSet /\ arena \in Seq(Blocks) /\ Len(arena) \in Nat /\ Len(arena) <= ArenaBlocks
  BY LenProperties DEF CodeOk
<1>3. CASE Describing(l, v) = {}
  BY <1>3 DEF Resolve, code
<1>4. CASE Describing(l, v) # {} /\ BrefFull(jl)
  <2>1. arena' = [arena EXCEPT ![b].site[x] = Park] /\ ways' = ways /\ rr' = rr
    BY <1>4 DEF Resolve
  <2>2. Park \in 0..(ArenaBlocks + 1) BY Sizes DEF Park
  <2>3. /\ arena' \in Seq(Blocks) /\ Len(arena') = Len(arena)
        /\ \A i \in 1..Len(arena) :
             /\ arena'[i].base = arena[i].base /\ arena'[i].va = arena[i].va
             /\ arena'[i].w = arena[i].w
             /\ \A y \in Sites : Target(arena'[i], y) = Target(arena[i], y)
             /\ \A y \in Sites :
                  arena'[i].site[y] = IF i = b /\ y = x THEN Park ELSE arena[i].site[y]
    <3>1. SiteIsSet(arena, b, x, Park, arena') BY <1>2, <2>1, <2>2, SiteFacts
    <3> QED BY <3>1, Zenon DEF SiteIsSet
  <2>4. ASSUME NEW t \in 0..(Slots - 1), NEW j \in 1..Ways, ways[t][j].base # NoLine
        PROVE  /\ Described(fl, arena', t, ways[t][j])
               /\ \A y \in Sites : arena'[ways[t][j].blk].site[y] \notin {Thunk, Park} =>
                     LinkOk(ways, arena', ways[t][j].blk, y)
    <3> DEFINE c == ways[t][j].blk
    <3>1. Described(fl, arena, t, ways[t][j]) /\ c \in 1..Len(arena)
      BY <2>4 DEF CodeOk, Described
    <3>2. Described(fl, arena', t, ways[t][j]) BY <2>3, <3>1 DEF Described
    <3>3. ASSUME NEW y \in Sites, arena'[c].site[y] \notin {Thunk, Park}
          PROVE  LinkOk(ways, arena', c, y)
      <4>1. arena'[c].site[y] = arena[c].site[y] BY <2>3, <3>1, <3>3
      <4>2. LinkOk(ways, arena, c, y) BY <2>4, <3>3, <4>1 DEF CodeOk
      <4>3. Target(arena'[c], y) = Target(arena[c], y) /\ arena'[c].base = arena[c].base
        BY <2>3, <3>1
      <4> QED BY <4>1, <4>2, <4>3 DEF LinkOk
    <3> QED BY <3>2, <3>3
  <2> QED BY <1>2, <2>1, <2>3, <2>4 DEF CodeOk
<1>5. CASE Describing(l, v) # {} /\ ~BrefFull(jl)
  <2>1. /\ arena' = [arena EXCEPT ![b].site[x] = jl.blk] /\ rr' = rr
        /\ ways' = [ways EXCEPT ![s][k].bref = @ \cup {<<b, x>>}]
    BY <1>5 DEF Resolve
  <2>2. k \in 1..Ways /\ jl.base = l /\ jl.va = v
    <3>1. Describing(l, v) \subseteq Nat BY Sizes DEF Describing
    <3>2. k \in Describing(l, v) BY <1>5, <3>1, FirstIsOne
    <3> QED BY <3>2 DEF Describing
  <2>3. jl \in WaySet /\ Described(fl, arena, s, jl) /\ IsFiniteSet(jl.bref)
        /\ Cardinality(jl.bref) < Brefs
    <3>1. jl \in WaySet BY <1>1, <1>2, <2>2 DEF WaysSet
    <3>2. Described(fl, arena, s, jl) /\ IsFiniteSet(jl.bref) BY <1>1, <2>2 DEF CodeOk
    <3>3. Cardinality(jl.bref) \in Nat BY <3>2, FS_CardinalityType
    <3>4. ~(Cardinality(jl.bref) >= Brefs) BY <1>5 DEF BrefFull
    <3>5. Cardinality(jl.bref) < Brefs
      <4> HIDE DEF jl
      <4> QED BY <3>3, <3>4, Sizes
    <3> QED BY <3>1, <3>2, <3>5
  <2> DEFINE new == [jl EXCEPT !.bref = jl.bref \cup {<<b, x>>}]
  <2>4. jl.blk \in 1..Len(arena) BY <2>3 DEF Described
  <2>5. jl.blk \in 0..(ArenaBlocks + 1) BY <1>2, <2>4, Sizes
  <2>6. /\ new \in WaySet /\ new.base = l /\ new.va = v /\ new.blk = jl.blk
        /\ new.srcW = jl.srcW /\ new.bref = jl.bref \cup {<<b, x>>}
    <3>1. <<b, x>> \in Nat \X Nat BY <1>2, Sizes DEF Sites
    <3> HIDE DEF jl, k, s
    <3> QED BY <2>2, <2>3, <3>1 DEF WaySet
  <2>7. IsFiniteSet(new.bref) /\ Cardinality(new.bref) <= Brefs
    <3>1. IsFiniteSet(jl.bref \cup {<<b, x>>})
          /\ Cardinality(jl.bref \cup {<<b, x>>}) =
               IF <<b, x>> \in jl.bref THEN Cardinality(jl.bref) ELSE Cardinality(jl.bref) + 1
      BY <2>3, FS_AddElement
    <3>2. Cardinality(jl.bref) \in Nat BY <2>3, FS_CardinalityType
    <3> HIDE DEF new, jl
    <3> QED BY <2>3, <2>6, <3>1, <3>2, Sizes
  <2>8. /\ arena' \in Seq(Blocks) /\ Len(arena') = Len(arena)
        /\ \A i \in 1..Len(arena) :
             /\ arena'[i].base = arena[i].base /\ arena'[i].va = arena[i].va
             /\ arena'[i].w = arena[i].w
             /\ \A y \in Sites : Target(arena'[i], y) = Target(arena[i], y)
             /\ \A y \in Sites :
                  arena'[i].site[y] = IF i = b /\ y = x THEN jl.blk ELSE arena[i].site[y]
    <3> DEFINE n == jl.blk
    <3>1. n \in 0..(ArenaBlocks + 1) /\ arena' = [arena EXCEPT ![b].site[x] = n] BY <2>1, <2>5
    <3> HIDE DEF n
    <3>2. SiteIsSet(arena, b, x, n, arena')
      BY <1>2, <3>1, SiteFacts
    <3>3. SiteIsSet(arena, b, x, jl.blk, arena') BY <3>2 DEF n
    <3> QED BY <3>3, Zenon DEF SiteIsSet
  <2> HIDE DEF k, s, jl
  <2>9. /\ ways' \in WaysSet
        /\ \A t \in 0..(Slots - 1), j \in 1..Ways :
             ways'[t][j] = IF t = s /\ j = k THEN new ELSE ways[t][j]
    <3>1. ways' = [ways EXCEPT ![s][k] = new] BY <1>1, <1>2, <2>1, <2>2 DEF jl, WaysSet, WaySet
    <3> HIDE DEF new
    <3> QED BY <1>1, <1>2, <2>2, <2>6, <3>1 DEF WaysSet
  <2> HIDE DEF new
  <2>10. \A t \in 0..(Slots - 1), j \in 1..Ways :
           /\ ways'[t][j].base = ways[t][j].base /\ ways'[t][j].va = ways[t][j].va
           /\ ways'[t][j].srcW = ways[t][j].srcW /\ ways'[t][j].blk = ways[t][j].blk
           /\ ways[t][j].bref \subseteq ways'[t][j].bref
           /\ IsFiniteSet(ways'[t][j].bref) /\ Cardinality(ways'[t][j].bref) <= Brefs
    <3> SUFFICES ASSUME NEW t \in 0..(Slots - 1), NEW j \in 1..Ways
                 PROVE  /\ ways'[t][j].base = ways[t][j].base /\ ways'[t][j].va = ways[t][j].va
                        /\ ways'[t][j].srcW = ways[t][j].srcW
                        /\ ways'[t][j].blk = ways[t][j].blk
                        /\ ways[t][j].bref \subseteq ways'[t][j].bref
                        /\ IsFiniteSet(ways'[t][j].bref)
                        /\ Cardinality(ways'[t][j].bref) <= Brefs
      OBVIOUS
    <3>1. CASE t = s /\ j = k
      <4>1. ways'[t][j] = new /\ ways[t][j] = jl BY <2>9, <3>1 DEF jl
      <4> QED BY <2>2, <2>6, <2>7, <4>1
    <3>2. CASE ~(t = s /\ j = k)
      <4>1. ways'[t][j] = ways[t][j] BY <2>9, <3>2
      <4> QED BY <4>1 DEF CodeOk
    <3> QED BY <3>1, <3>2
  <2>11. ASSUME NEW t \in 0..(Slots - 1), NEW j \in 1..Ways, ways'[t][j].base # NoLine
         PROVE  /\ Described(fl, arena', t, ways'[t][j])
                /\ \A y \in Sites : arena'[ways'[t][j].blk].site[y] \notin {Thunk, Park} =>
                      LinkOk(ways', arena', ways'[t][j].blk, y)
    <3> DEFINE c == ways[t][j].blk
    <3>0. ways'[t][j].blk = c /\ ways[t][j].base # NoLine BY <2>10, <2>11
    <3>1. Described(fl, arena, t, ways[t][j]) /\ c \in 1..Len(arena) /\ ways'[t][j].blk = c
      <4>1. Described(fl, arena, t, ways[t][j]) BY <3>0 DEF CodeOk
      <4>2. c \in 1..Len(arena) BY <4>1 DEF Described
      <4> QED BY <3>0, <4>1, <4>2
    <3>2. Described(fl, arena', t, ways'[t][j])
      <4>1. /\ ways'[t][j].base = ways[t][j].base /\ ways'[t][j].va = ways[t][j].va
            /\ ways'[t][j].srcW = ways[t][j].srcW
        BY <2>10
      <4>2. /\ Len(arena') = Len(arena) /\ arena'[c].base = arena[c].base
            /\ arena'[c].va = arena[c].va /\ arena'[c].w = arena[c].w
        BY <2>8, <3>1
      <4> QED BY <3>1, <4>1, <4>2 DEF Described
    <3>3. ASSUME NEW y \in Sites, arena'[c].site[y] \notin {Thunk, Park}
          PROVE  LinkOk(ways', arena', c, y)
      <4>1. Target(arena'[c], y) = Target(arena[c], y) /\ arena'[c].base = arena[c].base
        BY <2>8, <3>1
      <4>2. CASE c = b /\ y = x
        <5>1. ways'[s][k] = new BY <1>1, <2>2, <2>9
        <5>2. arena'[b].site[x] = jl.blk BY <2>8
        <5>3. <<b, x>> \in new.bref BY <2>6
        <5>4. v = LineOf(Target(arena'[b], x)) /\ l = PaOf(Page(arena'[b].base), v)
          BY <4>1, <4>2
        <5>5. LinkOk(ways', arena', b, x)
          BY <2>2, <2>6, <5>1, <5>2, <5>3, <5>4 DEF LinkOk, s
        <5> QED BY <4>2, <5>5
      <4>3. CASE ~(c = b /\ y = x)
        <5>1. arena'[c].site[y] = arena[c].site[y] BY <2>8, <3>1, <4>3
        <5>2. LinkOk(ways, arena, c, y) BY <2>10, <2>11, <3>3, <5>1 DEF CodeOk
        <5> DEFINE u == LineOf(Target(arena[c], y))
                   m == PaOf(Page(arena[c].base), u)
        <5>3. PICK i \in 1..Ways : /\ m \in Lines0
                                   /\ ways[Slot(m)][i].base = m /\ ways[Slot(m)][i].va = u
                                   /\ ways[Slot(m)][i].blk = arena[c].site[y]
                                   /\ <<c, y>> \in ways[Slot(m)][i].bref
          BY <5>2 DEF LinkOk
        <5>4. u = LineOf(Target(arena'[c], y)) /\ m = PaOf(Page(arena'[c].base), u)
          BY <4>1
        <5> HIDE DEF u, m, c
        <5>5. Slot(m) \in 0..(Slots - 1) BY <5>3, SlotType, Sizes DEF Lines0
        <5>6. /\ ways'[Slot(m)][i].base = m /\ ways'[Slot(m)][i].va = u
              /\ ways'[Slot(m)][i].blk = arena'[c].site[y]
              /\ <<c, y>> \in ways'[Slot(m)][i].bref
          BY <2>10, <5>1, <5>3, <5>5
        <5> QED BY <5>3, <5>4, <5>6 DEF LinkOk
      <4> QED BY <4>2, <4>3
    <3> QED BY <3>1, <3>2, <3>3
  <2> QED BY <1>2, <2>1, <2>8, <2>9, <2>10, <2>11 DEF CodeOk
<1> QED BY <1>3, <1>4, <1>5
-----------------------------------------------------------------------------
(* The inductive invariant.                                                 *)

Types ==
  /\ Outside /\ fl \in FlSet /\ xl \in XlSet /\ pc \in Addr
  /\ rr \in [0..(Slots - 1) -> 0..(Ways - 1)]
  /\ stamp \in 0..Budget
  /\ run \in [mode: {"disp", "line", "jit"}, blk: Nat, word: Nat, rbx: Nat]
  /\ ref \in [n: Nat, pc: Addr, trapped: BOOLEAN]

(* The address of word n of a block; the last one is where the line ends.   *)
AtWord(b, n) == IF n > LineWords THEN LineAfter(b) ELSE b.va * LineWords + n - 1

(* In emitted code, of block b: some way describes it, its line is resident *)
(* with the words it was compiled from and is the one the fetch translation *)
(* gives, and what is left of the line fits the budget.                     *)
InsideBlock(b) ==
  /\ run.blk \in 1..Len(arena)
  /\ run.word \in 1..(LineWords + 1) /\ run.rbx <= run.word - 1
  /\ \E s \in 0..(Slots - 1), k \in 1..Ways : ways[s][k].base # NoLine /\ ways[s][k].blk = run.blk
  /\ fl[Slot(b.base)] = [base |-> b.base, w |-> b.w]
  /\ xl.ok /\ xl.page = Page(b.va) /\ b.base = PaOf(xl.pp, b.va) /\ ~brk
  /\ stamp + run.rbx + (LineWords + 1 - run.word) <= Budget

(* There the counters are behind by what rbx holds, and pc by the words.    *)
Behind(b) == ~ref.trapped => ref.n = stamp + run.rbx /\ ref.pc = AtWord(b, run.word)

Running ==
  /\ run.mode = "jit" => InsideBlock(arena[run.blk]) /\ Behind(arena[run.blk])
  /\ run.mode = "line" => run.blk \in Lines0 /\ run.word \in 1..LineWords /\ stamp < Budget
  /\ run.mode # "jit" => run.rbx = 0 /\ (~ref.trapped => stamp = ref.n /\ pc = ref.pc)

JitInv == Types /\ CodeOk(fl, ways, arena) /\ Running

(* The empty cache of a fresh machine is in order.                          *)
LEMMA JitInit == Init => JitInv
<1> SUFFICES ASSUME Init PROVE JitInv OBVIOUS
<1>1. mem \in MemSet BY JitConstants DEF Init, MemSet, Lines0
<1>2. 0 \in Lines0 BY Sizes DEF Lines0
<1>3. mem[0] \in Contents /\ NoLine \in 0..Lines BY <1>1, <1>2, Sizes DEF MemSet, NoLine
<1>4. fl \in FlSet BY <1>3 DEF Init, FlSet
<1>5. Vector \in Addr BY JitConstants DEF Addr
<1>6. Types
  <2>1. NoMsr \in MsrSet BY DEF NoMsr, MsrSet
  <2>2. Outside
    <3>1. msr \in MsrSet BY <2>1 DEF Init
    <3>2. alt \in BOOLEAN /\ irq \in BOOLEAN /\ brk \in BOOLEAN BY DEF Init
    <3>3. writes \in 0..MaxWrites BY Sizes DEF Init
    <3> QED BY <1>1, <3>1, <3>2, <3>3, Zenon DEF Outside
  <2>3. xl \in XlSet BY DEF Init, XlSet
  <2>4. rr \in [0..(Slots - 1) -> 0..(Ways - 1)] BY Sizes DEF Init
  <2>5. run \in [mode: {"disp", "line", "jit"}, blk: Nat, word: Nat, rbx: Nat] BY DEF Init, Idle
  <2>6. ref \in [n: Nat, pc: Addr, trapped: BOOLEAN] BY <1>5 DEF Init
  <2> QED BY <1>4, <1>5, <2>2, <2>3, <2>4, <2>5, <2>6, Sizes DEF Types, Init
<1>7. CodeOk(fl, ways, arena)
  <2>1. arena \in Seq(Blocks) /\ Len(arena) <= ArenaBlocks BY EmptySeq, Sizes DEF Init
  <2>2. ways \in WaysSet BY DeadFacts DEF Init, WaysSet
  <2>3. ways = DropAll(ways) BY DEF Init, DropAll
  <2>4. CodeOk(fl, DropAll(ways), arena) BY <2>1, <2>2, DropAllKeeps
  <2> QED BY <2>3, <2>4
<1>8. Running BY DEF Init, Running, Idle
<1> QED BY <1>6, <1>7, <1>8 DEF JitInv

(* The address after an address is an address.                              *)
LEMMA SuccType == ASSUME NEW a \in Addr PROVE Succ(a) \in Addr
<1>1. LineOf(a) \in Lines0 /\ WordOf(a) \in 1..LineWords /\ a = LineOf(a) * LineWords + WordOf(a) - 1
  BY LineOfType
<1> QED BY <1>1, SuccInLine

(* The fetch translation that fetchBlockFast answers from.                  *)
LEMMA FetchFacts ==
  ASSUME Types, NEW a \in Addr, FetchBlockFast(a) # NoLine
  PROVE  /\ FetchBlockFast(a) \in Lines0
         /\ fl[Slot(FetchBlockFast(a))].base = FetchBlockFast(a)
         /\ xl.ok /\ xl.page = Page(LineOf(a)) /\ FetchBlockFast(a) = PaOf(xl.pp, LineOf(a))
<1> DEFINE l == PaOf(xl.pp, LineOf(a))
<1>1. FetchBlockFast(a) = l /\ xl.ok /\ xl.page = Page(LineOf(a)) /\ fl[Slot(l)].base = l
  BY DEF FetchBlockFast
<1>2. LineOf(a) \in Nat /\ xl.pp \in Nat BY LineOfType, Sizes DEF Lines0, Types, XlSet
<1>3. l \in Nat BY <1>2, PaPage
<1> HIDE DEF l
<1>4. fl[Slot(l)].base \in 0..Lines BY <1>3, SlotType DEF Types, FlSet
<1>5. l \in Lines0 BY <1>1, <1>3, <1>4, Sizes DEF Lines0, NoLine
<1> QED BY <1>1, <1>5 DEF l

(* An instruction's effect on everything outside the cache.                 *)
LEMMA ApplyTypes ==
  ASSUME NEW o \in OutcomeSet, Apply(o)
  PROVE  Outside' /\ fl' \in FlSet /\ xl' \in XlSet /\ fl' = o.fl /\ xl' = o.xl
         /\ brk' = o.brk /\ o.pc \in Addr /\ o.trapped \in BOOLEAN
BY DEF OutcomeSet, Apply, Outside

(* A line of memory holds words the emitter knows.                          *)
LEMMA WordFacts ==
  ASSUME NEW c \in Contents, NEW x \in 1..LineWords
  PROVE  /\ c[x].op \in {"alu", "mem", "fp", "br", "mtmsr", "remap"}
         /\ c[x].op = "br" => c[x].to \in Addr
BY JitConstants DEF Addr

(* The count goes up by one while the batch is within its budget.           *)
LEMMA AccountFacts ==
  ASSUME NEW o \in OutcomeSet, Account(o), ref \in [n: Nat, pc: Addr, trapped: BOOLEAN]
  PROVE  /\ ref' \in [n: Nat, pc: Addr, trapped: BOOLEAN]
         /\ ref'.pc = o.pc /\ ref'.trapped = (ref.trapped \/ o.trapped)
         /\ ref.n <= Budget => ref'.n = ref.n + 1
<1>1. o.pc \in Addr /\ o.trapped \in BOOLEAN BY DEF OutcomeSet
<1>2. Counted(ref.n) \in Nat /\ (ref.n <= Budget => Counted(ref.n) = ref.n + 1)
  BY Sizes DEF Counted
<1> QED BY <1>1, <1>2 DEF Account

(* What holds after an instruction that is executed at address cia.         *)
LEMMA ExecFacts ==
  ASSUME Types, NEW c \in Contents, NEW n \in 1..LineWords, NEW cia \in Addr,
         NEW f \in FlSet, NEW x \in XlSet, NEW o \in Outcomes(c[n], cia, f, x),
         Apply(o), Account(o)
  PROVE  /\ o \in OutcomeSet /\ Dropped(f, fl') /\ (o.xl # x => o.brk)
         /\ fl' = o.fl /\ xl' = o.xl /\ brk' = o.brk
         /\ OutcomeOk(c[n], cia, f, x, o)
         /\ Outside' /\ fl' \in FlSet /\ xl' \in XlSet /\ o.pc \in Addr
         /\ ref' \in [n: Nat, pc: Addr, trapped: BOOLEAN]
         /\ ref'.pc = o.pc
         /\ ~ref'.trapped => ~ref.trapped /\ ~o.trapped
         /\ ref.n <= Budget => ref'.n = ref.n + 1
<1>1. Outside /\ ref \in [n: Nat, pc: Addr, trapped: BOOLEAN] BY DEF Types
<1>2. /\ c[n].op \in {"alu", "mem", "fp", "br", "mtmsr", "remap"}
      /\ c[n].op = "br" => c[n].to \in Addr
  BY WordFacts
<1>3. Succ(cia) \in Addr BY SuccType
<1>4. o \in OutcomeSet /\ Dropped(f, o.fl) /\ (o.xl # x => o.brk) /\ OutcomeOk(c[n], cia, f, x, o)
  <2> DEFINE i == c[n]
  <2>1. /\ i.op \in {"alu", "mem", "fp", "br", "mtmsr", "remap"}
        /\ i.op = "br" => i.to \in Addr
    BY <1>2
  <2>2. o \in Outcomes(i, cia, f, x) OBVIOUS
  <2> HIDE DEF i
  <2>3. OutcomeOk(i, cia, f, x, o) BY <1>1, <1>3, <2>1, <2>2, OutcomeFacts
  <2> QED BY <2>3 DEF OutcomeOk, i
<1>5. Outside' /\ fl' \in FlSet /\ xl' \in XlSet /\ fl' = o.fl /\ xl' = o.xl
      /\ brk' = o.brk /\ o.pc \in Addr /\ o.trapped \in BOOLEAN
  BY <1>4, ApplyTypes
<1>6. /\ ref' \in [n: Nat, pc: Addr, trapped: BOOLEAN]
      /\ ref'.pc = o.pc /\ ref'.trapped = (ref.trapped \/ o.trapped)
      /\ ref.n <= Budget => ref'.n = ref.n + 1
  BY <1>1, <1>4, AccountFacts
<1>7. ~ref'.trapped => ~ref.trapped /\ ~o.trapped BY <1>6
<1> QED BY <1>4, <1>5, <1>6, <1>7

RunSet == [mode: {"disp", "line", "jit"}, blk: Nat, word: Nat, rbx: Nat]

(* Outside emitted code the counters have to be exact.                      *)
LEMMA BackInDispatcher ==
  ASSUME run' = Idle, ~ref'.trapped => stamp' = ref'.n /\ pc' = ref'.pc
  PROVE  Running' /\ run' \in RunSet
<1>1. run' = [mode |-> "disp", blk |-> 0, word |-> 1, rbx |-> 0] BY DEF Idle
<1>2. run'.mode = "disp" /\ run'.rbx = 0 /\ run' \in RunSet BY <1>1 DEF RunSet
<1> QED BY <1>2 DEF Running

(* The block some way describes for the resident line at address a, entered *)
(* with a whole line of budget.                                             *)
LEMMA EnteredBlock ==
  ASSUME NEW a \in Addr, NEW l \in Lines0, NEW k \in 1..Ways,
         CodeOk(fl', ways', arena'), fl' \in FlSet,
         ways'[Slot(l)][k].base = l, ways'[Slot(l)][k].va = LineOf(a),
         fl'[Slot(l)].base = l, xl'.ok, xl'.page = Page(LineOf(a)),
         l = PaOf(xl'.pp, LineOf(a)), ~brk',
         stamp' \in 0..Budget, Budget - stamp' >= LineWords,
         run' = [mode |-> "jit", blk |-> ways'[Slot(l)][k].blk, word |-> WordOf(a), rbx |-> 0],
         ~ref'.trapped => ref'.n = stamp' /\ ref'.pc = a
  PROVE  /\ Running' /\ run' \in RunSet
         /\ arena'[run'.blk].base = l /\ arena'[run'.blk].va = LineOf(a)
<1> DEFINE jl == ways'[Slot(l)][k]
           b == arena'[jl.blk]
<1>1. l \in Nat /\ l # NoLine BY Sizes DEF Lines0, NoLine
<1>2. Slot(l) \in 0..(Slots - 1) BY <1>1, SlotType
<1>3. Described(fl', arena', Slot(l), jl) BY <1>1, <1>2 DEF CodeOk
<1>4. /\ jl.blk \in 1..Len(arena') /\ b.base = l /\ b.va = LineOf(a)
      /\ fl'[Slot(l)].w = b.w
  BY <1>3 DEF Described
<1>5. LineOf(a) \in Lines0 /\ WordOf(a) \in 1..LineWords /\ a = LineOf(a) * LineWords + WordOf(a) - 1
  BY LineOfType
<1>6. /\ run'.mode = "jit" /\ run'.blk = jl.blk /\ run'.word = WordOf(a) /\ run'.rbx = 0
  OBVIOUS
<1>7. Len(arena') \in Nat BY LenProperties DEF CodeOk
<1>8. fl'[Slot(l)] = [base |-> l, w |-> b.w]
  <2>1. fl'[Slot(l)] \in [base: 0..Lines, w: Contents] BY <1>2 DEF FlSet
  <2> QED BY <1>4, <2>1
<1>9. jl.base # NoLine BY <1>1
<1> HIDE DEF jl, b
<1>10. run' \in RunSet BY <1>4, <1>5, <1>6, <1>7, Sizes DEF RunSet, jl
<1>11. ~ref'.trapped => ref'.n = stamp' + run'.rbx /\ ref'.pc = AtWord(b, run'.word)
  <2>1. AtWord(b, WordOf(a)) = a BY <1>4, <1>5, Sizes DEF AtWord
  <2> QED BY <1>6, <2>1
<1>12. stamp' + run'.rbx + (LineWords + 1 - run'.word) <= Budget
  BY <1>5, <1>6, Sizes
<1>13. \E s \in 0..(Slots - 1), i \in 1..Ways : ways'[s][i].base # NoLine /\ ways'[s][i].blk = run'.blk
  BY <1>2, <1>6, <1>9 DEF jl
<1>14. arena'[run'.blk] = b BY <1>6 DEF b
<1>15. run'.word \in 1..(LineWords + 1) /\ run'.rbx <= run'.word - 1
  BY <1>5, <1>6, Sizes
<1>16. InsideBlock(arena[run.blk])'
  BY <1>4, <1>6, <1>8, <1>12, <1>13, <1>14, <1>15 DEF InsideBlock
<1>17. Behind(arena[run.blk])'
  BY <1>11, <1>14 DEF Behind
<1> QED BY <1>4, <1>6, <1>10, <1>14, <1>16, <1>17 DEF Running

(* Inside a block, at word n of its line.                                   *)
LEMMA BlockFacts ==
  ASSUME JitInv, run.mode = "jit"
  PROVE  /\ InsideBlock(Blk) /\ Behind(Blk) /\ Blk \in Blocks /\ run.blk \in 1..Len(arena)
         /\ run.word \in 1..(LineWords + 1) /\ run.rbx \in Nat /\ stamp \in 0..Budget
         /\ (~ref.trapped => ref.n = stamp + run.rbx /\ ref.n <= Budget)
         /\ stamp + run.rbx + (LineWords + 1 - run.word) <= Budget
         /\ run.word <= LineWords =>
              /\ Cia \in Addr /\ Succ(Cia) \in Addr
              /\ Succ(Cia) = AtWord(Blk, run.word + 1)
         /\ LineAfter(Blk) \in Addr
<1>1. InsideBlock(Blk) /\ Behind(Blk) BY DEF JitInv, Running, Blk
<1>2. run.blk \in 1..Len(arena) /\ run.word \in 1..(LineWords + 1)
      /\ stamp + run.rbx + (LineWords + 1 - run.word) <= Budget
  BY <1>1 DEF InsideBlock
<1>3. run.rbx \in Nat /\ stamp \in 0..Budget BY DEF JitInv, Types
<1>4. Blk \in Blocks
  <2>1. arena \in Seq(Blocks) BY DEF JitInv, CodeOk
  <2> QED BY <1>2, <2>1, ElementOfSeq DEF Blk
<1>5. Blk.va \in Lines0 BY <1>4 DEF Blocks, Lines0
<1>6. ~ref.trapped => ref.n = stamp + run.rbx /\ ref.n <= Budget
  BY <1>1, <1>2, <1>3, Sizes DEF Behind
<1>7. ASSUME run.word <= LineWords
      PROVE  /\ Cia \in Addr /\ Succ(Cia) \in Addr
             /\ Succ(Cia) = AtWord(Blk, run.word + 1)
  <2>1. run.word \in 1..LineWords BY <1>2, <1>7, Sizes
  <2>2. Cia = Blk.va * LineWords + run.word - 1 BY DEF Cia
  <2> DEFINE v == Blk.va
             x == run.word
  <2> HIDE DEF v, x
  <2>3. v \in Lines0 /\ x \in 1..LineWords BY <1>5, <2>1 DEF v, x
  <2>4. /\ v * LineWords + x - 1 \in Addr
        /\ Succ(v * LineWords + x - 1) \in Addr
        /\ x < LineWords => Succ(v * LineWords + x - 1) = v * LineWords + (x + 1) - 1
    BY <2>3, SuccInLine
  <2>5. Succ(v * LineWords + x - 1) = AtWord(Blk, x + 1)
    <3>1. CASE x < LineWords
      BY <2>3, <2>4, <3>1, Sizes DEF AtWord, v
    <3>2. CASE x = LineWords
      BY <2>3, <3>2, Sizes DEF AtWord, LineAfter, v
    <3> QED BY <2>3, <3>1, <3>2, Sizes
  <2> QED BY <2>2, <2>4, <2>5 DEF v, x
<1>8. LineAfter(Blk) \in Addr
  <2>1. LineWords \in 1..LineWords BY Sizes
  <2> QED BY <1>5, <2>1, SuccInLine DEF LineAfter
<1> QED BY <1>1, <1>2, <1>3, <1>4, <1>6, <1>7, <1>8

(* An instruction after which the block goes on to its next word.           *)
LEMMA NextWordInside ==
  ASSUME JitInv, run.mode = "jit", run.word <= LineWords, UNCHANGED code,
         Dropped(fl, fl'), FlCheck(fl'), xl' = xl, ~brk',
         NEW r \in Nat, run' = NextWord(r), r <= run.rbx + 1,
         stamp' \in Nat, stamp' + r = stamp + run.rbx + 1,
         ~ref'.trapped => ~ref.trapped /\ ref'.pc = Succ(Cia),
         ref.n <= Budget => ref'.n = ref.n + 1
  PROVE  Running' /\ run' \in RunSet
<1>1. /\ InsideBlock(Blk) /\ Behind(Blk) /\ Blk \in Blocks /\ run.blk \in 1..Len(arena)
      /\ run.word \in 1..(LineWords + 1) /\ run.rbx \in Nat /\ stamp \in 0..Budget
      /\ (~ref.trapped => ref.n = stamp + run.rbx /\ ref.n <= Budget)
      /\ stamp + run.rbx + (LineWords + 1 - run.word) <= Budget
      /\ Succ(Cia) = AtWord(Blk, run.word + 1)
  BY BlockFacts
<1>2. arena' = arena /\ ways' = ways BY DEF code
<1>3. run \in RunSet BY DEF JitInv, Types, RunSet
<1>4. /\ run'.mode = "jit" /\ run'.blk = run.blk /\ run'.word = run.word + 1 /\ run'.rbx = r
      /\ run' \in RunSet
  <2>1. run' = [run EXCEPT !.word = run.word + 1, !.rbx = r] BY DEF NextWord
  <2>2. run.word + 1 \in Nat BY <1>3 DEF RunSet
  <2> DEFINE n == run.word + 1
  <2> HIDE DEF n
  <2>3. run' = [run EXCEPT !.word = n, !.rbx = r] /\ n \in Nat BY <2>1, <2>2 DEF n
  <2>4. /\ run'.mode = run.mode /\ run'.blk = run.blk /\ run'.word = n /\ run'.rbx = r
        /\ run' \in RunSet
    BY ONLY <1>3, <2>3, r \in Nat DEF RunSet
  <2> QED BY <2>4 DEF n
<1>5. arena'[run'.blk] = Blk BY <1>2, <1>4 DEF Blk
<1>6. fl'[Slot(Blk.base)] = [base |-> Blk.base, w |-> Blk.w]
  <2>1. Blk.base \in Nat BY <1>1, Sizes DEF Blocks
  <2>2. Slot(Blk.base) \in 0..(Slots - 1) BY <2>1, SlotType
  <2>3. fl[Slot(Blk.base)].w = Blk.w BY <1>1 DEF InsideBlock
  <2>4. fl'[Slot(Blk.base)].w = Blk.w /\ fl'[Slot(Blk.base)].base = Blk.base
        /\ fl'[Slot(Blk.base)] \in [base: 0..Lines, w: Contents]
    BY <2>2, <2>3 DEF Dropped, FlCheck, FlSet
  <2> QED BY <2>4
<1>7. run'.word \in 1..(LineWords + 1) /\ run'.rbx <= run'.word - 1
  <2> DEFINE w0 == run.word
             x0 == run.rbx
             w1 == run'.word
             x1 == run'.rbx
  <2>1. x0 <= w0 - 1 BY <1>1 DEF InsideBlock
  <2>2. w0 \in Nat /\ w0 >= 1 /\ w0 <= LineWords /\ x0 \in Nat BY <1>1, Sizes
  <2>3. w1 = w0 + 1 /\ x1 = r /\ r <= x0 + 1 BY <1>4
  <2> HIDE DEF w0, x0, w1, x1
  <2>4. w1 \in 1..(LineWords + 1) /\ x1 <= w1 - 1 BY <2>1, <2>2, <2>3, Sizes
  <2> QED BY <2>4 DEF w1, x1
<1>8. stamp' + run'.rbx + (LineWords + 1 - run'.word) <= Budget
  <2> DEFINE w0 == run.word
             x0 == run.rbx
             w1 == run'.word
             x1 == run'.rbx
             t1 == stamp'
  <2>1. stamp + x0 + (LineWords + 1 - w0) <= Budget /\ stamp \in Nat BY <1>1, Sizes
  <2>2. w0 \in Nat /\ x0 \in Nat /\ t1 \in Nat BY <1>1, Sizes
  <2>3. w1 = w0 + 1 /\ x1 = r /\ t1 + r = stamp + x0 + 1 BY <1>4
  <2> HIDE DEF w0, x0, w1, x1, t1
  <2>4. t1 + x1 + (LineWords + 1 - w1) <= Budget BY <2>1, <2>2, <2>3, Sizes
  <2> QED BY <2>4 DEF w1, x1, t1
<1>9. \E s \in 0..(Slots - 1), k \in 1..Ways :
         ways'[s][k].base # NoLine /\ ways'[s][k].blk = run'.blk
  BY <1>1, <1>2, <1>4 DEF InsideBlock
<1>10. xl'.ok /\ xl'.page = Page(Blk.va) /\ Blk.base = PaOf(xl'.pp, Blk.va)
  BY <1>1 DEF InsideBlock
<1>11. InsideBlock(arena[run.blk])'
  BY <1>1, <1>2, <1>4, <1>5, <1>6, <1>7, <1>8, <1>9, <1>10 DEF InsideBlock
<1>12. Behind(arena[run.blk])'
  BY <1>1, <1>4, <1>5 DEF Behind
<1> QED BY <1>4, <1>11, <1>12 DEF Running

(* The rest of the invariant after an instruction.                          *)
LEMMA RestKept ==
  ASSUME Outside', fl' \in FlSet, xl' \in XlSet, pc' \in Addr,
         rr' \in [0..(Slots - 1) -> 0..(Ways - 1)], stamp' \in 0..Budget, run' \in RunSet,
         ref' \in [n: Nat, pc: Addr, trapped: BOOLEAN], CodeOk(fl', ways', arena'), Running'
  PROVE  JitInv'
<1>1. Types' BY DEF Types, RunSet
<1>2. CodeOk(fl, ways, arena)' OBVIOUS
<1> QED BY <1>1, <1>2 DEF JitInv

(* bump: the block goes on with one more in rbx.                            *)
LEMMA InlinedKeeps == ASSUME JitInv, Inlined PROVE JitInv'
<1>1. run.mode = "jit" /\ run.word <= LineWords /\ Blk.w[run.word].op = "alu"
  BY DEF Inlined, InBlock
<1>2. /\ Blk \in Blocks /\ run.word \in 1..LineWords /\ run.rbx \in Nat /\ stamp \in 0..Budget
      /\ stamp + run.rbx + (LineWords + 1 - run.word) <= Budget
      /\ Cia \in Addr /\ Succ(Cia) \in Addr /\ InsideBlock(Blk)
  BY <1>1, BlockFacts, Sizes
<1>3. PICK o \in Outcomes(Blk.w[run.word], Cia, fl, xl) : Apply(o) /\ Account(o) BY DEF Inlined
<1>4. Types /\ fl \in FlSet /\ xl \in XlSet /\ pc \in Addr /\ CodeOk(fl, ways, arena)
      /\ rr \in [0..(Slots - 1) -> 0..(Ways - 1)]
  BY DEF JitInv, Types
<1>5. Blk.w \in Contents BY <1>2 DEF Blocks
<1>6. /\ o \in OutcomeSet /\ Dropped(fl, fl') /\ fl' = o.fl /\ xl' = o.xl /\ brk' = o.brk
      /\ OutcomeOk(Blk.w[run.word], Cia, fl, xl, o)
      /\ Outside' /\ fl' \in FlSet /\ xl' \in XlSet
      /\ ref' \in [n: Nat, pc: Addr, trapped: BOOLEAN]
      /\ ref'.pc = o.pc
      /\ ~ref'.trapped => ~ref.trapped /\ ~o.trapped
      /\ ref.n <= Budget => ref'.n = ref.n + 1
  BY <1>2, <1>3, <1>4, <1>5, ExecFacts
<1>7. o.pc = Succ(Cia) /\ o.fl = fl /\ o.xl = xl /\ o.brk = brk BY <1>1, <1>6 DEF OutcomeOk
<1>8. UNCHANGED code /\ pc' = pc /\ stamp' = stamp /\ run' = NextWord(run.rbx + 1) BY DEF Inlined
<1>9. FlCheck(fl') /\ ~brk'
  BY <1>2, <1>6, <1>7 DEF InsideBlock, FlCheck
<1>10. Running' /\ run' \in RunSet
  <2> DEFINE r == run.rbx + 1
  <2>1. r \in Nat /\ run' = NextWord(r) /\ r <= run.rbx + 1 /\ stamp' + r = stamp + run.rbx + 1
        /\ stamp' \in Nat
    BY <1>2, <1>8, Sizes
  <2> HIDE DEF r
  <2> QED BY <1>1, <1>6, <1>7, <1>8, <1>9, <2>1, NextWordInside
<1>11. CodeOk(fl', ways', arena') BY <1>4, <1>6, <1>7, <1>8 DEF code
<1>12. rr' = rr BY <1>8 DEF code
<1> QED BY <1>2, <1>4, <1>6, <1>8, <1>10, <1>11, <1>12, RestKept

(* flush and call: the exit tests catch a dropped line.                     *)
LEMMA CalledKeeps == ASSUME JitInv, Called PROVE JitInv'
<1>1. run.mode = "jit" /\ run.word <= LineWords BY DEF Called, InBlock
<1>2. /\ Blk \in Blocks /\ run.word \in 1..LineWords /\ run.rbx \in Nat /\ stamp \in 0..Budget
      /\ stamp + run.rbx + (LineWords + 1 - run.word) <= Budget
      /\ (~ref.trapped => ref.n = stamp + run.rbx /\ ref.n <= Budget)
      /\ Cia \in Addr /\ Succ(Cia) \in Addr /\ InsideBlock(Blk)
  BY <1>1, BlockFacts, Sizes
<1>3. PICK o \in Outcomes(Blk.w[run.word], Cia, fl, xl) :
        /\ Apply(o) /\ Account(o) /\ pc' = o.pc
        /\ run' = IF o.brk \/ o.pc # Succ(Cia) \/ ~FlCheck(o.fl) THEN Idle ELSE NextWord(0)
  BY DEF Called
<1>4. Types /\ fl \in FlSet /\ xl \in XlSet /\ pc \in Addr /\ CodeOk(fl, ways, arena)
      /\ rr \in [0..(Slots - 1) -> 0..(Ways - 1)]
  BY DEF JitInv, Types
<1>5. Blk.w \in Contents BY <1>2 DEF Blocks
<1>6. /\ o \in OutcomeSet /\ Dropped(fl, fl') /\ fl' = o.fl /\ xl' = o.xl /\ brk' = o.brk
      /\ (o.xl # xl => o.brk)
      /\ Outside' /\ fl' \in FlSet /\ xl' \in XlSet /\ o.pc \in Addr
      /\ ref' \in [n: Nat, pc: Addr, trapped: BOOLEAN]
      /\ ref'.pc = o.pc
      /\ ~ref'.trapped => ~ref.trapped /\ ~o.trapped
      /\ ref.n <= Budget => ref'.n = ref.n + 1
  BY <1>2, <1>3, <1>4, <1>5, ExecFacts
<1>7. UNCHANGED code /\ stamp' = stamp + run.rbx + 1 BY DEF Called, Flushed
<1>8. stamp' \in 0..Budget BY <1>2, <1>7, Sizes
<1>9. Running' /\ run' \in RunSet
  <2>1. CASE o.brk \/ o.pc # Succ(Cia) \/ ~FlCheck(o.fl)
    <3>1. run' = Idle BY <1>3, <2>1
    <3>2. ~ref'.trapped => stamp' = ref'.n /\ pc' = ref'.pc
      BY <1>2, <1>3, <1>6, <1>7
    <3> QED BY <3>1, <3>2, BackInDispatcher
  <2>2. CASE ~(o.brk \/ o.pc # Succ(Cia) \/ ~FlCheck(o.fl))
    <3>1. run' = NextWord(0) BY <1>3, <2>2
    <3>2. FlCheck(fl') /\ xl' = xl /\ ~brk' /\ o.pc = Succ(Cia) BY <1>6, <2>2
    <3>3. 0 \in Nat /\ 0 <= run.rbx + 1 /\ stamp' \in Nat /\ stamp' + 0 = stamp + run.rbx + 1
      BY <1>2, <1>7, Sizes
    <3> QED BY <1>1, <1>6, <1>7, <3>1, <3>2, <3>3, NextWordInside
  <2> QED BY <2>1, <2>2
<1>10. CodeOk(fl', ways', arena')
  <2>1. CodeOk(fl', ways, arena) BY <1>4, <1>6, DropKeeps
  <2> QED BY <1>7, <2>1 DEF code
<1>11. rr' = rr BY <1>7 DEF code
<1> QED BY <1>3, <1>4, <1>6, <1>8, <1>9, <1>10, <1>11, RestKept

(* A direct call: only a trap leaves the block here.                        *)
LEMMA CalledDirectKeeps == ASSUME JitInv, CalledDirect PROVE JitInv'
<1>1. run.mode = "jit" /\ run.word <= LineWords /\ Blk.w[run.word].op = "fp"
  BY DEF CalledDirect, InBlock
<1>2. /\ Blk \in Blocks /\ run.word \in 1..LineWords /\ run.rbx \in Nat /\ stamp \in 0..Budget
      /\ stamp + run.rbx + (LineWords + 1 - run.word) <= Budget
      /\ Cia \in Addr /\ Succ(Cia) \in Addr /\ InsideBlock(Blk)
  BY <1>1, BlockFacts, Sizes
<1>3. PICK o \in Outcomes(Blk.w[run.word], Cia, fl, xl) :
        /\ Apply(o) /\ Account(o) /\ pc' = o.pc
        /\ run' = IF o.brk \/ o.pc # Succ(Cia) \/ ~FlCheck(o.fl)
                  THEN Idle ELSE NextWord(run.rbx + 1)
  BY DEF CalledDirect
<1>4. Types /\ fl \in FlSet /\ xl \in XlSet /\ pc \in Addr /\ CodeOk(fl, ways, arena)
      /\ rr \in [0..(Slots - 1) -> 0..(Ways - 1)]
  BY DEF JitInv, Types
<1>5. Blk.w \in Contents BY <1>2 DEF Blocks
<1>6. /\ o \in OutcomeSet /\ Dropped(fl, fl') /\ fl' = o.fl /\ xl' = o.xl /\ brk' = o.brk
      /\ OutcomeOk(Blk.w[run.word], Cia, fl, xl, o)
      /\ Outside' /\ fl' \in FlSet /\ xl' \in XlSet /\ o.pc \in Addr
      /\ ref' \in [n: Nat, pc: Addr, trapped: BOOLEAN]
      /\ ref'.pc = o.pc
      /\ ~ref'.trapped => ~ref.trapped /\ ~o.trapped
      /\ ref.n <= Budget => ref'.n = ref.n + 1
  BY <1>2, <1>3, <1>4, <1>5, ExecFacts
<1>7. o.fl = fl /\ o.xl = xl /\ o.brk = brk /\ (o.trapped \/ o.pc = Succ(Cia))
  BY <1>1, <1>6 DEF OutcomeOk
<1>8. UNCHANGED code /\ stamp' = stamp BY DEF CalledDirect
<1>9. FlCheck(o.fl) /\ ~o.brk
  BY <1>2, <1>7 DEF InsideBlock, FlCheck
<1>10. Running' /\ run' \in RunSet
  <2>1. CASE o.pc # Succ(Cia)
    <3>1. run' = Idle BY <1>3, <2>1
    <3>2. ref'.trapped BY <1>6, <1>7, <2>1
    <3> QED BY <3>1, <3>2, BackInDispatcher
  <2>2. CASE o.pc = Succ(Cia)
    <3> DEFINE r == run.rbx + 1
    <3>1. r \in Nat /\ run' = NextWord(r) /\ r <= run.rbx + 1 /\ stamp' + r = stamp + run.rbx + 1
          /\ stamp' \in Nat
      BY <1>2, <1>3, <1>8, <1>9, <2>2, Sizes
    <3>2. FlCheck(fl') /\ xl' = xl /\ ~brk' BY <1>6, <1>7, <1>9
    <3> HIDE DEF r
    <3> QED BY <1>1, <1>6, <1>8, <2>2, <3>1, <3>2, NextWordInside
  <2> QED BY <2>1, <2>2
<1>11. CodeOk(fl', ways', arena') BY <1>4, <1>6, <1>7, <1>8 DEF code
<1>12. rr' = rr BY <1>8 DEF code
<1> QED BY <1>2, <1>3, <1>4, <1>6, <1>8, <1>10, <1>11, <1>12, RestKept

(* chainOrExit: a hop enters the block the dispatcher would have entered,   *)
(* and whatever else it does leaves the cache in order.                     *)
LEMMA ChainStep ==
  ASSUME JitInv, run.mode = "jit", NEW x \in Sites, NEW st \in 0..Budget, NEW to \in Addr,
         to = Target(Blk, x), stamp' = st, pc' = to, UNCHANGED <<fl, xl, msr, irq, brk>>,
         ~ref'.trapped => ref'.n = st /\ ref'.pc = to, ChainOrExit(x, st)
  PROVE  /\ CodeOk(fl', ways', arena') /\ rr' = rr
         /\ Running' /\ run' \in RunSet /\ DispatchedHop
<1> DEFINE v == LineOf(to)
           l == PaOf(Page(Blk.base), v)
           site == Blk.site[x]
<1>1. /\ InsideBlock(Blk) /\ Blk \in Blocks /\ run.blk \in 1..Len(arena)
      /\ stamp \in 0..Budget
  BY BlockFacts
<1>2. fl \in FlSet /\ xl \in XlSet /\ CodeOk(fl, ways, arena) /\ run \in RunSet
  BY DEF JitInv, Types, RunSet
<1>3. v \in Lines0 /\ v \in Nat /\ WordOf(to) \in 1..LineWords BY LineOfType, Sizes DEF Lines0
<1>4. xl.pp \in Nat /\ Blk.va \in Lines0 /\ Blk.va \in Nat /\ Blk.base \in Lines0
  BY <1>1, <1>2, Sizes DEF XlSet, Blocks, Lines0
<1>5. /\ xl.ok /\ xl.page = Page(Blk.va) /\ Blk.base = PaOf(xl.pp, Blk.va)
      /\ fl[Slot(Blk.base)].base = Blk.base
  BY <1>1 DEF InsideBlock
<1>6. Page(Blk.base) = xl.pp
  <2>1. Page(PaOf(xl.pp, Blk.va)) = xl.pp
    BY ONLY <1>4, PaPage
  <2> QED BY ONLY <1>5, <2>1
<1>7. l \in Lines0 /\ l = PaOf(xl.pp, v)
  <2>1. Page(Blk.base) \in Nat /\ Page(Blk.base) <= Page(Lines - 1) BY <1>4, PageType
  <2> QED BY <1>3, <1>6, <2>1, PaPage
<1>8. PICK s \in 0..(Slots - 1), k \in 1..Ways : ways[s][k].base # NoLine /\ ways[s][k].blk = run.blk
  BY <1>1 DEF InsideBlock
<1>9. /\ Described(fl, arena, s, ways[s][k])
      /\ \A y \in Sites : arena[run.blk].site[y] \notin {Thunk, Park} =>
           LinkOk(ways, arena, run.blk, y)
  BY <1>2, <1>8 DEF CodeOk
<1>10. ways[s][k].base = Blk.base /\ ways[s][k].va = Blk.va /\ s = Slot(Blk.base)
  BY <1>8, <1>9 DEF Described, Blk
<1> HIDE DEF v, l, site
<1>11. ASSUME UNCHANGED code, ChainChecks(st), NEW m \in Lines0, NEW j \in 1..Ways,
              ways[Slot(m)][j].base = m, ways[Slot(m)][j].va = v,
              fl[Slot(m)].base = m, Page(v) = xl.page, m = PaOf(xl.pp, v),
              run' = [mode |-> "jit", blk |-> ways[Slot(m)][j].blk, word |-> WordOf(to), rbx |-> 0]
       PROVE  /\ CodeOk(fl', ways', arena') /\ rr' = rr
              /\ Running' /\ run' \in RunSet /\ DispatchedHop
  <2>1. /\ CodeOk(fl', ways', arena') /\ rr' = rr /\ arena' = arena /\ ways' = ways /\ fl' \in FlSet
    BY <1>2, <1>11 DEF code
  <2>2. ~brk /\ ~slow /\ msr.ir = xl.ir /\ Budget - st >= LineWords BY <1>11 DEF ChainChecks
  <2>3. /\ Running' /\ run' \in RunSet
        /\ arena'[run'.blk].base = m /\ arena'[run'.blk].va = LineOf(to)
    <3>1. /\ ways'[Slot(m)][j].base = m /\ ways'[Slot(m)][j].va = LineOf(to)
          /\ fl'[Slot(m)].base = m /\ xl'.ok /\ xl'.page = Page(LineOf(to))
          /\ m = PaOf(xl'.pp, LineOf(to)) /\ ~brk'
          /\ stamp' \in 0..Budget /\ Budget - stamp' >= LineWords
          /\ run' = [mode |-> "jit", blk |-> ways'[Slot(m)][j].blk, word |-> WordOf(to), rbx |-> 0]
          /\ (~ref'.trapped => ref'.n = stamp' /\ ref'.pc = to)
      BY <1>5, <1>11, <2>1, <2>2 DEF v
    <3>2. CodeOk(fl', ways', arena') /\ fl' \in FlSet /\ m \in Lines0 /\ j \in 1..Ways
      BY <2>1, <1>11
    <3> HIDE DEF v
    <3> QED BY ONLY <3>1, <3>2, to \in Addr, EnteredBlock
  <2>4. FetchBlockFast(pc)' = m
    BY <1>5, <1>11, <2>2 DEF FetchBlockFast, v
  <2>5. m # NoLine BY Sizes DEF Lines0, NoLine
  <2>6. ~slow' /\ ~brk' /\ Budget - stamp' >= LineWords BY <2>2 DEF slow
  <2>7. run'.word = WordOf(pc') BY <1>11
  <2> QED BY <2>1, <2>3, <2>4, <2>5, <2>6, <2>7 DEF DispatchedHop
<1>12. ASSUME run' = Idle, CodeOk(fl', ways', arena'), rr' = rr
       PROVE  /\ CodeOk(fl', ways', arena') /\ rr' = rr
              /\ Running' /\ run' \in RunSet /\ DispatchedHop
  <2>1. Running' /\ run' \in RunSet BY <1>12, BackInDispatcher
  <2>2. run'.mode = "disp" BY <1>12 DEF Idle
  <2> QED BY <1>12, <2>1, <2>2 DEF DispatchedHop
<1>13. CASE Leave
  BY <1>2, <1>12, <1>13 DEF Leave, code
<1>14. CASE /\ v = Blk.va /\ ChainChecks(st)
            /\ run' = [run EXCEPT !.word = WordOf(to), !.rbx = 0]
            /\ UNCHANGED code
  <2>1. run' = [mode |-> "jit", blk |-> ways[Slot(Blk.base)][k].blk, word |-> WordOf(to), rbx |-> 0]
    BY <1>2, <1>8, <1>10, <1>14 DEF RunSet
  <2>2. /\ ways[Slot(Blk.base)][k].base = Blk.base /\ ways[Slot(Blk.base)][k].va = v
        /\ Page(v) = xl.page /\ Blk.base = PaOf(xl.pp, v)
    BY <1>5, <1>10, <1>14
  <2> DEFINE m == Blk.base
  <2>3. /\ ways[Slot(m)][k].base = m /\ ways[Slot(m)][k].va = v /\ m \in Lines0
        /\ Page(v) = xl.page /\ m = PaOf(xl.pp, v) /\ fl[Slot(m)].base = m
        /\ run' = [mode |-> "jit", blk |-> ways[Slot(m)][k].blk, word |-> WordOf(to), rbx |-> 0]
    BY <1>4, <1>5, <2>1, <2>2
  <2> HIDE DEF m
  <2> QED BY <1>11, <1>14, <2>3
<1>15. CASE /\ Page(v) = Page(Blk.va) /\ ChainChecks(st) /\ fl[Slot(l)].base = l
            /\ site = Thunk /\ Resolve(run.blk, x, l, v) /\ run' = Idle
  <2>1. v = LineOf(Target(arena[run.blk], x)) /\ l = PaOf(Page(arena[run.blk].base), v)
    BY DEF v, l, Blk
  <2>2. CodeOk(fl, ways', arena') /\ rr' = rr
    BY <1>1, <1>2, <1>7, <1>15, <2>1, ResolveKeeps
  <2> QED BY <1>12, <1>15, <2>2
<1>16. CASE /\ Page(v) = Page(Blk.va) /\ ChainChecks(st) /\ fl[Slot(l)].base = l
            /\ site \notin {Thunk, Park}
            /\ run' = [run EXCEPT !.blk = site, !.word = WordOf(to), !.rbx = 0]
            /\ UNCHANGED code
  <2>1. LinkOk(ways, arena, run.blk, x) BY <1>9, <1>16 DEF site, Blk
  <2>2. PICK j \in 1..Ways : /\ ways[Slot(l)][j].base = l /\ ways[Slot(l)][j].va = v
                             /\ ways[Slot(l)][j].blk = site
    BY <2>1 DEF LinkOk, l, v, site, Blk
  <2>3. run' = [mode |-> "jit", blk |-> ways[Slot(l)][j].blk, word |-> WordOf(to), rbx |-> 0]
    BY <1>2, <1>16, <2>2 DEF RunSet
  <2>4. Page(v) = xl.page BY <1>5, <1>16
  <2> QED BY <1>7, <1>11, <1>16, <2>2, <2>3, <2>4
<1> QED BY <1>13, <1>14, <1>15, <1>16 DEF ChainOrExit, v, l, site

(* b and bc: one more bump, or chainOrExit to the target.                   *)
LEMMA BranchKeeps == ASSUME JitInv, Branch PROVE JitInv' /\ DispatchedHop
<1>1. run.mode = "jit" /\ run.word <= LineWords /\ Blk.w[run.word].op = "br"
  BY DEF Branch, InBlock
<1>2. /\ Blk \in Blocks /\ run.word \in 1..LineWords /\ run.rbx \in Nat /\ stamp \in 0..Budget
      /\ stamp + run.rbx + (LineWords + 1 - run.word) <= Budget
      /\ (~ref.trapped => ref.n = stamp + run.rbx /\ ref.n <= Budget)
      /\ Cia \in Addr /\ Succ(Cia) \in Addr /\ InsideBlock(Blk)
  BY <1>1, BlockFacts, Sizes
<1>3. PICK o \in Outcomes(Blk.w[run.word], Cia, fl, xl) :
          /\ Apply(o) /\ Account(o)
          /\ \/ /\ o.pc = Succ(Cia)
                /\ run' = NextWord(run.rbx + 1)
                /\ UNCHANGED <<pc, stamp, code>>
             \/ /\ o.pc # Succ(Cia)
                /\ pc' = o.pc
                /\ stamp' = Flushed + 1
                /\ ChainOrExit(run.word, Flushed + 1)
  BY DEF Branch
<1>4. Types /\ fl \in FlSet /\ xl \in XlSet /\ pc \in Addr /\ CodeOk(fl, ways, arena)
      /\ rr \in [0..(Slots - 1) -> 0..(Ways - 1)]
  BY DEF JitInv, Types
<1>5. Blk.w \in Contents BY <1>2 DEF Blocks
<1>6. /\ o \in OutcomeSet /\ Dropped(fl, fl') /\ fl' = o.fl /\ xl' = o.xl /\ brk' = o.brk
      /\ OutcomeOk(Blk.w[run.word], Cia, fl, xl, o)
      /\ Outside' /\ fl' \in FlSet /\ xl' \in XlSet /\ o.pc \in Addr
      /\ ref' \in [n: Nat, pc: Addr, trapped: BOOLEAN]
      /\ ref'.pc = o.pc
      /\ ~ref'.trapped => ~ref.trapped /\ ~o.trapped
      /\ ref.n <= Budget => ref'.n = ref.n + 1
  BY <1>2, <1>3, <1>4, <1>5, ExecFacts
<1>7. /\ o.fl = fl /\ o.xl = xl /\ o.brk = brk /\ o.msr = msr /\ o.irq = irq
      /\ o.pc \in {Succ(Cia), Blk.w[run.word].to}
  BY <1>1, <1>6 DEF OutcomeOk
<1>8. UNCHANGED <<fl, xl, msr, irq, brk>> BY <1>3, <1>7 DEF Apply
<1>9. CASE o.pc = Succ(Cia)
  <2>1. UNCHANGED code /\ pc' = pc /\ stamp' = stamp /\ run' = NextWord(run.rbx + 1)
    BY <1>3, <1>9
  <2>2. FlCheck(fl') /\ ~brk' BY <1>2, <1>6, <1>7 DEF InsideBlock, FlCheck
  <2>3. Running' /\ run' \in RunSet
    <3> DEFINE r == run.rbx + 1
    <3>1. r \in Nat /\ run' = NextWord(r) /\ r <= run.rbx + 1 /\ stamp' + r = stamp + run.rbx + 1
          /\ stamp' \in Nat
      BY <1>2, <2>1, Sizes
    <3> HIDE DEF r
    <3> QED BY <1>1, <1>6, <1>8, <1>9, <2>1, <2>2, <3>1, NextWordInside
  <2>4. CodeOk(fl', ways', arena') /\ rr' = rr BY <1>4, <1>8, <2>1 DEF code
  <2>5. JitInv' BY <1>2, <1>4, <1>6, <2>1, <2>3, <2>4, RestKept
  <2>6. run'.word = run.word + 1
    <3>1. run \in RunSet BY DEF JitInv, Types, RunSet
    <3> QED BY <2>1, <3>1 DEF NextWord, RunSet
  <2> QED BY <2>5, <2>6 DEF DispatchedHop
<1>10. CASE o.pc # Succ(Cia)
  <2> DEFINE st == Flushed + 1
             to == o.pc
             x == run.word
  <2>1. st \in 0..Budget /\ st = stamp + run.rbx + 1 BY <1>2, Sizes DEF Flushed
  <2>2. x \in Sites BY <1>2, Sizes DEF Sites
  <2>3. to = Target(Blk, x)
    <3>1. ~(run.word > LineWords) BY <1>2, Sizes
    <3> QED BY <1>7, <1>10, <3>1 DEF Target
  <2>4. ~ref'.trapped => ref'.n = st /\ ref'.pc = to BY <1>2, <1>6, <2>1
  <2>5. to \in Addr /\ stamp' = st /\ pc' = to /\ ChainOrExit(x, st) BY <1>3, <1>6, <1>10
  <2> HIDE DEF st, to, x
  <2>6. /\ CodeOk(fl', ways', arena') /\ rr' = rr
        /\ Running' /\ run' \in RunSet /\ DispatchedHop
    BY <1>1, <1>8, <2>1, <2>2, <2>3, <2>4, <2>5, ChainStep
  <2> QED BY <1>4, <1>6, <2>1, <2>5, <2>6, RestKept
<1> QED BY <1>9, <1>10

(* The end of a line: chainOrExit to the line after it.                     *)
LEMMA LineEndKeeps == ASSUME JitInv, LineEnd PROVE JitInv' /\ DispatchedHop
<1>1. /\ run.mode = "jit" /\ run.word = LineWords + 1 /\ pc' = LineAfter(Blk)
      /\ stamp' = Flushed /\ ChainOrExit(LineWords + 1, Flushed)
      /\ UNCHANGED <<mem, fl, xl, msr, alt, irq, writes, brk, ref>>
  BY DEF LineEnd
<1>2. /\ Behind(Blk) /\ run.rbx \in Nat /\ stamp \in 0..Budget
      /\ stamp + run.rbx + (LineWords + 1 - run.word) <= Budget
      /\ LineAfter(Blk) \in Addr
  BY <1>1, BlockFacts
<1> DEFINE st == Flushed
           to == LineAfter(Blk)
           x == LineWords + 1
<1>3. st \in 0..Budget /\ st = stamp + run.rbx BY <1>1, <1>2, Sizes DEF Flushed
<1>4. x \in Sites BY Sizes DEF Sites
<1>5. to = Target(Blk, x) BY Sizes DEF Target
<1>6. ~ref'.trapped => ref'.n = st /\ ref'.pc = to
  BY <1>1, <1>2, <1>3, Sizes DEF Behind, AtWord
<1>7. to \in Addr /\ stamp' = st /\ pc' = to /\ ChainOrExit(x, st) BY <1>1, <1>2
<1> HIDE DEF st, to, x
<1>8. /\ CodeOk(fl', ways', arena') /\ rr' = rr
      /\ Running' /\ run' \in RunSet /\ DispatchedHop
  BY <1>1, <1>3, <1>4, <1>5, <1>6, <1>7, ChainStep
<1>9. /\ Outside' /\ fl' \in FlSet /\ xl' \in XlSet
      /\ ref' \in [n: Nat, pc: Addr, trapped: BOOLEAN]
      /\ rr' \in [0..(Slots - 1) -> 0..(Ways - 1)]
  <2>1. Types BY DEF JitInv
  <2> QED BY <1>1, <1>8, <2>1 DEF Types, Outside
<1> QED BY <1>3, <1>7, <1>8, <1>9, RestKept

-----------------------------------------------------------------------------
(* The dispatcher, the line executor and what happens between batches.      *)

(* A pending interrupt counts as one instruction.                           *)
LEMMA StepInterruptKeeps == ASSUME JitInv, StepInterrupt PROVE JitInv'
<1>1. /\ run.mode = "disp" /\ stamp < Budget /\ msr' = NoMsr /\ pc' = Vector /\ irq' = FALSE
      /\ stamp' = stamp + 1 /\ ref' = [ref EXCEPT !.n = Counted(ref.n), !.pc = Vector]
      /\ UNCHANGED <<mem, fl, alt, writes, brk, run, xl, ways, rr, arena>>
  BY DEF StepInterrupt, Dispatching, code
<1>2. /\ Outside /\ fl \in FlSet /\ xl \in XlSet /\ stamp \in 0..Budget /\ run \in RunSet
      /\ rr \in [0..(Slots - 1) -> 0..(Ways - 1)] /\ CodeOk(fl, ways, arena)
      /\ ref \in [n: Nat, pc: Addr, trapped: BOOLEAN]
      /\ run.rbx = 0 /\ (~ref.trapped => stamp = ref.n)
  BY <1>1 DEF JitInv, Types, Running, RunSet
<1>3. Vector \in Addr /\ NoMsr \in MsrSet BY JitConstants DEF Addr, NoMsr, MsrSet
<1>4. Outside' BY <1>1, <1>2, <1>3 DEF Outside
<1>5. stamp' \in 0..Budget BY <1>1, <1>2, Sizes
<1>6. /\ ref' \in [n: Nat, pc: Addr, trapped: BOOLEAN] /\ ref'.pc = Vector
      /\ ref'.trapped = ref.trapped /\ (ref.n <= Budget => ref'.n = ref.n + 1)
  <2>1. Counted(ref.n) \in Nat /\ (ref.n <= Budget => Counted(ref.n) = ref.n + 1)
    BY <1>2, Sizes DEF Counted
  <2> QED BY <1>1, <1>2, <1>3, <2>1
<1>7. ~ref'.trapped => stamp' = ref'.n /\ pc' = ref'.pc BY <1>1, <1>2, <1>6, Sizes
<1>8. Running' BY <1>1, <1>2, <1>7 DEF Running
<1> QED BY <1>1, <1>2, <1>3, <1>4, <1>5, <1>6, <1>8, RestKept

(* A refill tells the cache before the instruction executes.                *)
LEMMA StepOneKeeps == ASSUME JitInv, StepOne PROVE JitInv'
<1>1. /\ Types /\ Outside /\ fl \in FlSet /\ xl \in XlSet /\ stamp \in 0..Budget /\ run \in RunSet
      /\ rr \in [0..(Slots - 1) -> 0..(Ways - 1)] /\ CodeOk(fl, ways, arena)
      /\ ref \in [n: Nat, pc: Addr, trapped: BOOLEAN] /\ pc \in Addr
  BY DEF JitInv, Types, RunSet
<1>2. run.mode = "disp" /\ stamp < Budget /\ run' = run /\ stamp' = stamp + 1
  BY DEF StepOne, Dispatching
<1> DEFINE page == Page(LineOf(pc))
           x == [ok |-> TRUE, page |-> page, ir |-> msr.ir, pp |-> PhysPage(page)]
           l == PaOf(x.pp, LineOf(pc))
           hit == fl[Slot(l)].base = l
           f == IF hit THEN fl ELSE [fl EXCEPT ![Slot(l)] = [base |-> l, w |-> mem[l]]]
<1>3. /\ \/ hit /\ UNCHANGED code
         \/ ~hit /\ JitNoteRefill(Slot(l), l, mem[l])
      /\ \E o \in Outcomes(f[Slot(l)].w[WordOf(pc)], pc, f, x) :
            Apply(o) /\ Account(o) /\ pc' = o.pc
  BY DEF StepOne
<1>4. LineOf(pc) \in Lines0 /\ LineOf(pc) \in Nat /\ WordOf(pc) \in 1..LineWords
  BY <1>1, LineOfType, Sizes DEF Lines0
<1>5. page \in Nat /\ PhysPage(page) \in Nat /\ PhysPage(page) <= Page(Lines - 1)
  <2>1. page \in Nat /\ page <= Page(Lines - 1) BY <1>4, PageType
  <2>2. Page(Lines - 1) \in Nat
    <3>1. Lines - 1 \in Lines0 BY Sizes DEF Lines0
    <3> QED BY <3>1, PageType
  <2> HIDE DEF page
  <2> QED BY <2>1, <2>2 DEF PhysPage
<1>6. x \in XlSet /\ x.pp = PhysPage(page)
  <2>1. msr.ir \in BOOLEAN BY <1>1 DEF Outside, MsrSet
  <2> HIDE DEF page
  <2> QED BY <1>5, <2>1 DEF XlSet
<1>7. l \in Lines0 /\ l \in Nat BY <1>4, <1>5, <1>6, PaPage, Sizes DEF Lines0
<1> HIDE DEF page, x, l
<1>8. Slot(l) \in 0..(Slots - 1) /\ mem[l] \in Contents BY <1>1, <1>7, SlotType DEF Outside, MemSet
<1>9. f \in FlSet BY <1>1, <1>7, <1>8, Sizes DEF FlSet, Lines0
<1>10. CodeOk(f, ways', arena') /\ rr' = rr
  <2>1. CASE hit BY <1>1, <1>3, <2>1 DEF code
  <2>2. CASE ~hit
    <3>1. JitNoteRefill(Slot(l), l, mem[l]) BY <1>3, <2>2
    <3>2. rr' = rr BY <3>1 DEF JitNoteRefill
    <3> DEFINE w == mem[l]
    <3>3. w \in Contents /\ JitNoteRefill(Slot(l), l, w) /\ f = [fl EXCEPT ![Slot(l)] = [base |-> l, w |-> w]]
      BY <1>8, <2>2, <3>1
    <3> HIDE DEF w, f
    <3>4. CodeOk([fl EXCEPT ![Slot(l)] = [base |-> l, w |-> w]], ways', arena')
      BY <1>1, <1>7, <3>3, RefillKeeps
    <3> QED BY <3>2, <3>3, <3>4
  <2> QED BY <2>1, <2>2
<1> DEFINE c == f[Slot(l)].w
<1>11. c \in Contents BY <1>8, <1>9 DEF FlSet
<1>12. PICK o \in Outcomes(c[WordOf(pc)], pc, f, x) : Apply(o) /\ Account(o) /\ pc' = o.pc
  BY <1>3
<1> HIDE DEF c, f
<1>13. /\ Dropped(f, fl')
       /\ Outside' /\ fl' \in FlSet /\ xl' \in XlSet /\ o.pc \in Addr
       /\ ref' \in [n: Nat, pc: Addr, trapped: BOOLEAN]
       /\ ref'.pc = o.pc
       /\ ~ref'.trapped => ~ref.trapped /\ ~o.trapped
       /\ ref.n <= Budget => ref'.n = ref.n + 1
  BY <1>1, <1>4, <1>6, <1>9, <1>11, <1>12, ExecFacts
<1>14. CodeOk(fl', ways', arena') BY <1>10, <1>13, DropKeeps
<1>15. stamp' \in 0..Budget BY <1>1, <1>2, Sizes
<1>16. Running'
  <2>1. run.rbx = 0 /\ (~ref.trapped => stamp = ref.n) BY <1>2 DEF JitInv, Running
  <2>2. ~ref'.trapped => stamp' = ref'.n /\ pc' = ref'.pc
    BY <1>1, <1>2, <1>12, <1>13, <2>1, Sizes
  <2> QED BY <1>2, <2>1, <2>2 DEF Running
<1> QED BY <1>1, <1>2, <1>10, <1>12, <1>13, <1>14, <1>15, <1>16, RestKept

(* The line executor starts at a word of a resident line.                   *)
LEMMA EnterLineKeeps == ASSUME JitInv, EnterLine PROVE JitInv'
<1>1. /\ Types /\ Outside /\ fl \in FlSet /\ xl \in XlSet /\ stamp \in 0..Budget
      /\ rr \in [0..(Slots - 1) -> 0..(Ways - 1)] /\ CodeOk(fl, ways, arena)
      /\ ref \in [n: Nat, pc: Addr, trapped: BOOLEAN] /\ pc \in Addr
  BY DEF JitInv, Types
<1> DEFINE l == FetchBlockFast(pc)
<1>2. /\ run.mode = "disp" /\ stamp < Budget /\ l # NoLine
      /\ run' = [Idle EXCEPT !.mode = "line", !.blk = l, !.word = WordOf(pc)]
      /\ UNCHANGED <<mem, fl, code, msr, alt, xl, irq, pc, stamp, brk, ref, writes>>
  BY DEF EnterLine, Dispatching
<1>3. l \in Lines0 BY <1>1, <1>2, FetchFacts
<1>4. WordOf(pc) \in 1..LineWords BY <1>1, LineOfType
<1> HIDE DEF l
<1>5. run'.mode = "line" /\ run'.blk = l /\ run'.word = WordOf(pc) /\ run'.rbx = 0
      /\ run' \in RunSet
  <2> DEFINE n == WordOf(pc)
  <2>1. l \in Nat /\ n \in Nat BY <1>3, <1>4, Sizes DEF Lines0
  <2> HIDE DEF n
  <2>2. run' = [mode |-> "line", blk |-> l, word |-> n, rbx |-> 0] BY <1>2 DEF Idle, n
  <2>3. run'.mode = "line" /\ run'.blk = l /\ run'.word = n /\ run'.rbx = 0 /\ run' \in RunSet
    BY ONLY <2>1, <2>2 DEF RunSet
  <2> QED BY <2>3 DEF n
<1>6. Running'
  <2>1. ~ref.trapped => stamp = ref.n /\ pc = ref.pc BY <1>2 DEF JitInv, Running
  <2> QED BY <1>2, <1>3, <1>4, <1>5, <2>1 DEF Running
<1>7. Outside' BY <1>1, <1>2 DEF Outside
<1>8. CodeOk(fl', ways', arena') /\ rr' = rr BY <1>1, <1>2 DEF code
<1> QED BY <1>1, <1>2, <1>5, <1>6, <1>7, <1>8, RestKept

(* The line executor settles the counters at every word.                    *)
LEMMA LineWordKeeps == ASSUME JitInv, LineWord PROVE JitInv'
<1>1. /\ Types /\ fl \in FlSet /\ xl \in XlSet /\ stamp \in 0..Budget /\ run \in RunSet
      /\ rr \in [0..(Slots - 1) -> 0..(Ways - 1)] /\ CodeOk(fl, ways, arena)
      /\ ref \in [n: Nat, pc: Addr, trapped: BOOLEAN] /\ pc \in Addr
  BY DEF JitInv, Types, RunSet
<1>2. /\ run.mode = "line" /\ stamp' = stamp + 1 /\ UNCHANGED code BY DEF LineWord
<1>3. /\ run.blk \in Lines0 /\ run.word \in 1..LineWords /\ stamp < Budget /\ run.rbx = 0
      /\ (~ref.trapped => stamp = ref.n)
  BY <1>2 DEF JitInv, Running
<1> DEFINE s == Slot(run.blk)
           c == fl[s].w
<1>4. s \in 0..(Slots - 1) BY <1>3, SlotType, Sizes DEF Lines0
<1>5. c \in Contents BY <1>1, <1>4 DEF FlSet
<1>6. PICK o \in Outcomes(c[run.word], pc, fl, xl) :
          /\ Apply(o) /\ Account(o) /\ pc' = o.pc
          /\ run' = IF \/ o.brk \/ stamp + 1 >= Budget \/ o.pc # Succ(pc)
                       \/ run.word = LineWords \/ o.fl[s].base # run.blk
                    THEN Idle ELSE [run EXCEPT !.word = run.word + 1]
  BY DEF LineWord
<1> HIDE DEF c, s
<1>7. /\ Dropped(fl, fl')
      /\ Outside' /\ fl' \in FlSet /\ xl' \in XlSet /\ o.pc \in Addr
      /\ ref' \in [n: Nat, pc: Addr, trapped: BOOLEAN]
      /\ ref'.pc = o.pc
      /\ ~ref'.trapped => ~ref.trapped /\ ~o.trapped
      /\ ref.n <= Budget => ref'.n = ref.n + 1
  BY <1>1, <1>3, <1>5, <1>6, ExecFacts
<1>8. stamp' \in 0..Budget BY <1>1, <1>2, <1>3, Sizes
<1>9. CodeOk(fl', ways', arena') /\ rr' = rr
  <2>1. CodeOk(fl', ways, arena) BY <1>1, <1>7, DropKeeps
  <2> QED BY <1>2, <2>1 DEF code
<1>10. ~ref'.trapped => stamp' = ref'.n /\ pc' = ref'.pc
  BY <1>1, <1>2, <1>3, <1>6, <1>7, Sizes
<1>11. Running' /\ run' \in RunSet
  <2> DEFINE n == run.word + 1
  <2>1. CASE run' = Idle BY <1>10, <2>1, BackInDispatcher
  <2>2. CASE run' = [run EXCEPT !.word = n] /\ ~(stamp + 1 >= Budget) /\ run.word # LineWords
    <3>1. n \in 1..LineWords /\ n \in Nat BY <1>3, <2>2, Sizes
    <3> HIDE DEF n
    <3>2. /\ run'.mode = "line" /\ run'.blk = run.blk /\ run'.word = n /\ run'.rbx = 0
          /\ run' \in RunSet
      BY <1>1, <1>2, <1>3, <2>2, <3>1 DEF RunSet
    <3>3. stamp' < Budget BY <1>1, <1>2, <2>2, Sizes
    <3> QED BY <1>3, <1>10, <3>1, <3>2, <3>3 DEF Running
  <2> QED BY <1>6, <2>1, <2>2
<1> QED BY <1>1, <1>6, <1>7, <1>8, <1>9, <1>11, RestKept

(* jitRunLine enters a block of the resident line.                          *)
LEMMA EnterJitKeeps == ASSUME JitInv, EnterJit PROVE JitInv'
<1>1. /\ Types /\ Outside /\ fl \in FlSet /\ xl \in XlSet /\ stamp \in 0..Budget
      /\ rr \in [0..(Slots - 1) -> 0..(Ways - 1)] /\ CodeOk(fl, ways, arena)
      /\ ref \in [n: Nat, pc: Addr, trapped: BOOLEAN] /\ pc \in Addr
  BY DEF JitInv, Types
<1> DEFINE l == FetchBlockFast(pc)
           v == LineOf(pc)
<1>2. /\ run.mode = "disp" /\ ~brk /\ l # NoLine /\ Budget - stamp >= LineWords
      /\ \/ Describing(l, v) # {} /\ UNCHANGED code
         \/ Describing(l, v) = {} /\ CompileLine(Slot(l), l, fl[Slot(l)].w, v)
      /\ UNCHANGED <<mem, fl, msr, alt, xl, irq, pc, stamp, brk, ref, writes>>
  BY DEF EnterJit, Dispatching
<1>3. PICK k \in 1..Ways :
         /\ ways'[Slot(l)][k].base = l /\ ways'[Slot(l)][k].va = v
         /\ run' = [mode |-> "jit", blk |-> ways'[Slot(l)][k].blk, word |-> WordOf(pc), rbx |-> 0]
  BY DEF EnterJit
<1>4. /\ l \in Lines0 /\ fl[Slot(l)].base = l /\ xl.ok /\ xl.page = Page(v)
      /\ l = PaOf(xl.pp, v)
  BY <1>1, <1>2, FetchFacts
<1>5. v \in Lines0 BY <1>1, LineOfType
<1> HIDE DEF l, v
<1>6. CodeOk(fl', ways', arena') /\ rr' \in [0..(Slots - 1) -> 0..(Ways - 1)]
  <2>1. CASE UNCHANGED code BY <1>1, <1>2, <2>1 DEF code
  <2>2. CASE CompileLine(Slot(l), l, fl[Slot(l)].w, v)
    <3>1. CodeOk(fl, ways', arena') /\ rr' \in [0..(Slots - 1) -> 0..(Ways - 1)]
      BY <1>1, <1>4, <1>5, <2>2, CompileKeeps
    <3> QED BY <1>2, <3>1
  <2> QED BY <1>2, <2>1, <2>2
<1>7. Running' /\ run' \in RunSet
  <2>1. ~ref'.trapped => ref'.n = stamp' /\ ref'.pc = pc
    BY <1>2 DEF JitInv, Running
  <2>2. /\ ways'[Slot(l)][k].va = LineOf(pc) /\ fl'[Slot(l)].base = l /\ xl'.ok
        /\ xl'.page = Page(LineOf(pc)) /\ l = PaOf(xl'.pp, LineOf(pc)) /\ ~brk'
        /\ stamp' \in 0..Budget /\ Budget - stamp' >= LineWords /\ fl' \in FlSet
    BY <1>1, <1>2, <1>3, <1>4 DEF v
  <2> QED BY <1>1, <1>3, <1>4, <1>6, <2>1, <2>2, EnteredBlock
<1>8. Outside' BY <1>1, <1>2 DEF Outside
<1> QED BY <1>1, <1>2, <1>6, <1>7, <1>8, RestKept

(* A new batch starts both accounts at zero.                                *)
LEMMA NewBatchKeeps == ASSUME JitInv, NewBatch PROVE JitInv'
<1>1. /\ Outside /\ fl \in FlSet /\ xl \in XlSet /\ run \in RunSet
      /\ rr \in [0..(Slots - 1) -> 0..(Ways - 1)] /\ CodeOk(fl, ways, arena) /\ pc \in Addr
  BY DEF JitInv, Types, RunSet
<1>2. /\ run.mode = "disp" /\ stamp' = 0 /\ brk' = FALSE
      /\ ref' = [n |-> 0, pc |-> pc, trapped |-> FALSE]
      /\ UNCHANGED <<mem, fl, code, msr, alt, xl, irq, pc, run, writes>>
  BY DEF NewBatch, Edge
<1>3. Outside' BY <1>1, <1>2 DEF Outside
<1>4. CodeOk(fl', ways', arena') /\ rr' = rr BY <1>1, <1>2 DEF code
<1>5. ref' \in [n: Nat, pc: Addr, trapped: BOOLEAN] /\ ref'.n = 0 /\ ref'.pc = pc
  BY <1>1, <1>2
<1>6. Running'
  <2>1. run.rbx = 0 BY <1>2 DEF JitInv, Running
  <2> QED BY <1>2, <1>5, <2>1 DEF Running
<1>7. stamp' \in 0..Budget BY <1>2, Sizes
<1> QED BY <1>1, <1>2, <1>3, <1>4, <1>5, <1>6, <1>7, RestKept

(* A device writes memory: the fetch line goes, blocks may stay.            *)
LEMMA DmaWriteKeeps == ASSUME JitInv, DmaWrite PROVE JitInv'
<1>1. /\ Outside /\ fl \in FlSet /\ xl \in XlSet /\ run \in RunSet /\ stamp \in 0..Budget
      /\ rr \in [0..(Slots - 1) -> 0..(Ways - 1)] /\ CodeOk(fl, ways, arena) /\ pc \in Addr
      /\ ref \in [n: Nat, pc: Addr, trapped: BOOLEAN]
  BY DEF JitInv, Types, RunSet
<1>2. run.mode = "disp" /\ UNCHANGED <<code, msr, alt, xl, irq, pc, run, stamp, brk, ref>>
  BY DEF DmaWrite, Edge
<1>3. PICK o \in Writes(Fallthrough(pc, fl, xl)) : mem' = o.mem /\ fl' = o.fl /\ writes' = o.writes
  BY DEF DmaWrite
<1> DEFINE i == [op |-> "mem"]
<1>4. o \in Outcomes(i, pc, fl, xl) BY <1>3 DEF Outcomes, MemOutcomes
<1>5. i.op = "mem" OBVIOUS
<1> HIDE DEF i
<1>6. /\ i.op \in {"alu", "mem", "fp", "br", "mtmsr", "remap"}
      /\ i.op = "br" => i.to \in Addr
  BY <1>5
<1>7. Succ(pc) \in Addr BY <1>1, SuccType
<1>8. OutcomeOk(i, pc, fl, xl, o) BY <1>1, <1>4, <1>6, <1>7, OutcomeFacts
<1>9. o.mem \in MemSet /\ o.writes \in 0..MaxWrites /\ Dropped(fl, o.fl) /\ o.fl \in FlSet
  BY <1>8 DEF OutcomeOk, OutcomeSet
<1>10. Outside' BY <1>1, <1>2, <1>3, <1>9 DEF Outside
<1>11. CodeOk(fl', ways', arena') /\ rr' = rr
  <2>1. CodeOk(fl', ways, arena) BY <1>1, <1>3, <1>9, DropKeeps
  <2> QED BY <1>2, <2>1 DEF code
<1>12. Running' BY <1>2 DEF JitInv, Running
<1> QED BY <1>1, <1>2, <1>3, <1>9, <1>10, <1>11, <1>12, RestKept

(* A reset forgets every line and every way.                                *)
LEMMA ResetKeeps == ASSUME JitInv, Reset PROVE JitInv'
<1>1. /\ Outside /\ fl \in FlSet /\ xl \in XlSet /\ run \in RunSet /\ stamp \in 0..Budget
      /\ rr \in [0..(Slots - 1) -> 0..(Ways - 1)] /\ CodeOk(fl, ways, arena)
      /\ ref \in [n: Nat, pc: Addr, trapped: BOOLEAN]
  BY DEF JitInv, Types, RunSet
<1>2. /\ run.mode = "disp" /\ ways' = DropAll(ways) /\ rr' = [s \in DOMAIN rr |-> 0]
      /\ fl' = [s \in DOMAIN fl |-> [fl[s] EXCEPT !.base = NoLine]]
      /\ msr' = NoMsr /\ xl' = [xl EXCEPT !.ok = FALSE] /\ irq' = FALSE /\ brk' = TRUE
      /\ pc' = Vector /\ ref' = [ref EXCEPT !.pc = Vector]
      /\ UNCHANGED <<mem, arena, alt, run, stamp, writes>>
  BY DEF Reset, Edge
<1>3. Vector \in Addr /\ NoMsr \in MsrSet BY JitConstants DEF Addr, NoMsr, MsrSet
<1>4. Outside' BY <1>1, <1>2, <1>3 DEF Outside
<1>5. fl' \in FlSet
  <2>1. NoLine \in 0..Lines /\ DOMAIN fl = 0..(Slots - 1) BY <1>1, Sizes DEF FlSet, NoLine
  <2>2. ASSUME NEW s \in 0..(Slots - 1)
        PROVE  [fl[s] EXCEPT !.base = NoLine] \in [base: 0..Lines, w: Contents]
    <3>1. fl[s] \in [base: 0..Lines, w: Contents] BY <1>1 DEF FlSet
    <3> QED BY <2>1, <3>1
  <2> QED BY <1>2, <2>1, <2>2 DEF FlSet
<1>6. xl' \in XlSet
  <2>1. xl \in XlSet /\ xl' = [xl EXCEPT !.ok = FALSE] BY <1>1, <1>2
  <2> QED BY <2>1 DEF XlSet
<1>7. rr' \in [0..(Slots - 1) -> 0..(Ways - 1)]
  <2>1. DOMAIN rr = 0..(Slots - 1) /\ 0 \in 0..(Ways - 1) BY <1>1, Sizes
  <2>2. rr' = [s \in 0..(Slots - 1) |-> 0] BY <1>2, <2>1
  <2> QED BY <2>1, <2>2
<1>8. CodeOk(fl', ways', arena')
  <2>1. ways \in WaysSet /\ arena \in Seq(Blocks) /\ Len(arena) <= ArenaBlocks
    BY <1>1 DEF CodeOk
  <2>2. CodeOk(fl', DropAll(ways), arena) BY <2>1, DropAllKeeps
  <2> QED BY <1>2, <2>2
<1>9. /\ ref' \in [n: Nat, pc: Addr, trapped: BOOLEAN] /\ ref'.pc = Vector /\ ref'.n = ref.n
      /\ ref'.trapped = ref.trapped
  BY <1>1, <1>2, <1>3
<1>10. Running'
  <2>1. run.rbx = 0 /\ (~ref.trapped => stamp = ref.n) BY <1>2 DEF JitInv, Running
  <2> QED BY <1>2, <1>9, <2>1 DEF Running
<1> QED BY <1>1, <1>2, <1>3, <1>4, <1>5, <1>6, <1>7, <1>8, <1>9, <1>10, RestKept

-----------------------------------------------------------------------------
(* The theorems.                                                            *)

(* Only a branch or a line's end leaves a block for another word.           *)
LEMMA OtherStepsDoNotHop ==
  ASSUME JitInv, StepInterrupt \/ StepOne \/ EnterLine \/ LineWord \/ EnterJit \/ Inlined
                   \/ Called \/ CalledDirect \/ NewBatch \/ DmaWrite \/ Reset
  PROVE  DispatchedHop
<1> SUFFICES ASSUME run.mode = "jit", run'.mode = "jit" PROVE run'.word = run.word + 1
  BY DEF DispatchedHop
<1>1. Inlined \/ Called \/ CalledDirect
  BY DEF StepInterrupt, StepOne, EnterLine, LineWord, EnterJit, NewBatch, DmaWrite, Reset,
         Dispatching, Edge
<1>2. PICK r : run' = Idle \/ run' = NextWord(r)
  BY <1>1 DEF Inlined, Called, CalledDirect
<1>3. run' = NextWord(r) BY <1>2 DEF Idle
<1>4. run \in RunSet BY DEF JitInv, Types, RunSet
<1> QED BY <1>3, <1>4 DEF NextWord, RunSet

(* Every step keeps the invariant, and a hop is a dispatch.                 *)
LEMMA JitStep ==
  ASSUME JitInv, [Next]_vars
  PROVE  JitInv' /\ [DispatchedHop]_vars
<1>1. CASE UNCHANGED vars
  <2>1. UNCHANGED <<mem, fl, ways, rr, arena, msr, alt, xl, irq, pc, run, stamp, brk, ref, writes>>
    BY <1>1 DEF vars
  <2>2. Types' BY <2>1 DEF JitInv, Types, Outside
  <2>3. CodeOk(fl, ways, arena)' BY <2>1 DEF JitInv
  <2>4. Running' BY <2>1 DEF JitInv, Running, InsideBlock, Behind
  <2> QED BY <1>1, <2>2, <2>3, <2>4 DEF JitInv
<1>2. CASE Branch BY <1>2, BranchKeeps
<1>3. CASE LineEnd BY <1>3, LineEndKeeps
<1>4. CASE StepInterrupt BY <1>4, StepInterruptKeeps, OtherStepsDoNotHop
<1>5. CASE StepOne BY <1>5, StepOneKeeps, OtherStepsDoNotHop
<1>6. CASE EnterLine BY <1>6, EnterLineKeeps, OtherStepsDoNotHop
<1>7. CASE LineWord BY <1>7, LineWordKeeps, OtherStepsDoNotHop
<1>8. CASE EnterJit BY <1>8, EnterJitKeeps, OtherStepsDoNotHop
<1>9. CASE Inlined BY <1>9, InlinedKeeps, OtherStepsDoNotHop
<1>10. CASE Called BY <1>10, CalledKeeps, OtherStepsDoNotHop
<1>11. CASE CalledDirect BY <1>11, CalledDirectKeeps, OtherStepsDoNotHop
<1>12. CASE NewBatch BY <1>12, NewBatchKeeps, OtherStepsDoNotHop
<1>13. CASE DmaWrite BY <1>13, DmaWriteKeeps, OtherStepsDoNotHop
<1>14. CASE Reset BY <1>14, ResetKeeps, OtherStepsDoNotHop
<1> QED BY <1>1, <1>2, <1>3, <1>4, <1>5, <1>6, <1>7, <1>8, <1>9, <1>10, <1>11, <1>12, <1>13,
           <1>14 DEF Next

(* So the invariant holds of every state of every behaviour.                *)
LEMMA JitInvariant == Spec => []JitInv
<1>1. JitInv /\ [Next]_vars => JitInv' BY JitStep
<1> QED BY JitInit, <1>1, PTL DEF Spec

(* The cache never grows past its arena, its ways and its lists of sites,   *)
(* rbx never counts more than a line and a batch never runs past its        *)
(* budget, whatever the sizes (compileLine, JitLine::kBrefs, chainChecks).  *)
THEOREM CacheWithinItsLimits == Spec => []TypeOK
<1>1. ASSUME JitInv PROVE TypeOK
  <2>1. Types /\ CodeOk(fl, ways, arena) BY <1>1 DEF JitInv
  <2>2. /\ mem \in MemSet /\ fl \in FlSet /\ run \in RunSet /\ stamp \in 0..Budget
        /\ rr \in [0..(Slots - 1) -> 0..(Ways - 1)]
    BY <2>1 DEF Types, Outside, RunSet
  <2>3. /\ ways \in WaysSet /\ arena \in Seq(Blocks) /\ Len(arena) <= ArenaBlocks
        /\ \A s \in 0..(Slots - 1), k \in 1..Ways : Cardinality(ways[s][k].bref) <= Brefs
    BY <2>1 DEF CodeOk
  <2>4. run.rbx \in 0..LineWords
    <3>1. CASE run.mode = "jit"
      <4> DEFINE r == run.rbx
                 n == run.word
      <4>1. n \in 1..(LineWords + 1) /\ r <= n - 1 /\ r \in Nat
        BY <1>1, <2>2, <3>1 DEF JitInv, Running, InsideBlock, RunSet
      <4> HIDE DEF r, n
      <4>2. r \in 0..LineWords BY <4>1, Sizes
      <4> QED BY <4>2 DEF r
    <3>2. CASE run.mode # "jit" BY <1>1, <3>2, Sizes DEF JitInv, Running
    <3> QED BY <3>1, <3>2
  <2>5. \A b \in DOMAIN arena : arena[b] \in Blocks
    <3>1. DOMAIN arena = 1..Len(arena) BY <2>3, LenProperties
    <3> QED BY <2>3, <3>1, ElementOfSeq
  <2>6. \A s \in DOMAIN fl : fl[s].base \in 0..Lines /\ fl[s].w \in Contents
    BY <2>2 DEF FlSet
  <2>7. \A s \in DOMAIN ways, k \in 1..Ways : ways[s][k].base \in 0..Lines
                                              /\ Cardinality(ways[s][k].bref) <= Brefs
    BY <2>3 DEF WaysSet, WaySet
  <2>8. run.mode \in {"disp", "line", "jit"} BY <2>2 DEF RunSet
  <2>9. mem \in [0..(Lines - 1) -> Contents] BY <2>2 DEF MemSet, Lines0
  <2> QED BY <2>2, <2>3, <2>4, <2>5, <2>6, <2>7, <2>8, <2>9 DEF TypeOK
<1> QED BY JitInvariant, <1>1, PTL

(* Emitted code never runs on words that are not those of the resident      *)
(* line, whatever the program stores, a device writes or the slots share,   *)
(* for every size of cache (flCheck, jitNoteRefill, opmJitChainResolve).    *)
THEOREM CompiledCodeIsCurrent == Spec => []NoStaleCode
<1>1. JitInv => NoStaleCode BY DEF JitInv, Running, InsideBlock, NoStaleCode, Blk
<1> QED BY JitInvariant, <1>1, PTL

(* Every link out of a block that can still be entered leads to the block   *)
(* of the line it names, and the way of that block has the site on record,  *)
(* so that sever can undo it (JitLine::bref, opmJitChainResolve).           *)
THEOREM LinksCanBeUndone == Spec => []LinksAreSeverable
<1>1. ASSUME JitInv PROVE LinksAreSeverable
  <2> SUFFICES ASSUME NEW s \in DOMAIN ways, NEW k \in 1..Ways, ways[s][k].base # NoLine,
                      NEW x \in 1..(LineWords + 1),
                      arena[ways[s][k].blk].site[x] \notin {Thunk, Park}
               PROVE  LET b == ways[s][k].blk
                          v == LineOf(Target(arena[b], x))
                          l == PaOf(Page(arena[b].base), v)
                      IN  \E j \in Describing(l, v) :
                            /\ ways[Slot(l)][j].blk = arena[b].site[x]
                            /\ <<b, x>> \in ways[Slot(l)][j].bref
    BY DEF LinksAreSeverable
  <2>1. CodeOk(fl, ways, arena) BY <1>1 DEF JitInv
  <2>2. s \in 0..(Slots - 1) /\ x \in Sites BY <2>1 DEF CodeOk, WaysSet, Sites
  <2>3. LinkOk(ways, arena, ways[s][k].blk, x) BY <2>1, <2>2 DEF CodeOk
  <2> QED BY <2>3 DEF LinkOk, Describing
<1> QED BY JitInvariant, <1>1, PTL

(* Outside emitted code pc and the instruction count are what accounting    *)
(* per instruction gives, and a batch never runs past its budget, unless an *)
(* enabled floating-point trap left a block (flush, the exits of            *)
(* compileLine); with such a trap the finding on CountersAlwaysExact holds. *)
THEOREM CountersAreSettled == Spec => []CountersExact
<1>1. ASSUME JitInv PROVE CountersExact
  <2>1. CASE run.mode = "jit"
    <3>1. ~ref.trapped => ref.n <= Budget BY <1>1, <2>1, BlockFacts
    <3> QED BY <2>1, <3>1 DEF CountersExact
  <2>2. CASE run.mode # "jit"
    <3>1. ~ref.trapped => stamp = ref.n /\ pc = ref.pc BY <1>1, <2>2 DEF JitInv, Running
    <3>2. stamp <= Budget BY <1>1, Sizes DEF JitInv, Types
    <3> QED BY <2>2, <3>1, <3>2 DEF CountersExact
  <2> QED BY <2>1, <2>2
<1> QED BY JitInvariant, <1>1, PTL

(* A jump from block to block goes nowhere the dispatcher would not have    *)
(* gone: no pending interrupt is stepped over, the translation is current,  *)
(* the line resident, the budget a whole line (chainOrExit).                *)
THEOREM HopsAreDispatches == Spec => HopIsDispatch
<1>1. JitInv /\ [Next]_vars => [DispatchedHop]_vars BY JitStep
<1> QED BY JitInvariant, <1>1, PTL DEF Spec, HopIsDispatch
=============================================================================
