------------------------------- MODULE Cache --------------------------------
(***************************************************************************)
(* The processor's memory hierarchy: the L1 data cache, the backside L2,   *)
(* the instruction fetch lines and memory, with bus masters snooping       *)
(* (core/src/cache.cpp, Cpu::fetchDecoded in core/src/mmu.cpp, the cache   *)
(* instructions and the HID0/L2CR writes in core/src/exec_int.cpp).        *)
(*                                                                         *)
(* Blocks are blocks of one L1 set and one L2 set, and a block's 32 bytes  *)
(* are one value.  Which resident line is the least recently used is left  *)
(* open: an operation that replaces a line yields the SET of hierarchies   *)
(* it may leave, one per order of ages.                                    *)
(***************************************************************************)
EXTENDS Naturals, FiniteSets

CONSTANTS
  Blocks, Values, Zero,
  NoValue,      \* a fetch line that holds nothing
  L1Ways,       \* ways of an L1 set (8)
  L2Ways,       \* ways of an L2 set (2)
  FetchSlot,    \* the direct-mapped slot of each block
  Attributes,   \* the page attributes the blocks may have
  Disciplined   \* the guest follows the processor manual's cache protocol

ASSUME CacheConstants ==
  /\ Zero \in Values /\ NoValue \notin Values
  /\ L1Ways \in Nat \ {0} /\ L2Ways \in Nat \ {0}
  /\ Attributes \subseteq [Blocks -> {"cached", "through", "inhibited"}]
  /\ Disciplined \in BOOLEAN

VARIABLES
  wimg,       \* page attributes of each block; a guest sets them up once
  mem,        \* memory, as the bus returns it
  l1,         \* Cpu::l1d with its index
  l2,         \* Cpu::l2
  fetchLine,  \* Cpu::fetchLine, by the block it holds
  dce,        \* HID0[DCE]
  l2e, l2ts,  \* L2CR[L2E], L2CR[L2TS]
  l2sized,    \* l2Sets # 0
  last        \* the last request: what it read, wrote or discarded

cells == <<mem, l1, l2, fetchLine>>
modes == <<dce, l2e, l2ts, l2sized>>
vars == <<wimg, cells, modes, last>>

Line == [v: BOOLEAN, d: BOOLEAN, b: Values]

NoLine == [v |-> FALSE, d |-> FALSE, b |-> Zero]

Held(x, dirty) == [v |-> TRUE, d |-> dirty, b |-> x]

\* The hierarchy as a value, and taking one as the next state.
Now == [mem |-> mem, l1 |-> l1, l2 |-> l2, fl |-> fetchLine]

Become(s) ==
  /\ mem' = s.mem /\ l1' = s.l1 /\ l2' = s.l2 /\ fetchLine' = s.fl

\* Reset: everything off and empty, memory whatever it is.
Init ==
  /\ wimg \in Attributes
  /\ mem \in [Blocks -> Values]
  /\ l1 = [b \in Blocks |-> NoLine] /\ l2 = [b \in Blocks |-> NoLine]
  /\ fetchLine = [b \in Blocks |-> NoValue]
  /\ dce = FALSE /\ l2e = FALSE /\ l2ts = FALSE /\ l2sized = FALSE
  /\ last = <<"none">>
-----------------------------------------------------------------------------
(* Helpers on a hierarchy value. *)

FetchDropAt(s, b) == [s EXCEPT !.fl[b] = NoValue]

FetchDrop(s) == [s EXCEPT !.fl = [b \in Blocks |-> NoValue]]

BusWriteLine(s, b, x) == [s EXCEPT !.mem[b] = x, !.fl[b] = NoValue]

L2Find(s, b) == l2e /\ s.l2[b].v

Resident(cache) == {b \in Blocks : cache[b].v}

\* An L2 line gives up its place; a modified one goes to memory first.
L2Castout(s, x) ==
  LET t == IF s.l2[x].d THEN BusWriteLine(s, x, s.l2[x].b) ELSE s
  IN  [t EXCEPT !.l2[x] = NoLine]

\* l2Install: only a modified install drops the fetch line; a hit that was
\* modified stays so.
L2Install(s, b, x, dirty) ==
  LET t    == IF dirty THEN FetchDropAt(s, b) ELSE s
      room == t.l2[b].v \/ Cardinality(Resident(t.l2)) < L2Ways
      new  == Held(x, dirty \/ (s.l2[b].v /\ s.l2[b].d))
  IN  IF ~l2e THEN {s}
      ELSE IF room THEN {[t EXCEPT !.l2[b] = new]}
      ELSE {[L2Castout(t, y) EXCEPT !.l2[b] = new] : y \in Resident(t.l2)}

L2Invalidate(s, b) == [s EXCEPT !.l2[b] = NoLine, !.fl[b] = NoValue]

\* l2FlushAll: every modified line to memory (or lost), every line invalid.
L2FlushAll(s, writeback) ==
  [s EXCEPT !.mem = [b \in Blocks |->
                       IF writeback /\ s.l2[b].v /\ s.l2[b].d
                       THEN s.l2[b].b ELSE s.mem[b]],
            !.l2 = [b \in Blocks |-> NoLine],
            !.fl = [b \in Blocks |-> NoValue]]

\* lineCastout: into an enabled L2, else to memory.
LineCastout(s, b) ==
  IF l2e THEN L2Install(s, b, s.l1[b].b, TRUE)
         ELSE {BusWriteLine(s, b, s.l1[b].b)}

\* Mutant: the victim is dropped, modified or not.
LineVictimDrops(s) ==
  IF Cardinality(Resident(s.l1)) < L1Ways THEN {s}
  ELSE {[s EXCEPT !.l1[y] = NoLine] : y \in Resident(s.l1)}

\* lineVictim: a free way if there is one, else a resident line, cast out if
\* it is modified.
LineVictim(s) ==
  IF Cardinality(Resident(s.l1)) < L1Ways THEN {s}
  ELSE UNION {{[t EXCEPT !.l1[y] = NoLine] :
                 t \in IF s.l1[y].d THEN LineCastout(s, y) ELSE {s}} :
              y \in Resident(s.l1)}

\* lineFill: from the L2 on a hit, else from memory, which an enabled L2 then
\* holds clean.
LineFill(s, b) ==
  IF L2Find(s, b)
  THEN {[s EXCEPT !.l1[b] = Held(s.l2[b].b, FALSE)]}
  ELSE {[t EXCEPT !.l1[b] = Held(s.mem[b], FALSE)] :
          t \in L2Install(s, b, s.mem[b], FALSE)}

\* The ways a block can come to be in the L1.
Allocate(s, b) ==
  IF s.l1[b].v THEN {s} ELSE UNION {LineFill(t, b) : t \in LineVictim(s)}

\* linePush: dcbf and dcbst of a modified line.  With L2TS the block goes into
\* the L2 only, otherwise to memory, and the L2 copy dies.
LinePush(s, b) ==
  LET x == s.l1[b].b
  IN  {[t EXCEPT !.l1[b].d = FALSE] :
         t \in IF l2e /\ l2ts THEN L2Install(s, b, x, TRUE)
               ELSE {L2Invalidate(BusWriteLine(s, b, x), b)}}

\* snoopPush of one block: the newest copy reaches memory, never the L2 alone;
\* a master about to write takes the processor's copies away.
SnoopPush(s, b, invalidate) ==
  LET s1 == IF invalidate THEN FetchDropAt(s, b) ELSE s
      s2 == IF dce /\ s1.l1[b].v /\ s1.l1[b].d
            THEN [L2Invalidate(BusWriteLine(s1, b, s1.l1[b].b), b)
                    EXCEPT !.l1[b].d = FALSE]
            ELSE s1
      s3 == IF dce /\ s2.l1[b].v /\ invalidate
            THEN [s2 EXCEPT !.l1[b] = NoLine] ELSE s2
      s4 == IF L2Find(s3, b) /\ s3.l2[b].d
            THEN [BusWriteLine(s3, b, s3.l2[b].b) EXCEPT !.l2[b].d = FALSE]
            ELSE s3
  IN  IF L2Find(s4, b) /\ invalidate THEN [s4 EXCEPT !.l2[b] = NoLine] ELSE s4

\* l1dFlushAll: the L1 line is the newer one, so its L2 copy dies with it, and
\* then the L2 is flushed too.
L1dFlushAll(s, writeback) ==
  LET dirty == {b \in Blocks : s.l1[b].v /\ s.l1[b].d}
      t == [s EXCEPT !.mem = [b \in Blocks |->
                                IF writeback /\ b \in dirty
                                THEN s.l1[b].b ELSE s.mem[b]],
                     !.l2 = [b \in Blocks |->
                               IF b \in dirty THEN NoLine ELSE s.l2[b]],
                     !.l1 = [b \in Blocks |-> NoLine]]
  IN  L2FlushAll(t, writeback)
-----------------------------------------------------------------------------
(* The guest's and the bus masters' operations. *)

\* Does this access go through the caches at all?
Cacheable(b) == dce /\ wimg[b] # "inhibited"

\* Cpu::memRead.
Load(b) ==
  /\ \/ /\ Cacheable(b)
        /\ \E s \in Allocate(Now, b) :
             Become(s) /\ last' = <<"read", b, s.l1[b].b>>
     \/ /\ ~Cacheable(b)
        /\ last' = <<"read", b, mem[b]>> /\ UNCHANGED cells
  /\ UNCHANGED modes

\* Mutant: the fetch line survives a store to its block.
StoreKeepsFetch(b, v) ==
  /\ IF ~Cacheable(b)
     THEN Become([Now EXCEPT !.mem[b] = v])
     ELSE IF wimg[b] = "through"
     THEN Become([Now EXCEPT !.mem[b] = v,
                             !.l1[b] = IF l1[b].v THEN [@ EXCEPT !.b = v] ELSE @])
     ELSE \E t \in Allocate(Now, b) :
            Become([t EXCEPT !.l1[b] = Held(v, TRUE)])
  /\ last' = <<"write", b, v>>
  /\ UNCHANGED modes

\* Cpu::memWrite: round the caches, write-through without allocation, or into
\* an allocated line that becomes modified.  The fetch line goes first.
Store(b, v) ==
  /\ LET s == FetchDropAt(Now, b)
     IN  IF ~Cacheable(b)
         THEN Become([s EXCEPT !.mem[b] = v])
         ELSE IF wimg[b] = "through"
         THEN Become([s EXCEPT !.mem[b] = v,
                               !.l1[b] = IF l1[b].v THEN [@ EXCEPT !.b = v]
                                                    ELSE @])
         ELSE \E t \in Allocate(s, b) :
                Become([t EXCEPT !.l1[b] = Held(v, TRUE)])
  /\ last' = <<"write", b, v>>
  /\ UNCHANGED modes

\* h_dcbz and dcbzLine: no fill, the zeros are the block.  An alignment
\* exception unless the block is cacheable and write-back.
Dcbz(b) ==
  /\ dce /\ wimg[b] = "cached"
  /\ LET s == FetchDropAt(Now, b)
     IN  \E t \in IF s.l1[b].v THEN {s} ELSE LineVictim(s) :
           Become([t EXCEPT !.l1[b] = Held(Zero, TRUE)])
  /\ last' = <<"write", b, Zero>>
  /\ UNCHANGED modes

\* dcbClean: dcbst (keep) and dcbf (invalidate).
DcbClean(b, invalidate) ==
  /\ LET s == FetchDropAt(Now, b)
     IN  \E t \in IF s.l1[b].v /\ s.l1[b].d THEN LinePush(s, b) ELSE {s} :
           Become(IF invalidate THEN [t EXCEPT !.l1[b] = NoLine] ELSE t)
  /\ last' = <<"none">>
  /\ UNCHANGED modes

\* dcbKill: dcbi discards the block from both caches.
DcbKill(b) ==
  /\ Become(L2Invalidate([Now EXCEPT !.l1[b] = NoLine], b))
  /\ last' = <<"discard", {b}>>
  /\ UNCHANGED modes

\* What a fetch that finds no line would read: L1, then L2, then memory.
LongPath(b) ==
  IF dce /\ l1[b].v THEN l1[b].b
  ELSE IF L2Find(Now, b) THEN l2[b].b
  ELSE mem[b]

\* Cpu::fetchDecoded on memory: a resident line answers; otherwise the block
\* is filled into its slot, whatever block the slot held.
Fetch(b) ==
  LET x == IF fetchLine[b] # NoValue THEN fetchLine[b] ELSE LongPath(b)
  IN  /\ last' = <<"read", b, x>>
      /\ fetchLine' = [a \in Blocks |->
                         IF a = b THEN x
                         ELSE IF FetchSlot[a] = FetchSlot[b] THEN NoValue
                         ELSE fetchLine[a]]
      /\ UNCHANGED <<mem, l1, l2, modes>>

\* icbi drops every fetch line, whatever its address.
Icbi ==
  /\ Become(FetchDrop(Now))
  /\ last' = <<"none">>
  /\ UNCHANGED modes

\* A bus master reads: snoop, then memory.
DmaRead(b) ==
  /\ LET s == SnoopPush(Now, b, FALSE)
     IN  Become(s) /\ last' = <<"read", b, s.mem[b]>>
  /\ UNCHANGED modes

\* A bus master writes: snoop, then memory.
DmaWrite(b, v) ==
  /\ Become([SnoopPush(Now, b, TRUE) EXCEPT !.mem[b] = v])
  /\ last' = <<"write", b, v>>
  /\ UNCHANGED modes

Modified(cache) == \E b \in Blocks : cache[b].v /\ cache[b].d

\* h_mtspr HID0.  A guest that follows the manual turns the L1 on or off, or
\* flash-invalidates it, with nothing in the caches to lose.
MtHid0(on, dcfi) ==
  /\ Disciplined => /\ on # dce => Resident(l1) \cup Resident(l2) = {}
                    /\ dcfi => ~Modified(l2)
  /\ dce' = on
  /\ Become(IF dcfi THEN L1dFlushAll(Now, FALSE) ELSE Now)
  /\ last' = IF dcfi THEN <<"discard", Blocks>> ELSE <<"none">>
  /\ UNCHANGED <<l2e, l2ts, l2sized>>

\* Mutant: resizing throws the array away without casting it out.
L2AfterL2crNoCastout(s, hwf, inv, resize) ==
  LET t == IF hwf THEN L2FlushAll(s, TRUE) ELSE s
      u == IF inv THEN L2FlushAll(t, FALSE) ELSE t
  IN  IF resize THEN L2FlushAll(u, FALSE) ELSE u

\* What an L2CR write does to the array: the hardware flush, the global
\* invalidate, and a new size that casts out what the old array held.
L2AfterL2cr(s, hwf, inv, resize) ==
  LET t == IF hwf THEN L2FlushAll(s, TRUE) ELSE s
      u == IF inv THEN L2FlushAll(t, FALSE) ELSE t
  IN  IF resize THEN L2FlushAll(u, TRUE) ELSE u

\* h_mtspr L2CR.  A guest that follows the manual enables the L2 empty, and
\* flushes it before invalidating or disabling it; the model does not keep the
\* L2 coherent with write-through stores (Cpu::noteL2Skew only counts them).
MtL2cr(on, ts, hwf, inv, resize) ==
  /\ resize => on
  /\ on /\ ~l2sized => resize
  /\ Disciplined => /\ inv \/ on # l2e => hwf \/ Resident(l2) = {}
                    /\ on => \A b \in Blocks : wimg[b] # "through"
  /\ l2e' = on /\ l2ts' = ts
  /\ l2sized' = (l2sized \/ on)
  /\ Become(L2AfterL2cr(Now, hwf, inv, resize))
  /\ last' = <<"none">>
  /\ UNCHANGED dce

\* The harness flushes both caches so that memory can be looked at.
HarnessFlush ==
  /\ Become(L2FlushAll(L1dFlushAll(Now, TRUE), TRUE))
  /\ last' = <<"none">>
  /\ UNCHANGED modes

Step ==
  \/ \E b \in Blocks : Load(b)
  \/ \E b \in Blocks, v \in Values : Store(b, v)
  \/ \E b \in Blocks : Dcbz(b)
  \/ \E b \in Blocks, inv \in BOOLEAN : DcbClean(b, inv)
  \/ \E b \in Blocks : DcbKill(b)
  \/ \E b \in Blocks : Fetch(b)
  \/ Icbi
  \/ \E b \in Blocks : DmaRead(b)
  \/ \E b \in Blocks, v \in Values : DmaWrite(b, v)
  \/ \E on, dcfi \in BOOLEAN : MtHid0(on, dcfi)
  \/ \E on, ts, hwf, inv, resize \in BOOLEAN : MtL2cr(on, ts, hwf, inv, resize)
  \/ HarnessFlush

Next == Step /\ UNCHANGED wimg

Spec == Init /\ [][Next]_vars
-----------------------------------------------------------------------------
\* Type invariant: lines, and no more of them than the sets have ways.
TypeOK ==
  /\ wimg \in Attributes
  /\ mem \in [Blocks -> Values]
  /\ l1 \in [Blocks -> Line] /\ l2 \in [Blocks -> Line]
  /\ fetchLine \in [Blocks -> Values \cup {NoValue}]
  /\ dce \in BOOLEAN /\ l2e \in BOOLEAN /\ l2ts \in BOOLEAN
  /\ l2sized \in BOOLEAN
  /\ Cardinality(Resident(l1)) <= L1Ways
  /\ Cardinality(Resident(l2)) <= L2Ways

\* The newest copy of a block.
Newest(b) == IF l1[b].v THEN l1[b].b ELSE IF l2[b].v THEN l2[b].b ELSE mem[b]

\* Losing a copy that is not marked modified loses nothing: below the newest
\* modified copy of a block every copy agrees with it.  An eviction, a snoop
\* or a flush that breaks this brings an old value back much later.
CleanCopiesAgree ==
  \A b \in Blocks :
    ~(l1[b].v /\ l1[b].d) =>
      /\ l2[b].v => l2[b].b = Newest(b)
      /\ ~(l2[b].v /\ l2[b].d) => mem[b] = Newest(b)

\* A hit in a fetch line "is the same word the long path below would produce"
\* (Cpu::fetchDecoded).
FetchHitIsLongPath ==
  \A b \in Blocks : fetchLine[b] # NoValue => fetchLine[b] = LongPath(b)

\* The copies below the L1 of a block: what losing its lines may bring back.
Under(b) == {mem[b]} \cup IF l2[b].v THEN {l2[b].b} ELSE {}

\* The hierarchy behaves as one memory to the processor, to instruction fetch
\* and to bus masters (bus.hpp, "every DMA transaction is SNOOPED"): every
\* request reads or writes its own block's newest value and changes no other
\* block, and only dcbi and DCFI go back to an older value, of the blocks they
\* name.
OneMemory ==
  INSTANCE CoherentMemory WITH store <- [b \in Blocks |-> Newest(b)],
                               older <- [b \in Blocks |-> Under(b)]

BehavesAsOneMemory == OneMemory!Spec
=============================================================================
