-------------------------------- MODULE Cce ---------------------------------
(***************************************************************************)
(* The packet path of the Rage 128's CCE (machine/src/r128.cpp): words     *)
(* staged one store at a time or fetched from the ring in AGP space, the   *)
(* GART walk, the parser, and the indirect buffers it splices into the     *)
(* stream; with the doorbells of machine/include/opm/sawtooth.hpp.         *)
(*                                                                         *)
(* A word is a record: what it means as a header (t, n, one, r1, r2) and   *)
(* what it means as data (v). Operations are opaque here (module Blit).    *)
(***************************************************************************)
EXTENDS Integers, Sequences, FiniteSets, SequencesExt

CONSTANTS Programs,     \* what drivers submit: [mode, items, cyclic]
          Memory,       \* [0..n -> word], system RAM as the driver filled it
          GartFull,     \* [aperture page -> RAM page], the driver's final GART
          LatePages,    \* aperture pages mapped only after the first kicks
          PageWords, Aper, RingBase, RingWords,
          Budget,       \* indirect dispatches per guest store (64)
          MaxBody,      \* longest indirect body (0x4000)
          KnownOps,     \* operations cceParse knows
          MaxMachines   \* bound on machines created in one process

VARIABLES prog,      \* the driver's program
          pos,       \* items of it submitted
          stream,    \* gCceFifo from gCceHead on: staged words
          regs,      \* [INDOFF, ...] the registers packets write
          log,       \* what has been executed, in order
          ram,       \* system RAM
          gart,      \* [aperture page -> RAM page or Invalid]
          ring,      \* [r, w: card's pointers, back: the written-back r, run: FREERUN]
          fetched,   \* bodies fetched by the last guest store
          machines   \* machines created so far

vars == <<prog, pos, stream, regs, log, ram, gart, ring, fetched, machines>>

INDOFF  == 0
INDSIZE == 1
Invalid == 0
NoRegs  == [r \in {INDOFF} |-> 0]
-----------------------------------------------------------------------------
(* cceGartRead: aperture-relative, through a valid entry, inside RAM.       *)
GartAddress(g, agp) ==
  g[(agp - Aper) \div PageWords] * PageWords + ((agp - Aper) % PageWords)

GartHit(g, agp) ==
  /\ agp >= Aper
  /\ (agp - Aper) \div PageWords \in DOMAIN g
  /\ g[(agp - Aper) \div PageWords] # Invalid
  /\ GartAddress(g, agp) \in DOMAIN ram

(* cceRegWrite: through the card's own write; an INDSIZE write is recorded  *)
(* for the packet boundary and dispatches nothing yet.                      *)
CceRegWrite(s, reg, v) ==
  IF reg = INDSIZE THEN [s EXCEPT !.pend = Append(@, v)]
  ELSE IF reg = INDOFF THEN [s EXCEPT !.regs[INDOFF] = v]
  ELSE [s EXCEPT !.log = Append(@, [k |-> "reg", r |-> reg, v |-> <<v>>])]

(* The body of an indirect buffer: up to n words, cut at the first miss.    *)
Body(s, n) ==
  LET Agp(i) == s.regs[INDOFF] + i
      hits == {k \in 0..n : \A i \in 0 .. k - 1 : GartHit(s.gart, Agp(i))}
      len  == CHOOSE k \in hits : \A j \in hits : j <= k
  IN  [i \in 1..len |-> s.mem[GartAddress(s.gart, Agp(i - 1))]]

(* Mutant: the body is appended behind what the guest queued since. *)
DrainOneTail(s) ==
  LET t == [s EXCEPT !.pend = Tail(@), !.depth = IF @ > 0 THEN @ - 1 ELSE 0]
  IN  IF s.depth <= 0 THEN t
      ELSE [t EXCEPT !.stream = @ \o Body(s, Head(s.pend)), !.fetched = @ + 1]

(* Mutant: the budget allows one dispatch too many. *)
DrainOneOff(s) ==
  LET t == [s EXCEPT !.pend = Tail(@), !.depth = @ - 1]
  IN  IF s.depth < 0 THEN t
      ELSE [t EXCEPT !.stream = Body(s, Head(s.pend)) \o @, !.fetched = @ + 1]

(* cceDrainPending: one dispatch of the budget per pending size, an unusable *)
(* size skipped, the body spliced at the head of the stream.                *)
DrainOne(s) ==
  LET n == Head(s.pend)
      t == [s EXCEPT !.pend = Tail(@), !.depth = IF @ > 0 THEN @ - 1 ELSE 0]
  IN  IF s.depth <= 0 \/ n = 0 \/ n > MaxBody THEN t
      ELSE [t EXCEPT !.stream = Body(s, n) \o @, !.fetched = @ + 1]

(* The words a header still needs; a filler needs none.                     *)
BodyLen(w) == CASE w.t = 2 -> 0 [] w.t = 1 -> 2 [] w.t \in {0, 3} -> w.n

(* One whole packet: Type-0 writes n registers (or one register n times),   *)
(* Type-1 two, Type-2 none, and a Type-3 body goes by the header's count    *)
(* whatever the operation made of it.                                       *)
ExecPacket(s, w, body) ==
  CASE w.t = 0 -> FoldLeftDomain(LAMBDA q, i : CceRegWrite(q, IF w.one THEN w.r1 ELSE w.r1 + i - 1,
                                                           body[i].v), s, body)
    [] w.t = 1 -> CceRegWrite(CceRegWrite(s, w.r1, body[1].v), w.r2, body[2].v)
    [] w.t = 2 -> s
    [] w.t = 3 -> [s EXCEPT !.log = Append(@, [k |-> IF w.r1 \in KnownOps THEN "op" ELSE "skip",
                                               r |-> w.r1, v |-> [i \in DOMAIN body |-> body[i].v]])]

(* cceParse: drain the dispatches, then execute the packet at the head once *)
(* all of it is there, until a partial packet or nothing is left.           *)
ParseStep(s) ==
  LET w == Head(s.stream)
      n == BodyLen(w)
  IN  IF s.pend # <<>> THEN DrainOne(s)
      ELSE ExecPacket([s EXCEPT !.stream = SubSeq(@, n + 2, Len(@))],
                      w, SubSeq(s.stream, 2, n + 1))

RECURSIVE CceParse(_)
CceParse(s) ==
  IF s.pend = <<>> /\ (s.stream = <<>> \/ Len(s.stream) < 1 + BodyLen(Head(s.stream)))
  THEN s
  ELSE CHOOSE r \in {CceParse(t) : t \in {ParseStep(s)}} : TRUE

(* A guest-visible entry starts with a full budget.                         *)
Entry(words, pending) ==
  CceParse([stream |-> stream \o words, pend |-> pending, depth |-> Budget, regs |-> regs,
            log |-> log, gart |-> gart, mem |-> ram, fetched |-> 0])

Apply(s) == /\ stream' = s.stream /\ regs' = s.regs /\ log' = s.log /\ fetched' = s.fetched
-----------------------------------------------------------------------------
FirstGart == [g \in DOMAIN GartFull |-> IF g \in LatePages THEN Invalid ELSE GartFull[g]]
IdleRing  == [r |-> 0, w |-> 0, back |-> 0, run |-> FALSE]

Init == /\ machines = 1 /\ stream = <<>>
        /\ prog \in Programs /\ pos = 0 /\ regs = NoRegs /\ log = <<>>
        /\ ram = Memory /\ gart = FirstGart /\ ring = IdleRing /\ fetched = 0

More == pos < Len(prog.items)

(* r128CceFifoWord: one word of a packet arrives through PM4_FIFO_DATA.     *)
FifoWord ==
  /\ prog.mode = "pio" /\ More /\ prog.items[pos + 1].via = "fifo"
  /\ \E s \in {Entry(<<prog.items[pos + 1].w>>, <<>>)} : Apply(s)
  /\ pos' = pos + 1
  /\ UNCHANGED <<prog, ram, gart, ring, machines>>

(* r128CceIndirect: a guest store to PM4_IW_INDSIZE itself dispatches.      *)
IndirectStore ==
  /\ prog.mode = "pio" /\ More /\ prog.items[pos + 1].via = "store"
  /\ \E s \in {Entry(<<>>, <<prog.items[pos + 1].w.v>>)} : Apply(s)
  /\ pos' = pos + 1
  /\ UNCHANGED <<prog, ram, gart, ring, machines>>

(* r128CceRingKick: fetch from the read pointer to the write pointer, park  *)
(* at a miss, execute what was fetched, write the read pointer back to RAM. *)
RingSpan(rg, r) == (rg.w - r + RingWords) % RingWords

(* Mutant: the read pointer does not wrap. *)
RingAdvanceFlat(r, len) == r + len

RingAdvance(r, len) == (r + len) % RingWords

(* Mutant: the read pointer is not written back to RAM. *)
RingBackNever(rg, r) == [rg EXCEPT !.r = r]

RingBack(rg, r) == [rg EXCEPT !.r = r, !.back = r]

RingKick(rg) ==
  LET Agp(i) == RingBase + ((rg.r + i) % RingWords)
      hits == {k \in 0 .. RingSpan(rg, rg.r) : \A i \in 0 .. k - 1 : GartHit(gart, Agp(i))}
      len  == CHOOSE k \in hits : \A j \in hits : j <= k
      r    == RingAdvance(rg.r, len)
  IN  IF ~rg.run \/ rg.r = rg.w
      THEN /\ ring' = rg /\ fetched' = 0
           /\ UNCHANGED <<stream, regs, log>>
      ELSE /\ \E s \in {Entry([i \in 1..len |-> ram[GartAddress(gart, Agp(i - 1))]], <<>>)} : Apply(s)
           /\ ring' = RingBack(rg, r)

(* The driver puts k words in the ring, no further than the read pointer it *)
(* last saw in RAM leaves free, and then moves PM4_BUFFER_DL_WPTR.          *)
RingFree == RingWords - 1 - ((ring.w - ring.back + RingWords) % RingWords)

RingSubmit(k) ==
  /\ prog.mode = "ring" /\ pos + k <= Len(prog.items) /\ k <= RingFree
  /\ ram' = [a \in DOMAIN ram |->
               LET hit == {i \in 0 .. k - 1 :
                             a = GartAddress(GartFull, RingBase + ((ring.w + i) % RingWords))}
               IN  IF hit = {} THEN ram[a] ELSE prog.items[pos + 1 + CHOOSE i \in hit : TRUE].w]
  /\ pos' = pos + k
  /\ ring' = [ring EXCEPT !.w = (@ + k) % RingWords]
  /\ fetched' = 0
  /\ UNCHANGED <<prog, stream, regs, log, gart, machines>>

(* The doorbell: a write of the write pointer, or of PM4_MICRO_CNTL.        *)
Doorbell ==
  /\ prog.mode = "ring" /\ ring.back # ring.w
  /\ RingKick([ring EXCEPT !.run = TRUE])
  /\ UNCHANGED <<prog, pos, ram, gart, machines>>

DoorbellParked ==
  /\ prog.mode = "ring" /\ ring.back # ring.w /\ ~ring.run
  /\ RingKick(ring)
  /\ UNCHANGED <<prog, pos, ram, gart, machines>>

(* The driver completes its GART.                                           *)
MapPages ==
  /\ gart # GartFull
  /\ gart' = GartFull
  /\ fetched' = 0
  /\ UNCHANGED <<prog, pos, stream, regs, log, ram, ring, machines>>

(* Stop and start: the staging is process-global and outlives the machine   *)
(* unless creation resets it (r128CceReset).                                *)
CceReset(staged) == <<>>

NewMachine ==
  /\ machines < MaxMachines
  /\ machines' = machines + 1
  /\ stream' = CceReset(stream)
  /\ prog' \in Programs /\ pos' = 0 /\ regs' = NoRegs /\ log' = <<>>
  /\ ram' = Memory /\ gart' = FirstGart /\ ring' = IdleRing /\ fetched' = 0

Next == \/ FifoWord \/ IndirectStore \/ Doorbell \/ DoorbellParked \/ MapPages \/ NewMachine
        \/ \E k \in 1 .. RingWords - 1 : RingSubmit(k)

(* The driver goes on submitting, completes its GART and rings the doorbell. *)
Fairness == /\ WF_vars(FifoWord \/ IndirectStore \/ \E k \in 1 .. RingWords - 1 : RingSubmit(k))
            /\ WF_vars(MapPages) /\ WF_vars(Doorbell)

Spec == Init /\ [][Next]_vars /\ Fairness
-----------------------------------------------------------------------------
(* What a stream means: packets in order, the body of a dispatch executed   *)
(* between the packet that asked for it and the next one.                   *)
RECURSIVE Meaning(_, _), Dispatches(_, _)
Dispatches(m, sizes) ==
  IF sizes = <<>> THEN m
  ELSE LET b == Meaning(<<m[1], m[2]>>, [i \in 1 .. Head(sizes) |->
                          Memory[GartAddress(GartFull, m[2] + i - 1)]])
       IN  Dispatches(b, Tail(sizes))
Meaning(m, words) ==
  IF words = <<>> \/ Len(words) < 1 + BodyLen(Head(words)) THEN m
  ELSE LET w == Head(words)
           n == BodyLen(w)
           s == ExecPacket([log |-> m[1], regs |-> [NoRegs EXCEPT ![INDOFF] = m[2]], pend |-> <<>>],
                           w, SubSeq(words, 2, n + 1))
       IN  Meaning(Dispatches(<<s.log, s.regs[INDOFF]>>, s.pend), SubSeq(words, n + 2, Len(words)))

Arrive(m, item) ==
  LET words == Append(m.part, item.w)
      whole == Len(words) = 1 + BodyLen(Head(words))
      done  == IF item.via = "store" THEN Dispatches(<<m.log, m.off>>, <<item.w.v>>)
               ELSE IF whole THEN Meaning(<<m.log, m.off>>, words)
               ELSE <<m.log, m.off>>
  IN  [log |-> done[1], off |-> done[2],
       part |-> IF item.via = "store" THEN m.part ELSE IF whole THEN <<>> ELSE words]

Whole(p) == FoldLeft(Arrive, [log |-> <<>>, off |-> 0, part |-> <<>>], p.items).log
-----------------------------------------------------------------------------
TypeOK == /\ pos \in 0 .. Len(prog.items)
          /\ ring.r \in 0 .. RingWords - 1 /\ ring.w \in 0 .. RingWords - 1
          /\ ring.back \in 0 .. RingWords - 1

(* The card executes exactly what the driver's stream means, in its order:  *)
(* at any moment a prefix of it, whether the words came one store at a time *)
(* (with a store to INDSIZE in the middle of a packet) or through the       *)
(* wrapping ring, with pages of it mapped late, and whatever a machine      *)
(* before this one left half submitted. In particular the fence at the end  *)
(* lands after everything before it (cceParse, cceDrainPending).            *)
ExecutedInOrder == ~prog.cyclic => IsPrefix(log, Whole(prog))

(* A body that dispatches itself costs one guest store no more than the     *)
(* budget (the gCceDepth of each entry).                                    *)
BudgetHolds == fetched <= Budget

FenceLanded == log = Whole(prog) /\ stream = <<>>

(* The driver's last fence lands.                                           *)
FenceLands ==
  (~prog.cyclic /\ machines = MaxMachines) ~> FenceLanded
=============================================================================
