-------------------------------- MODULE Jit --------------------------------
(***************************************************************************)
(* The compiled-line cache (core/src/jit.cpp, core/include/opm/jit.hpp)    *)
(* inside Cpu::runSteps (core/src/cpu.cpp).  A fetch line compiles to one  *)
(* native block; a block jumps straight into the block of its successor    *)
(* once the resolver has linked the two; the link is undone (severed) when *)
(* the successor's cache way stops describing its line.                    *)
(*                                                                         *)
(* Addresses are numbers of words.  A line has LineWords words, a page     *)
(* LinesPerPage lines, and a fetch slot and its compiled ways are shared   *)
(* by the lines that are equal modulo Slots.  The word an instruction      *)
(* holds is abstracted to the way the emitter treats it:                   *)
(*   "alu"    inlined, counted in rbx (bump)                               *)
(*   "mem"    a shim call around a load or store                           *)
(*   "fp"     a direct call of an FP compute handler, batch kept in rbx    *)
(*   "br"     b or bc with the target `to`                                 *)
(*   "mtmsr"  an execRow fallback that changes MSR and ends no batch       *)
(*   "remap"  an execRow fallback that changes the mapping, ends the batch *)
(***************************************************************************)
EXTENDS Naturals, Sequences, FiniteSets

CONSTANTS
    LineWords,      \* words of a fetch line (8)
    LinesPerPage,   \* lines of a page (128)
    Lines,          \* lines of the guest's memory
    Slots,          \* fetch slots (Cpu::kFetchLines)
    Ways,           \* JitCache::kWays
    Brefs,          \* JitLine::kBrefs
    ArenaBlocks,    \* blocks the arena holds before it is full
    Budget,         \* instructions of a batch
    Contents,       \* what a line of memory may hold: sequences of words
    Patches,        \* what a write may leave in a line
    Programs,       \* the memories a run may start with
    Msrs,           \* the MSR values software uses: [ir, ee, fe]
    Vector,         \* word address of the exception handler
    MaxWrites       \* bound: writes to memory, by the program or by DMA

(* Memory is whole pages, and a word is one the emitter knows, with a      *)
(* target inside memory if it branches.                                    *)
ASSUME JitConstants ==
    /\ {LineWords, LinesPerPage, Lines, Slots, Ways, ArenaBlocks} \subseteq Nat \ {0}
    /\ {Brefs, Budget, MaxWrites} \subseteq Nat
    /\ Lines % LinesPerPage = 0
    /\ \A c \in Contents : \A x \in 1..LineWords :
          /\ c[x].op \in {"alu", "mem", "fp", "br", "mtmsr", "remap"}
          /\ c[x].op = "br" => c[x].to \in 0..(Lines * LineWords - 1)
    /\ Patches \subseteq Contents
    /\ Programs \subseteq [0..(Lines - 1) -> Contents]
    /\ Msrs \subseteq [ir: BOOLEAN, ee: BOOLEAN, fe: BOOLEAN]
    /\ Vector \in 0..(Lines * LineWords - 1)

VARIABLES
    mem,      \* mem[l]: the content of line l
    fl,       \* Cpu::fetchLine: fl[s] = [base, w]
    ways,     \* JitCache::line: ways[s][k] = [base, va, srcW, blk, bref]
    rr,       \* JitCache::rr
    arena,    \* emitted blocks: [base, va, w, site]
    msr,      \* MSR: instruction translation, external interrupts, FP traps
    alt,      \* which of two mappings the page tables describe
    xl,       \* the one-page fetch translation: [ok, page, ir, pp]
    irq,      \* an asynchronous exception is pending
    pc,       \* CpuState::pc
    run,      \* where runSteps is: [mode, blk, word, rbx]
    stamp,    \* the caller's instruction counter, from the batch's start
    brk,      \* Cpu::batchBreak
    ref,      \* what per-instruction accounting says: [n, pc, trapped]
    writes    \* writes made so far

code == <<ways, rr, arena>>
vars == <<mem, fl, ways, rr, arena, msr, alt, xl, irq, pc, run, stamp, brk,
          ref, writes>>

NoLine == Lines          \* JitLine::base and FetchLine::base of 1
Thunk == 0               \* a site that asks the resolver (kChainRelThunk)
Park == ArenaBlocks + 1  \* a site that gave up (kChainRelPark)

Slot(l) == l % Slots
Page(l) == l \div LinesPerPage
LineOf(a) == a \div LineWords
Succ(a) == (a + 1) % (Lines * LineWords)   \* addresses wrap

(* Untranslated pages are themselves; the page tables hold either the same *)
(* map or the one that turns the pages round.                              *)
PhysPage(p) == IF msr.ir /\ alt THEN Page(Lines - 1) - p ELSE p

PaOf(pp, l) == pp * LinesPerPage + (l % LinesPerPage)

Dead == [base |-> NoLine, va |-> 0, srcW |-> <<>>, blk |-> 0, bref |-> {}]

----------------------------------------------------------------------------
(* What one instruction does to the machine, whoever executes it, with f   *)
(* for the fetch lines and x for the fetch translation.                    *)

Fallthrough(cia, f, x) ==
    [mem |-> mem, fl |-> f, xl |-> x, msr |-> msr, alt |-> alt, irq |-> irq,
     writes |-> writes, brk |-> brk, pc |-> Succ(cia), trapped |-> FALSE]

NoMsr == [ir |-> FALSE, ee |-> FALSE, fe |-> FALSE]

Exception(o) == [o EXCEPT !.msr = NoMsr, !.pc = Vector]

(* A write reaches memory and drops the fetch line that holds it.          *)
FetchDropAt(f, l) ==
    IF f[Slot(l)].base = l THEN [f EXCEPT ![Slot(l)].base = NoLine] ELSE f

Written(o, l, c) ==
    [o EXCEPT !.mem[l] = c, !.fl = FetchDropAt(@, l), !.writes = @ + 1]

Writes(o) ==
    IF writes = MaxWrites THEN {}
    ELSE {Written(o, l, c) : l \in 0..(Lines - 1), c \in Patches}

(* A load or store: an ordinary access, a fault, a store into a line, or a *)
(* device access, which reads the clock and so ends the batch.             *)
MemOutcomes(o) ==
    {o, Exception(o), [o EXCEPT !.brk = TRUE, !.irq = TRUE]} \cup Writes(o)

Outcomes(i, cia, f, x) ==
    LET o == Fallthrough(cia, f, x)
        trap == [Exception(o) EXCEPT !.trapped = TRUE]
    IN  CASE i.op = "alu" -> {o}
          [] i.op = "mem" -> MemOutcomes(o)
          [] i.op = "fp" -> IF msr.fe THEN {o, trap} ELSE {o}
          [] i.op = "br" -> {o, [o EXCEPT !.pc = i.to]}
          [] i.op = "mtmsr" -> {[o EXCEPT !.msr = v] : v \in Msrs}
          [] i.op = "remap" -> {[o EXCEPT !.alt = ~alt, !.brk = TRUE, !.xl.ok = FALSE]}

Apply(o) ==
    /\ mem' = o.mem /\ fl' = o.fl /\ xl' = o.xl
    /\ msr' = o.msr /\ alt' = o.alt /\ irq' = o.irq
    /\ writes' = o.writes /\ brk' = o.brk

(* The accounting the line executor would have made; the count stops one   *)
(* past the batch.                                                         *)
Counted(n) == IF n > Budget THEN n ELSE n + 1

Account(o) ==
    ref' = [n |-> Counted(ref.n), pc |-> o.pc, trapped |-> ref.trapped \/ o.trapped]

----------------------------------------------------------------------------
(* The cache: sever, refill, compile, resolve.  A site is <<block, exit>>. *)

SeverNot(a, sites) == a

(* sever: the recorded sites go back to their resolver thunk.              *)
Sever(a, sites) ==
    [b \in DOMAIN a |->
        [a[b] EXCEPT !.site = [x \in DOMAIN @ |->
            IF <<b, x>> \in sites THEN Thunk ELSE @[x]]]]

StaleNever(s, l, w) == {}

(* jitNoteRefill: a way of this base keeps its block only if the refilled  *)
(* words are the compiled ones.                                            *)
Stale(s, l, w) == {k \in 1..Ways : ways[s][k].base = l /\ ways[s][k].srcW # w}

JitNoteRefill(s, l, w) ==
    /\ arena' = Sever(arena, UNION {ways[s][k].bref : k \in Stale(s, l, w)})
    /\ ways' = [ways EXCEPT ![s] = [k \in 1..Ways |->
                   IF k \in Stale(s, l, w)
                   THEN Dead ELSE @[k]]]
    /\ UNCHANGED rr

(* dropAll: no way describes a line and no way remembers a site.           *)
DropAll(ws) ==
    [s \in DOMAIN ws |-> [k \in 1..Ways |-> Dead]]

First(ks) == CHOOSE k \in ks : \A j \in ks : k <= j

(* The exits of a block and where each goes: a branch, or the line's end.  *)
LineAfter(b) == Succ(b.va * LineWords + LineWords - 1)

Target(b, x) == IF x > LineWords THEN LineAfter(b) ELSE b.w[x].to

Fresh(l, v, w) ==
    [base |-> l, va |-> v, w |-> w, site |-> [x \in 1..(LineWords + 1) |-> Thunk]]

(* compileLine: a full arena starts over; the victim way is the first dead *)
(* one, else the slot's round robin, and the sites into its old block are  *)
(* severed.                                                                *)
CompileLine(s, l, w, v) ==
    LET full == Len(arena) = ArenaBlocks
        ws == IF full THEN DropAll(ways) ELSE ways
        turn == IF full THEN [t \in DOMAIN rr |-> 0] ELSE rr
        dead == {k \in 1..Ways : ws[s][k].base = NoLine}
        way == IF dead # {} THEN First(dead) ELSE turn[s] + 1
        code0 == IF full THEN <<>> ELSE arena
    IN  /\ arena' = Append(Sever(code0, ws[s][way].bref), Fresh(l, v, w))
        /\ ways' = [ws EXCEPT ![s][way] = [base |-> l, va |-> v, srcW |-> w,
                                           blk |-> Len(code0) + 1, bref |-> {}]]
        /\ rr' = IF dead # {} THEN turn ELSE [turn EXCEPT ![s] = (@ + 1) % Ways]

Describing(l, v) == {k \in 1..Ways : ways[Slot(l)][k].base = l /\ ways[Slot(l)][k].va = v}

BrefFullLate(jl) == Cardinality(jl.bref) > Brefs

BrefFull(jl) == Cardinality(jl.bref) >= Brefs

(* opmJitChainResolve for exit x of block b: a miss, a site parked because *)
(* the list of sites is full, or a link and the record that undoes it.     *)
Resolve(b, x, l, v) ==
    LET k == First(Describing(l, v))
        jl == ways[Slot(l)][k]
    IN  \/ /\ Describing(l, v) = {}
           /\ UNCHANGED code
        \/ /\ Describing(l, v) # {}
           /\ BrefFull(jl)
           /\ arena' = [arena EXCEPT ![b].site[x] = Park]
           /\ UNCHANGED <<ways, rr>>
        \/ /\ Describing(l, v) # {}
           /\ ~BrefFull(jl)
           /\ arena' = [arena EXCEPT ![b].site[x] = jl.blk]
           /\ ways' = [ways EXCEPT ![Slot(l)][k].bref = @ \cup {<<b, x>>}]
           /\ UNCHANGED rr

----------------------------------------------------------------------------
(* runSteps: the dispatcher, step() and the line executor.                 *)

Idle == [mode |-> "disp", blk |-> 0, word |-> 1, rbx |-> 0]

Dispatching == run.mode = "disp" /\ ~brk /\ stamp < Budget

slow == msr.ee /\ irq

(* fetchBlockFast: the resident line at address a, or NoLine.              *)
FetchBlockFast(a) ==
    LET l == PaOf(xl.pp, LineOf(a))
    IN  IF xl.ok /\ xl.page = Page(LineOf(a)) /\ xl.ir = msr.ir /\ fl[Slot(l)].base = l
        THEN l ELSE NoLine

WordOf(a) == (a % LineWords) + 1

(* step(): the pending interrupt, taken instead of an instruction.         *)
StepInterrupt ==
    /\ Dispatching /\ slow
    /\ msr' = NoMsr
    /\ pc' = Vector
    /\ irq' = FALSE
    /\ stamp' = stamp + 1
    /\ ref' = [ref EXCEPT !.n = Counted(@), !.pc = Vector]
    /\ UNCHANGED <<mem, fl, alt, writes, brk, run, xl, code>>

(* step(): one instruction through fetchDecoded, which fills the line and  *)
(* tells the cache of the refill before anything executes.                 *)
StepOne ==
    /\ Dispatching /\ ~slow /\ FetchBlockFast(pc) = NoLine
    /\ LET page == Page(LineOf(pc))
           x == [ok |-> TRUE, page |-> page, ir |-> msr.ir, pp |-> PhysPage(page)]
           l == PaOf(x.pp, LineOf(pc))
           hit == fl[Slot(l)].base = l
           f == IF hit THEN fl ELSE [fl EXCEPT ![Slot(l)] = [base |-> l, w |-> mem[l]]]
       IN  /\ \/ hit /\ UNCHANGED code
              \/ ~hit /\ JitNoteRefill(Slot(l), l, mem[l])
           /\ \E o \in Outcomes(f[Slot(l)].w[WordOf(pc)], pc, f, x) :
                 Apply(o) /\ Account(o) /\ pc' = o.pc
    /\ stamp' = stamp + 1
    /\ UNCHANGED run

(* A resident line, and less than a line left of the batch: the line       *)
(* executor runs words until one of its exit tests ends the line.          *)
EnterLine ==
    /\ Dispatching /\ ~slow /\ FetchBlockFast(pc) # NoLine
    /\ Budget - stamp < LineWords
    /\ run' = [Idle EXCEPT !.mode = "line", !.blk = FetchBlockFast(pc), !.word = WordOf(pc)]
    /\ UNCHANGED <<mem, fl, code, msr, alt, xl, irq, pc, stamp, brk, ref, writes>>

LineWord ==
    /\ run.mode = "line"
    /\ \E o \in Outcomes(fl[Slot(run.blk)].w[run.word], pc, fl, xl) :
          /\ Apply(o) /\ Account(o) /\ pc' = o.pc
          /\ run' = IF \/ o.brk \/ stamp + 1 >= Budget \/ o.pc # Succ(pc)
                       \/ run.word = LineWords \/ o.fl[Slot(run.blk)].base # run.blk
                    THEN Idle ELSE [run EXCEPT !.word = @ + 1]
    /\ stamp' = stamp + 1
    /\ UNCHANGED code

(* jitRunLine: the way of (base, va), compiled first if there is none.     *)
EnterJit ==
    /\ Dispatching /\ ~slow /\ FetchBlockFast(pc) # NoLine
    /\ Budget - stamp >= LineWords
    /\ LET l == FetchBlockFast(pc)
           v == LineOf(pc)
       IN  /\ \/ Describing(l, v) # {} /\ UNCHANGED code
              \/ Describing(l, v) = {} /\ CompileLine(Slot(l), l, fl[Slot(l)].w, v)
           /\ \E k \in 1..Ways :
                 /\ ways'[Slot(l)][k].base = l /\ ways'[Slot(l)][k].va = v
                 /\ run' = [mode |-> "jit", blk |-> ways'[Slot(l)][k].blk,
                            word |-> WordOf(pc), rbx |-> 0]
    /\ UNCHANGED <<mem, fl, msr, alt, xl, irq, pc, stamp, brk, ref, writes>>

----------------------------------------------------------------------------
(* Emitted code.                                                           *)

Blk == arena[run.blk]
Cia == Blk.va * LineWords + run.word - 1
InBlock(op) == run.mode = "jit" /\ run.word <= LineWords /\ Blk.w[run.word].op = op

(* flCheck: the line under the block is still resident.                    *)
FlCheck(f) == f[Slot(Blk.base)].base = Blk.base

NextWord(rbx) == [run EXCEPT !.word = @ + 1, !.rbx = rbx]

(* An inlined register instruction: bump, with pc left behind.             *)
Inlined ==
    /\ InBlock("alu")
    /\ \E o \in Outcomes(Blk.w[run.word], Cia, fl, xl) : Apply(o) /\ Account(o)
    /\ run' = NextWord(run.rbx + 1)
    /\ UNCHANGED <<pc, stamp, code>>

(* A load, a store or an execRow fallback: flush, call, count, exit tests. *)
FlushedNot == stamp

Flushed == stamp + run.rbx

Called ==
    /\ InBlock("mem") \/ InBlock("mtmsr") \/ InBlock("remap")
    /\ \E o \in Outcomes(Blk.w[run.word], Cia, fl, xl) :
          /\ Apply(o) /\ Account(o) /\ pc' = o.pc
          /\ run' = IF o.brk \/ o.pc # Succ(Cia) \/ ~FlCheck(o.fl)
                    THEN Idle ELSE NextWord(0)
    /\ stamp' = Flushed + 1
    /\ UNCHANGED code

(* An FP compute handler called directly: pc is stored, the counters stay  *)
(* in rbx across the call and are lost if the exit tests leave the block.  *)
CalledDirect ==
    /\ InBlock("fp")
    /\ \E o \in Outcomes(Blk.w[run.word], Cia, fl, xl) :
          /\ Apply(o) /\ Account(o) /\ pc' = o.pc
          /\ run' = IF o.brk \/ o.pc # Succ(Cia) \/ ~FlCheck(o.fl)
                    THEN Idle ELSE NextWord(run.rbx + 1)
    /\ UNCHANGED <<stamp, code>>

ChainChecksNoMsr(st) == ~brk /\ ~slow /\ Budget - st >= LineWords

ChainChecksNoBudget(st) == ~brk /\ ~slow /\ msr.ir = xl.ir

(* chainChecks: everything the dispatcher would have tested.               *)
ChainChecks(st) == ~brk /\ ~slow /\ msr.ir = xl.ir /\ Budget - st >= LineWords

Leave == run' = Idle /\ UNCHANGED code

(* chainOrExit with the counters flushed: a target in this line, a target  *)
(* in this page through the site, or the dispatcher.                       *)
ChainOrExit(x, st) ==
    LET to == Target(Blk, x)
        v == LineOf(to)
        l == PaOf(Page(Blk.base), v)
        site == Blk.site[x]
    IN  \/ /\ v = Blk.va /\ ChainChecks(st)
           /\ run' = [run EXCEPT !.word = WordOf(to), !.rbx = 0]
           /\ UNCHANGED code
        \/ /\ v # Blk.va /\ Page(v) = Page(Blk.va)
           /\ ChainChecks(st) /\ fl[Slot(l)].base = l
           /\ \/ /\ site = Thunk
                 /\ Resolve(run.blk, x, l, v)
                 /\ run' = Idle
              \/ site = Park /\ Leave
              \/ /\ site \notin {Thunk, Park}
                 /\ run' = [run EXCEPT !.blk = site, !.word = WordOf(to), !.rbx = 0]
                 /\ UNCHANGED code
        \/ /\ v # Blk.va /\ Page(v) = Page(Blk.va)
           /\ ~(ChainChecks(st) /\ fl[Slot(l)].base = l)
           /\ Leave
        \/ v = Blk.va /\ ~ChainChecks(st) /\ Leave
        \/ Page(v) # Page(Blk.va) /\ Leave

(* b and bc: a branch not taken is one more bump.                          *)
Branch ==
    /\ InBlock("br")
    /\ \E o \in Outcomes(Blk.w[run.word], Cia, fl, xl) :
          /\ Apply(o) /\ Account(o)
          /\ \/ /\ o.pc = Succ(Cia)
                /\ run' = NextWord(run.rbx + 1)
                /\ UNCHANGED <<pc, stamp, code>>
             \/ /\ o.pc # Succ(Cia)
                /\ pc' = o.pc
                /\ stamp' = Flushed + 1
                /\ ChainOrExit(run.word, Flushed + 1)

(* The end of the line: settle pc and the counters, chain or leave.        *)
LineEnd ==
    /\ run.mode = "jit" /\ run.word = LineWords + 1
    /\ pc' = LineAfter(Blk)
    /\ stamp' = Flushed
    /\ ChainOrExit(LineWords + 1, Flushed)
    /\ UNCHANGED <<mem, fl, xl, msr, alt, irq, writes, brk, ref>>

----------------------------------------------------------------------------
(* Between batches: the machine loop ends one and starts the next, a       *)
(* device writes memory, the machine is reset.                             *)

Edge == run.mode = "disp" /\ (brk \/ stamp >= Budget)

NewBatch ==
    /\ Edge
    /\ stamp' = 0
    /\ brk' = FALSE
    /\ ref' = [n |-> 0, pc |-> pc, trapped |-> FALSE]
    /\ UNCHANGED <<mem, fl, code, msr, alt, xl, irq, pc, run, writes>>

DmaWrite ==
    /\ Edge
    /\ \E o \in Writes(Fallthrough(pc, fl, xl)) : mem' = o.mem /\ fl' = o.fl /\ writes' = o.writes
    /\ UNCHANGED <<code, msr, alt, xl, irq, pc, run, stamp, brk, ref>>

Reset ==
    /\ Edge
    /\ fl' = [s \in DOMAIN fl |-> [fl[s] EXCEPT !.base = NoLine]]
    /\ ways' = DropAll(ways)
    /\ rr' = [s \in DOMAIN rr |-> 0]
    /\ msr' = NoMsr
    /\ xl' = [xl EXCEPT !.ok = FALSE]
    /\ irq' = FALSE
    /\ pc' = Vector
    /\ brk' = TRUE
    /\ ref' = [ref EXCEPT !.pc = Vector]
    /\ UNCHANGED <<mem, arena, alt, run, stamp, writes>>

Init ==
    /\ mem \in Programs
    /\ fl = [s \in 0..(Slots - 1) |-> [base |-> NoLine, w |-> mem[0]]]
    /\ ways = [s \in 0..(Slots - 1) |-> [k \in 1..Ways |-> Dead]]
    /\ rr = [s \in 0..(Slots - 1) |-> 0]
    /\ arena = <<>>
    /\ msr = NoMsr
    /\ alt = FALSE
    /\ xl = [ok |-> FALSE, page |-> 0, ir |-> FALSE, pp |-> 0]
    /\ irq = FALSE
    /\ pc = Vector
    /\ run = Idle
    /\ stamp = 0
    /\ brk = FALSE
    /\ ref = [n |-> 0, pc |-> Vector, trapped |-> FALSE]
    /\ writes = 0

Next ==
    \/ StepInterrupt \/ StepOne \/ EnterLine \/ LineWord \/ EnterJit
    \/ Inlined \/ Called \/ CalledDirect \/ Branch \/ LineEnd
    \/ NewBatch \/ DmaWrite \/ Reset

Spec == Init /\ [][Next]_vars

----------------------------------------------------------------------------
(* Properties.                                                             *)

Blocks == [base: 0..(Lines - 1), va: 0..(Lines - 1), w: Contents,
           site: [1..(LineWords + 1) -> 0..(ArenaBlocks + 1)]]

(* The cache never grows past its arena, its ways and its lists of sites.  *)
TypeOK ==
    /\ mem \in [0..(Lines - 1) -> Contents]
    /\ \A s \in DOMAIN fl : fl[s].base \in 0..Lines /\ fl[s].w \in Contents
    /\ Len(arena) <= ArenaBlocks
    /\ \A b \in DOMAIN arena : arena[b] \in Blocks
    /\ \A s \in DOMAIN ways, k \in 1..Ways :
          /\ ways[s][k].base \in 0..Lines
          /\ Cardinality(ways[s][k].bref) <= Brefs
    /\ rr \in [0..(Slots - 1) -> 0..(Ways - 1)]
    /\ run.mode \in {"disp", "line", "jit"}
    /\ run.rbx \in 0..LineWords
    /\ stamp \in 0..Budget

(* Self-modifying code, DMA into code and slot conflicts notwithstanding,  *)
(* emitted code runs only while the words it was compiled from are those   *)
(* of the resident line, which the line executor would have read           *)
(* (jit.hpp:20-27; flCheck, jitNoteRefill, the chain's residency test).    *)
NoStaleCode ==
    run.mode = "jit" /\ run.word <= LineWords =>
        fl[Slot(Blk.base)] = [base |-> Blk.base, w |-> Blk.w]

(* Every link out of a block that can still be reached leads to a block    *)
(* some way describes, and that way can undo it (JitLine::bref: a link     *)
(* that cannot be severed is a use after invalidate).                      *)
LinksAreSeverable ==
    \A s \in DOMAIN ways : \A k \in 1..Ways : ways[s][k].base # NoLine =>
        LET b == ways[s][k].blk
        IN  \A x \in 1..(LineWords + 1) : arena[b].site[x] \notin {Thunk, Park} =>
                LET v == LineOf(Target(arena[b], x))
                    l == PaOf(Page(arena[b].base), v)
                IN  \E j \in Describing(l, v) :
                        /\ ways[Slot(l)][j].blk = arena[b].site[x]
                        /\ <<b, x>> \in ways[Slot(l)][j].bref

(* A hop from block to block is taken only where the dispatcher would have *)
(* entered that very block at that very word: no pending interrupt, the    *)
(* current translation, a resident line, a whole line of budget            *)
(* (chainChecks and chainCross).                                           *)
DispatchedHop ==
    run.mode = "jit" /\ run'.mode = "jit" /\ run'.word # run.word + 1 =>
        /\ ~slow' /\ ~brk'
        /\ Budget - stamp' >= LineWords
        /\ FetchBlockFast(pc)' # NoLine
        /\ arena[run'.blk].base = FetchBlockFast(pc)'
        /\ arena[run'.blk].va = LineOf(pc') /\ run'.word = WordOf(pc')

HopIsDispatch == [][DispatchedHop]_vars

(* Back in the dispatcher, pc and the instruction count are the ones       *)
(* per-instruction accounting gives, and the batch has not run past its    *)
(* budget, unless an enabled floating-point trap left a block.             *)
CountersExact ==
    ~ref.trapped => /\ ref.n <= Budget
                    /\ run.mode # "jit" => stamp = ref.n /\ pc = ref.pc

(* The same with FP traps: jit.cpp:579-581 says that a flush settles pc,   *)
(* the count and the cycles "before every shim call, and on every exit".   *)
CountersAlwaysExact == run.mode # "jit" => stamp = ref.n /\ pc = ref.pc
============================================================================
