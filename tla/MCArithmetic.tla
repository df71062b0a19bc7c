---------------------------- MODULE MCArithmetic ----------------------------
(***************************************************************************)
(* What the instructions compute, on small words and formats and one part  *)
(* at a time: the software floating point (SoftFp), the FPSCR behind it    *)
(* (Fpscr), the integer executors in the sequences compilers use (Alu),    *)
(* the code the JIT emits for them (Lowering), the loads and stores that   *)
(* fault part way (LoadStore), and the vector unit in the sequences vector *)
(* code is built from (Vector).                                            *)
(***************************************************************************)
EXTENDS Integers, Sequences

CONSTANT Parts    \* the parts a run looks at

\* Doubles of four bits of precision and four of exponent, singles of two
\* and three; a word of softfp.cpp has eight bits.
MCDbl  == [p |-> 4, k |-> 4]
MCSgl  == [p |-> 2, k |-> 3]
MCBand == [lo |-> 7, hi |-> 9]

D(e, f) == {[s |-> s, e |-> e, f |-> f] : s \in BOOLEAN}
MCLefts   == UNION {D(e, f) : e \in {0, 1, 6, 7, 8, 14, 15}, f \in {0, 3, 7}}
             \cup D(4, 0)
MCRights  == UNION {D(e, f) : e \in {0, 1, 5, 7, 8, 14}, f \in {0, 1, 5}}
             \cup D(15, 0) \cup D(15, 1)
MCFactors == D(6, 1) \cup {[s |-> FALSE, e |-> 7, f |-> 4], [s |-> FALSE, e |-> 9, f |-> 0],
               [s |-> TRUE, e |-> 0, f |-> 3], [s |-> TRUE, e |-> 0, f |-> 0],
               [s |-> FALSE, e |-> 15, f |-> 0]}
MCWords   == {[s |-> s, e |-> e, f |-> f] : s \in BOOLEAN, e \in 0..7, f \in 0..1}

E(rn, oe, ue, ni) == [rn |-> rn, oe |-> oe, ue |-> ue, ni |-> ni]
MCEnvs == {E(rn, FALSE, FALSE, FALSE) : rn \in 0..3}
          \cup {E(0, TRUE, TRUE, FALSE), E(2, FALSE, FALSE, TRUE)}
-----------------------------------------------------------------------------
VARIABLES
  part,
  fpscr, fe, wrote, trap, fpInsn,
  prog, in, r, xer, cr0, ctr, lr, pc, trapped,
  insn, pre, g, hostXer, cr, h, fl, at,
  access, le, gpr, mem, mapped, state, first,
  last,
  job, given, vr, vscr, cr6, vmem, vpc

status == <<fpscr, fe, wrote, trap, fpInsn>>
integer == <<prog, in, r, xer, cr0, ctr, lr, pc, trapped>>
emitted == <<insn, pre, g, hostXer, cr, h, fl, at>>
memory == <<access, le, gpr, mem, mapped, state, first>>
vector == <<job, given, vr, vscr, cr6, vmem, vpc>>
all == <<part, last, status, integer, emitted, memory, vector>>

F == INSTANCE SoftFp WITH
       Dbl <- MCDbl, Sgl <- MCSgl, WordBits <- 8, IntBits <- 4, Band <- MCBand,
       Lefts <- MCLefts, Rights <- MCRights, Factors <- MCFactors,
       SingleWords <- MCWords, Envs <- MCEnvs

S == INSTANCE Fpscr WITH
       Results <- {{}, {"XX"}, {"XX", "FR"}, {"VXSNAN"}, {"ZX"}, {"OX", "XX", "FR"}},
       Values <- {{}, {"VE", "ZE", "XE"}, {"ZE", "OX", "FEX"}, {"VX", "XX"}},
       Settable <- {"FX", "FEX", "VXSOFT", "VE"}, insn <- fpInsn

I == INSTANCE Alu WITH
       W <- 4, Inputs <- {0, 1, 3, 6, 7, 8, 9, 13, 15},
       Idioms <- {"add2", "sub2", "neg2", "dec2", "mul2", "mul2u", "shift2",
                  "divrem", "divremu", "half", "extend", "select", "abs", "min",
                  "field", "bounds", "count", "call"}

\* The lowerings, and every way the fields of an instruction can share
\* registers.
LoweredOps ==
  {"add", "addc", "addic", "adde", "addme", "addze", "subf", "subfc", "subfic",
   "subfe", "subfme", "subfze", "neg", "mullw", "mulhw", "mulhwu", "mulli",
   "and", "andc", "or", "orc", "xor", "nor", "nand", "eqv", "slw", "srw",
   "srawi", "rlwinm", "rlwnm", "rlwimi", "cntlzw", "extsb", "extsh", "cmp",
   "cmpl"}

Fields(a, b, c) == [rt |-> a, ra |-> b, rb |-> c]

L == INSTANCE Lowering WITH
       W <- 4, Inputs <- {0, 7, 8, 13}, Shifts <- {0, 1, 3},
       Ops <- LoweredOps,
       Aliases <- {Fields(1, 2, 3), Fields(1, 1, 2), Fields(1, 2, 1), Fields(1, 2, 2)},
       xer <- hostXer

\* Forms the architecture admits (the base is not among the registers a load
\* overwrites), over four registers of two bytes and three pages of four.
Regions(rt, n) == {(rt + k) % 4 : k \in 0 .. (((n + 1) \div 2) - 1)}
Form(op, rt, ra, ea, n) == [op |-> op, rt |-> rt, ra |-> ra, ea |-> ea, n |-> n]
Forms ==
  {Form(op, rt, 0, ea, 0) : op \in {"lmw", "stmw"}, rt \in 1 .. 3, ea \in {0, 2, 3}}
  \cup {p \in {Form(op, rt, ra, ea, n) : op \in {"lsw", "stsw"}, rt \in 0 .. 3,
                                         ra \in {1, 2}, ea \in {1, 2}, n \in {0, 3, 5}} :
          p.ra \notin Regions(p.rt, p.n)}
  \cup {Form(op, 1, 2, ea, 0) : op \in {"lwzu", "stwu", "lwz", "stw", "stwbrx"},
                                ea \in {2, 4}}
  \cup {Form(op, 1, 2, ea, 0) : op \in {"lfsu", "stfsu"}, ea \in {3, 4}}

M == INSTANCE LoadStore WITH
       NRegs <- 4, WB <- 2, PageBytes <- 4, NPages <- 3, Programs <- Forms,
       insn <- access

\* Vector sequences by the widths and signs they come in.
Job(name, w, s, x) == [name |-> name, w |-> w, s |-> s, x |-> x]
FloatPairs == {"fsum", "fused", "forder", "fpick", "fbound"}
Floats     == FloatPairs \cup {"finverse", "fint", "fround"}
VectorJobs ==
  {Job(n, 1, FALSE, x) : n \in {"load", "store"}, x \in 0..31}
  \cup {Job("scalar", w, FALSE, x) : w \in {1, 2, 4}, x \in 0..15}
  \cup {Job("slide", 1, FALSE, x) : x \in 0..15}
  \cup {Job(n, 1, FALSE, 0) : n \in {"left", "right", "select", "pixels", "wide", "widesub"}}
  \cup {Job("shifts", w, FALSE, 0) : w \in {1, 2, 4}}
  \cup {Job("zip", w, FALSE, 0) : w \in {1, 2}} \cup {Job("widen", w, TRUE, 0) : w \in {1, 2}}
  \cup {Job("narrow", w, s, 0) : w \in {2, 4}, s \in BOOLEAN} \cup {Job("narrow", w, TRUE, 1) : w \in {2, 4}}
  \cup {Job(n, w, s, 0) : n \in {"add", "sub", "sticky", "average", "distance", "greatest", "equal"},
                          w \in {1, 2, 4}, s \in BOOLEAN}
  \cup {Job("products", w, s, 0) : w \in {1, 2}, s \in BOOLEAN}
  \cup {Job("fraction", 2, TRUE, 0), Job("total", 1, FALSE, 0), Job("total", 1, TRUE, 0),
        Job("total", 2, TRUE, 0)}
  \cup {Job("dot", 2, s, 0) : s \in BOOLEAN} \cup {Job("bytedot", 1, s, 0) : s \in BOOLEAN}
  \cup {Job(n, 4, FALSE, 0) : n \in FloatPairs \cup {"finverse"}}
  \cup {Job("fint", 4, s, x) : s \in BOOLEAN, x \in 0..2} \cup {Job("fround", 4, FALSE, x) : x \in 0..3}

\* Lanes at the edges of their range, bytes of five bits, rotated so that every
\* two meet; every float of six bits; three blocks of memory.
Edges(w) ==
  LET half == 2^(5 * w - 1)
  IN  <<0, 1, half - 1, half, 2 * half - 1, half + 1, half \div 3, 2 * half - 7>>
Filled(w, n) ==
  [j \in 0..15 |-> (Edges(w)[(((j \div w) + n) % 8) + 1] \div 2^(5 * (w - 1 - (j % w)))) % 32]
Words(n, m) == [k \in 0..3 |-> (n + m * k) % 64]
From(a, b, c, nj) ==
  [a |-> a, b |-> b, c |-> c, vscr |-> [nj |-> nj, sat |-> FALSE],
   mem |-> [p \in 0..47 |-> (7 * p + 3) % 32]]

StartsOf(j) ==
  CASE j.name \in {"load", "store", "scalar"} -> {From(Filled(1, 2), Filled(1, 0), Filled(1, 0), FALSE)}
    [] j.name \in {"left", "right"} ->
         {From(Filled(1, n), [k \in 0..15 |-> m], Filled(1, 0), FALSE) : n \in {0, 3}, m \in 0..31}
    [] j.name = "pixels" ->
         {From(Filled(2, n), Filled(1, 0), [k \in 0..15 |-> IF k % 4 = 0 THEN 0 ELSE 2], FALSE) : n \in 0..7}
    [] j.name \in Floats ->
         {From(Words(n, 16), Words(m, 1), Words(n + 5 * m, 9), nj) :
            n \in 0..15, nj \in BOOLEAN,
            m \in IF j.name \in FloatPairs THEN 0..63 ELSE {4 * i : i \in 0..15}}
    [] OTHER -> {From(Filled(j.w, n), Filled(j.w, m), Filled(4, p), FALSE) :
                   n \in {0, 4}, m \in 0..7, p \in {0, 5}}

\* Doubles of six bits of precision and four of exponent, singles of three and
\* three; the scalar operations of SoftFp are not looked at.
V == INSTANCE Vector WITH
       Dbl <- [p |-> 6, k |-> 4], Sgl <- [p |-> 3, k |-> 3], WordBits <- 9, Bits <- 5,
       Jobs <- VectorJobs, Starts <- StartsOf,
       IntBits <- 4, Band <- {}, Lefts <- {}, Rights <- {}, Factors <- {},
       SingleWords <- {}, Envs <- {}, last <- 0

ASSUME FormatConstants == M!LoadStoreAssumption
-----------------------------------------------------------------------------
\* A part that is not looked at stays at one of its initial states.
MCInit ==
  /\ part \in Parts
  /\ IF part = "float" THEN F!Init
     ELSE last = [op |-> "none", a |-> F!One, c |-> F!One, b |-> F!One,
                  env |-> E(0, FALSE, FALSE, FALSE), t |-> MCDbl, x |-> F!One, fl |-> {}]
  /\ S!Init
  /\ IF part = "integer" THEN TRUE
     ELSE prog = "call" /\ in = [n \in 0 .. 3 |-> 0]
          /\ xer = [so |-> FALSE, ov |-> FALSE, ca |-> FALSE]
  /\ I!Init
  /\ IF part = "emitted" THEN TRUE
     ELSE /\ insn = [op |-> "add", rc |-> FALSE, f |-> Fields(1, 2, 3), sh |-> 0]
          /\ pre = [g |-> [n \in 1 .. 3 |-> 0], so |-> FALSE, ca |-> FALSE]
  /\ L!Init
  /\ IF part = "memory" THEN TRUE
     ELSE access = Form("lwz", 1, 2, 2, 0) /\ le = FALSE /\ mapped = {}
  /\ M!Init
  /\ IF part = "vector" THEN TRUE ELSE job = Job("load", 1, FALSE, 0)
  /\ V!VectorInit

InFloat == part = "float" /\ F!Next /\ UNCHANGED <<part, status, integer, emitted, memory, vector>>
InStatus == part = "status" /\ S!Next /\ UNCHANGED <<part, last, integer, emitted, memory, vector>>
InInteger == part = "integer" /\ I!Next /\ UNCHANGED <<part, last, status, emitted, memory, vector>>
InEmitted == part = "emitted" /\ L!Next /\ UNCHANGED <<part, last, status, integer, memory, vector>>
InMemory == part = "memory" /\ M!Next /\ UNCHANGED <<part, last, status, integer, emitted, vector>>
InVector == part = "vector" /\ V!VectorNext /\ UNCHANGED <<part, last, status, integer, emitted, memory>>

MCNext == InFloat \/ InStatus \/ InInteger \/ InEmitted \/ InMemory \/ InVector

MCSpec == MCInit /\ [][MCNext]_all
-----------------------------------------------------------------------------
\* Floating point: every result is the exact one rounded once with its flags,
\* an exact zero has the sign of its mode, a host fast path gives what the
\* model gives, a single survives lfs and stfs, fctiw is the integer its mode
\* names, and the digit recurrence is the integer root (softfp.cpp).
FloatIsModel ==
  /\ part = "float" => /\ F!TypeOK /\ F!RoundedOnce /\ F!ZeroSigns /\ F!FastIsModel
                       /\ F!SinglesSurvive /\ F!IntegerRounded /\ F!SqrtIsFloor
  /\ part = "status" => S!TypeOK /\ S!DerivedBits

\* The FPSCR keeps an exception until it is told to drop it and sets FX with a
\* new one, an enabled one traps before its register is written, and mcrfs
\* takes no enable away (fpu.cpp).
ExceptionsAreKept ==
  [][part = "status" => S!StickyWithFx /\ S!PreciseTraps /\ S!EnablesSurviveMcrfs]_all

\* Integer instructions: two-word arithmetic, division, absolute value,
\* minimum, bit fields, counted loops, calls and bounds traps come out of the
\* sequences compilers build, with the condition they record (exec_int.cpp);
\* the emitted host code leaves what the handler leaves (jit.cpp); and an
\* instruction that faulted and was executed again leaves what one clean
\* execution leaves.
IntegerIsModel ==
  /\ part = "integer" => /\ I!TypeOK /\ I!WideArithmetic /\ I!SignedIdioms
                         /\ I!BitIdioms /\ I!ControlIdioms /\ I!RecordedCondition
  /\ part = "emitted" => L!TypeOK /\ L!EmittedIsHandler
  /\ part = "memory" => M!TypeOK /\ M!RestartIsClean /\ M!BaseSurvives

\* Vector instructions: unaligned loads and stores, whole-register shifts, packs
\* and pixels, wide sums, dot products and sums across come out of the sequences
\* vector code builds, VSCR[SAT] says exactly that a value was clamped, CR6 what
\* every lane of a compare says, and every float lane is the exact value
\* rounded once, flushed under NJ (altivec.cpp).
VectorIsModel == part = "vector" => V!VectorTypeOK /\ V!SequencesDoTheirJob
=============================================================================
