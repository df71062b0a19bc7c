------------------------------- MODULE Vector -------------------------------
(***************************************************************************)
(* The vector unit (core/src/altivec.cpp).  A register is sixteen bytes,   *)
(* element 0 first, seen as lanes of one, two or four; a byte has Bits     *)
(* bits (8 in the code), and what the code writes as a mask or a shift of  *)
(* 3, 7, 8, 15, 16, 31 or 32 is the matching multiple of Bits here.  A     *)
(* register of floats is four words in the single format of SoftFp, whose  *)
(* routines compute them.  The machine runs one of the short sequences     *)
(* vector code is built from, and what the sequence is for is what the     *)
(* properties state.  An access of an aligned block or element touches one *)
(* page: one that faults has done nothing and is executed again.  Left out *)
(* are vlogefp and vexptefp, two fixed polynomials.                        *)
(***************************************************************************)
EXTENDS SoftFp, Sequences, Bitwise

LOCAL INSTANCE FiniteSetsExt

CONSTANTS Bits,      \* bits of a byte
          Jobs,      \* [name, w, s, x]: a sequence, the width and signedness of
                     \*   its lanes, an immediate or an address
          Starts(_)  \* what the registers, VSCR and memory of a job start with

VARIABLES job,       \* the sequence that runs
          given,     \* [a, b, c, vscr, mem]: what it started with
          vr,        \* the registers it uses: 1, 2 and 3 are given, 0 is zero
          vscr,      \* [nj, sat]
          cr6,       \* the condition field of a compare that records
          vmem,      \* three blocks of memory
          vpc        \* index of the next instruction

vectorVars == <<job, given, vr, vscr, cr6, vmem, vpc>>
-----------------------------------------------------------------------------
(* gh, gw, ph, pw: lane k of w bytes, and the register whose lanes are F.   *)
LaneBits(w) == w * Bits
LaneNos(w) == 0 .. (16 \div w) - 1
Lane(v, w, k) ==
  CASE w = 1 -> v[k]
    [] w = 2 -> v[2 * k] * 2^Bits + v[2 * k + 1]
    [] w = 4 -> ((v[4 * k] * 2^Bits + v[4 * k + 1]) * 2^Bits + v[4 * k + 2]) * 2^Bits
                + v[4 * k + 3]
FromLanes(w, F) ==
  [j \in 0..15 |-> (F[j \div w] \div 2^(Bits * (w - 1 - (j % w)))) % 2^Bits]

Sgn(x, w) == IF x >= 2^(LaneBits(w) - 1) THEN x - 2^LaneBits(w) ELSE x

\* Lane k as a number, signed or not.
Number(v, w, s, k) == IF s THEN Sgn(Lane(v, w, k), w) ELSE Lane(v, w, k)

\* satU8 to satS32: the nearest number the lane holds.
Clamp(x, w, s) ==
  LET lo == IF s THEN -(2^(LaneBits(w) - 1)) ELSE 0
      hi == IF s THEN 2^(LaneBits(w) - 1) - 1 ELSE 2^LaneBits(w) - 1
  IN  IF x < lo THEN lo ELSE IF x > hi THEN hi ELSE x

\* What an instruction gives: a register, whether it saturated, CR6 or -1.
Gives(v) == [v |-> v, sat |-> FALSE, cr |-> -1]
Modulo(w, F) == Gives(FromLanes(w, F))

(* Mutant: a result that only just fits is taken for one that did not. *)
SaturatedEdge(w, s, F) ==
  [Modulo(w, [k \in DOMAIN F |-> Clamp(F[k], w, s)]) EXCEPT
     !.sat = \E k \in DOMAIN F : Clamp(F[k] + 1, w, s) # F[k] + 1]

\* sat: VSCR[SAT] only when clamping changed a value.
Saturated(w, s, F) ==
  [Modulo(w, [k \in DOMAIN F |-> Clamp(F[k], w, s)]) EXCEPT
     !.sat = \E k \in DOMAIN F : Clamp(F[k], w, s) # F[k]]
-----------------------------------------------------------------------------
(* Memory: lvx and stvx truncate the address to the block, the element      *)
(* forms to the element, which keeps its place in the register; the rest of *)
(* the register is zeroed.                                                  *)
Block(ea) == ea - (ea % 16)

Lvx(ea) == [k \in 0..15 |-> vmem[Block(ea) + k]]
Lve(w, ea) ==
  LET at == ea - (ea % w)
  IN  [k \in 0..15 |-> IF k \in (at % 16) .. (at % 16) + w - 1 THEN vmem[Block(ea) + k] ELSE 0]

Stvx(v, ea) == [p \in DOMAIN vmem |-> IF Block(p) = Block(ea) THEN v[p % 16] ELSE vmem[p]]
Stve(w, v, ea) ==
  LET at == ea - (ea % w)
  IN  [p \in DOMAIN vmem |-> IF p \in at .. at + w - 1 THEN v[p % 16] ELSE vmem[p]]

\* lvsl and lvsr: the permute control of an unaligned access.
Lvsl(ea) == [k \in 0..15 |-> ((ea % 16) + k) % 2^Bits]
Lvsr(ea) == [k \in 0..15 |-> (16 - (ea % 16) + k) % 2^Bits]
-----------------------------------------------------------------------------
Vperm(a, b, c) ==
  [k \in 0..15 |-> LET s == c[k] % 32 IN IF s < 16 THEN a[s] ELSE b[s - 16]]

\* x & ~y.
Without(x, y) == x - (x & y)

Vsel(a, b, c) == [k \in DOMAIN a |-> Without(a[k], c[k]) | (b[k] & c[k])]

Vsplt(w, b, x) == FromLanes(w, [k \in LaneNos(w) |-> Lane(b, w, x % (16 \div w))])

\* sext5 of the immediate.
Vspltis(w, x) == FromLanes(w, [k \in LaneNos(w) |-> IF x >= 16 THEN x - 32 ELSE x])

\* MERGE: from the lane `base` of both registers on, in turn.
Merge(w, a, b, base) ==
  FromLanes(w, [k \in LaneNos(w) |-> Lane(IF k % 2 = 0 THEN a ELSE b, w, base + (k \div 2))])

Vsldoi(a, b, x) == [k \in 0..15 |-> IF k + x < 16 THEN a[k + x] ELSE b[k + x - 16]]
-----------------------------------------------------------------------------
(* Whole-register shifts: byte 15 holds the count, bytes above bits.        *)
OctetCount(b) == (b[15] \div Bits) % 16
BitCount(b) == b[15] % Bits

Vslo(a, b) == [k \in 0..15 |-> IF k + OctetCount(b) < 16 THEN a[k + OctetCount(b)] ELSE 0]
Vsro(a, b) == [k \in 0..15 |-> IF k >= OctetCount(b) THEN a[k - OctetCount(b)] ELSE 0]

Vsl(a, b) ==
  [k \in 0..15 |-> ((a[k] * 2^BitCount(b)) % 2^Bits)
                   | ((IF k < 15 THEN a[k + 1] ELSE 0) \div 2^(Bits - BitCount(b)))]
Vsr(a, b) ==
  [k \in 0..15 |-> (a[k] \div 2^BitCount(b))
                   | (((IF k > 0 THEN a[k - 1] ELSE 0) * 2^(Bits - BitCount(b))) % 2^Bits)]

(* PERLANE: each lane by the low bits of its own count.                     *)
Shifted(op, x, n, w) ==
  CASE op = "vrl"  -> ((x % 2^(LaneBits(w) - n)) * 2^n) | (x \div 2^(LaneBits(w) - n))
    [] op = "vsl"  -> (x % 2^(LaneBits(w) - n)) * 2^n
    [] op = "vsr"  -> x \div 2^n
    [] op = "vsra" -> Sgn(x, w) \div 2^n
PerLane(op, w, a, b) ==
  FromLanes(w, [k \in LaneNos(w) |-> Shifted(op, Lane(a, w, k), Lane(b, w, k) % LaneBits(w), w)])

(* VLOGIC.                                                                  *)
Logic(op, a, b) ==
  [k \in DOMAIN a |-> CASE op = "vand"  -> a[k] & b[k]
                        [] op = "vandc" -> Without(a[k], b[k])
                        [] op = "vor"   -> a[k] | b[k]
                        [] op = "vnor"  -> Without(2^Bits - 1, a[k] | b[k])
                        [] op = "vxor"  -> a[k] ^^ b[k]]
-----------------------------------------------------------------------------
(* VARITH: sums and differences, exact; carries out of words.               *)
Sums(w, s, a, b, sign) ==
  [k \in LaneNos(w) |-> Number(a, w, s, k) + sign * Number(b, w, s, k)]

AddCarry(a, b) == [k \in LaneNos(4) |-> (Lane(a, 4, k) + Lane(b, 4, k)) \div 2^LaneBits(4)]
SubCarry(a, b) == [k \in LaneNos(4) |-> IF Lane(a, 4, k) >= Lane(b, 4, k) THEN 1 ELSE 0]

Averages(w, s, a, b) == [k \in LaneNos(w) |-> (Number(a, w, s, k) + Number(b, w, s, k) + 1) \div 2]

Least(w, s, a, b) ==
  [k \in LaneNos(w) |-> IF Number(a, w, s, k) < Number(b, w, s, k)
                        THEN Lane(a, w, k) ELSE Lane(b, w, k)]
Greatest(w, s, a, b) ==
  [k \in LaneNos(w) |-> IF Number(a, w, s, k) > Number(b, w, s, k)
                        THEN Lane(a, w, k) ELSE Lane(b, w, k)]

(* VMUL: products of the even lanes, or of the odd ones, twice as wide.     *)
Vmul(w, s, odd, a, b) ==
  FromLanes(2 * w, [k \in LaneNos(2 * w) |->
    Number(a, w, s, 2 * k + odd) * Number(b, w, s, 2 * k + odd)])

Vmladduhm(a, b, c) ==
  FromLanes(2, [k \in LaneNos(2) |-> Lane(a, 2, k) * Lane(b, 2, k) + Lane(c, 2, k)])

\* vmhaddshs, and vmhraddshs with half of the last place kept.
HighSums(a, b, c, half) ==
  [k \in LaneNos(2) |-> ((Number(a, 2, TRUE, k) * Number(b, 2, TRUE, k) + half)
                         \div 2^(2 * Bits - 1)) + Number(c, 2, TRUE, k)]

\* The sum of term(j) over the n narrow lanes of word k.
Within(k, n, term(_)) == MapThenSumSet(term, (n * k) .. (n * k) + n - 1)

(* The msum family: per word, the products of its lanes of w bytes and the  *)
(* word of vC.                                                              *)
DotSums(w, sa, sb, sc, a, b, c) ==
  [k \in LaneNos(4) |->
     Number(c, 4, sc, k)
     + Within(k, 4 \div w, LAMBDA j : Number(a, w, sa, j) * Number(b, w, sb, j))]

(* The sum-across family.                                                   *)
AcrossAll(a, b) ==
  [k \in LaneNos(4) |->
     IF k = 3 THEN Number(b, 4, TRUE, 3) + Within(0, 4, LAMBDA j : Number(a, 4, TRUE, j)) ELSE 0]
AcrossPairs(a, b) ==
  [k \in LaneNos(4) |->
     IF k % 2 = 1
     THEN Number(b, 4, TRUE, k) + Number(a, 4, TRUE, k - 1) + Number(a, 4, TRUE, k) ELSE 0]
AcrossWord(w, s, a, b) ==
  [k \in LaneNos(4) |-> Number(b, 4, s, k) + Within(k, 4 \div w, LAMBDA j : Number(a, w, s, j))]
-----------------------------------------------------------------------------
(* setCr6: 8 when every lane is true, 2 when none is.                       *)
Recorded(T) ==
  (IF \A k \in DOMAIN T : T[k] THEN 8 ELSE 0) + (IF \A k \in DOMAIN T : ~T[k] THEN 2 ELSE 0)

\* VCMP: lanes of ones where the test holds.
Compared(w, T) ==
  [Modulo(w, [k \in DOMAIN T |-> IF T[k] THEN 2^LaneBits(w) - 1 ELSE 0]) EXCEPT !.cr = Recorded(T)]

Equal(w, a, b) == [k \in LaneNos(w) |-> Lane(a, w, k) = Lane(b, w, k)]
Above(w, s, a, b) == [k \in LaneNos(w) |-> Number(a, w, s, k) > Number(b, w, s, k)]

(* Packing: the lanes of both registers, one after the other, to half their *)
(* width; modulo, or saturating from one signedness to another (VPKS).      *)
BothLanes(w, s, a, b) ==
  [k \in LaneNos(w \div 2) |->
     IF k < 16 \div w THEN Number(a, w, s, k) ELSE Number(b, w, s, k - (16 \div w))]

\* The half of a register that starts at lane `base`, each lane widened.
Unpacked(w, b, base) == FromLanes(2 * w, [k \in LaneNos(2 * w) |-> Number(b, w, TRUE, base + k)])

(* vpkpx and vupkhpx: a pixel is a flag and three fields of PixelBits (1,   *)
(* 5, 5, 5); packed from the low bit of byte 0 and the top bits of the      *)
(* others, unpacked into a byte of flags and the low bits of the others.    *)
PixelBits == (2 * Bits - 1) \div 3

Pixel(v, k) ==
  LET top(n) == v[4 * k + n] \div 2^(Bits - PixelBits)
  IN  (((v[4 * k] % 2) * 2^PixelBits + top(1)) * 2^PixelBits + top(2)) * 2^PixelBits + top(3)

Vpkpx(a, b) == FromLanes(2, [k \in LaneNos(2) |-> IF k < 4 THEN Pixel(a, k) ELSE Pixel(b, k - 4)])

Vupkpx(b, base) ==
  [j \in 0..15 |->
     LET h == Lane(b, 2, base + (j \div 4))
     IN  IF j % 4 = 0 THEN IF Bit(h, 3 * PixelBits) THEN 2^Bits - 1 ELSE 0
         ELSE (h \div 2^(PixelBits * (3 - (j % 4)))) % 2^PixelBits]

(* mfvscr and mtvscr: NJ above the low half of the word, SAT its last bit.  *)
Mfvscr ==
  FromLanes(4, [k \in LaneNos(4) |->
    IF k = 3 THEN (IF vscr.nj THEN 2^(2 * Bits) ELSE 0) + (IF vscr.sat THEN 1 ELSE 0) ELSE 0])
Mtvscr(b) == [nj |-> Bit(Lane(b, 4, 3), 2 * Bits), sat |-> Bit(Lane(b, 4, 3), 0)]
-----------------------------------------------------------------------------
(* Floats.  A word of FloatBits bits (32): sign, exponent, fraction.        *)
FloatBits == Sgl.k + Sgl.p
Sign == 2^(FloatBits - 1)

Decoded(x) == [s |-> x >= Sign, e |-> (x \div 2^(Sgl.p - 1)) % 2^Sgl.k, f |-> x % 2^(Sgl.p - 1)]
Encoded(w) == (IF w.s THEN Sign ELSE 0) + w.e * 2^(Sgl.p - 1) + w.f

Up(x) == LoadSingle(Decoded(x))
Dn(d) == Encoded(StoreSingle(d))

SglDenorm(x) == Decoded(x).e = 0 /\ Decoded(x).f # 0
SglNan(x) == Decoded(x).e = 2^Sgl.k - 1 /\ Decoded(x).f # 0
SglQuiet(x) == x | 2^(Sgl.p - 2)

(* flushIn and flushOut: under NJ a denormal is the zero of its sign.       *)
FlushIn(x)  == IF vscr.nj /\ SglDenorm(x) THEN x - (x % Sign) ELSE x
FlushOut(x) == IF vscr.nj /\ SglDenorm(x) THEN x - (x % Sign) ELSE x

\* Round to nearest, no traps.
VecEnv == [rn |-> 0, oe |-> FALSE, ue |-> FALSE, ni |-> FALSE]

\* VFP3, vmaddfp (nm FALSE) and vnmsubfp: one rounding of x * y +- z.
Fused3(x, y, z, sub, nm) ==
  FlushOut(Dn(FmaCore(Up(FlushIn(x)), y, Up(FlushIn(z)), TRUE, sub, nm, VecEnv, Sgl).x))

SglGreater(x, y) ==
  LET zx == x % Sign = 0
      zy == y % Sign = 0
      sx == x >= Sign
      sy == y >= Sign
  IN  CASE zx /\ zy -> FALSE
        [] zx /\ ~zy -> sy
        [] ~zx /\ zy -> ~sx
        [] ~zx /\ ~zy /\ sx # sy -> sy
        [] ~zx /\ ~zy /\ sx = sy -> (x % Sign > y % Sign) # sx

SglEqual(x, y) == x = y \/ (x % Sign = 0 /\ y % Sign = 0)

\* VMINMAX: a NaN, the first, made quiet; else one of the two.
Chosen(x, y, first) ==
  IF SglNan(x) THEN SglQuiet(x) ELSE IF SglNan(y) THEN SglQuiet(y)
  ELSE IF first THEN x ELSE y

\* VFCMP: false where either is a NaN.
FloatTest(op, x, y) ==
  /\ ~SglNan(x) /\ ~SglNan(y)
  /\ CASE op = "vcmpeqfp" -> SglEqual(x, y)
       [] op = "vcmpgtfp" -> SglGreater(x, y)
       [] op = "vcmpgefp" -> SglEqual(x, y) \/ SglGreater(x, y)

FloatCompare(op, a, b) ==
  LET T == [k \in 0..3 |-> FloatTest(op, FlushIn(a[k]), FlushIn(b[k]))]
  IN  [v |-> [k \in 0..3 |-> IF T[k] THEN 2^FloatBits - 1 ELSE 0], sat |-> FALSE, cr |-> Recorded(T)]

(* vcmpbfp: above the bound, below minus the bound; a NaN is both.          *)
Bounds(x, y) ==
  LET nan == SglNan(x) \/ SglNan(y)
  IN  (IF nan \/ SglGreater(x, y) THEN Sign ELSE 0)
      + (IF nan \/ SglGreater(y ^^ Sign, x) THEN Sign \div 2 ELSE 0)

Vcmpbfp(a, b) ==
  LET v == [k \in 0..3 |-> Bounds(FlushIn(a[k]), FlushIn(b[k]))]
  IN  [v |-> v, sat |-> FALSE, cr |-> IF \A k \in 0..3 : v[k] = 0 THEN 2 ELSE 0]

(* vcfux and vcfsx: an integer, exact as a double, over 2^scale, to single. *)
FromInteger(neg, mag, scale) ==
  LET m == Log2(mag)
  IN  IF mag = 0 THEN 0
      ELSE Dn(Rsp([s |-> neg, e |-> Bias(Dbl) + m - scale, f |-> (mag * 2^(Dbl.p - 1 - m)) % Hidden],
                  VecEnv).x)

Vcfux(x, scale) == FromInteger(FALSE, x, scale)
Vcfsx(x, scale) == FromInteger(x >= Sign, IF x >= Sign THEN 2^FloatBits - x ELSE x, scale)

(* ctx: times 2^scale, cut toward zero, the nearest word if it does not     *)
(* fit.  Past an exponent of Beyond (62) the magnitude is all ones.         *)
Beyond == FloatBits

CtxMagnitude(d, scale) ==
  LET exp  == d.e - Bias(Dbl) + scale
      frac == d.f + (IF d.e # 0 THEN Hidden ELSE 0)
  IN  IF exp < 0 THEN 0
      ELSE IF exp > Beyond THEN 2^(FloatBits + 2) - 1
      ELSE IF exp >= Dbl.p - 1 THEN frac * 2^(exp - (Dbl.p - 1)) ELSE frac \div 2^(Dbl.p - 1 - exp)

Ctx(x, scale, s) ==
  LET mag == CtxMagnitude(Up(x), scale)
      lim == IF ~s THEN IF x >= Sign THEN 0 ELSE 2^FloatBits - 1
             ELSE IF x >= Sign THEN Sign ELSE Sign - 1
      fit == IF mag > lim THEN lim ELSE mag
  IN  IF SglNan(x) THEN [w |-> 0, sat |-> FALSE]
      ELSE [w |-> IF x >= Sign THEN (2^FloatBits - fit) % 2^FloatBits ELSE fit, sat |-> mag > lim]

(* vrfi: to an integral value by the mode; large values already are.        *)
Integral(neg, ip, x) ==
  LET m == Log2(ip)
  IN  IF ip = 0 THEN x - (x % Sign)
      ELSE Dn([s |-> neg, e |-> Bias(Dbl) + m, f |-> (ip * 2^(Dbl.p - 1 - m)) % Hidden])

Vrfi(x, rn) ==
  LET d    == Up(x)
      exp  == d.e - Bias(Dbl)
      frac == d.f + (IF d.e # 0 THEN Hidden ELSE 0)
      unit == Dbl.p - 1 - exp
      ip   == IF exp < -1 THEN 0 ELSE frac \div 2^unit
      half == exp >= -1 /\ Bit(frac, unit - 1)
      rest == IF exp < -1 THEN frac # 0 ELSE frac % 2^(unit - 1) # 0
  IN  IF SglNan(x) THEN SglQuiet(x)
      ELSE IF d.e >= Bias(Dbl) + Sgl.p - 1 THEN x
      ELSE Integral(d.s, ip + (IF Increment(rn, d.s, ip % 2 = 1, half, FALSE, rest) THEN 1 ELSE 0), x)

Vrefp(x) == IF SglNan(x) THEN SglQuiet(x) ELSE FlushOut(Dn(Res(Up(x), VecEnv).x))
Vrsqrtefp(x) ==
  IF SglNan(x) THEN SglQuiet(x) ELSE FlushOut(Dn(Rsp(Rsqrte(Up(x), VecEnv).x, VecEnv).x))
-----------------------------------------------------------------------------
(* The handlers, by family.  An instruction names its registers, the width  *)
(* and signedness of its lanes, its immediate or address, and whether it    *)
(* records.                                                                 *)
MemoryOps  == {"lvx", "lve", "lvsl", "lvsr"}
PermuteOps == {"vperm", "vsel", "vsldoi", "vsplt", "vspltis", "vmrgh", "vmrgl"}
ShiftOps   == {"vslo", "vsro", "vsll", "vsrr", "vrl", "vsl", "vsr", "vsra"}
LogicOps   == {"vand", "vandc", "vor", "vnor", "vxor"}
SumOps     == {"vaddm", "vsubm", "vadds", "vsubs", "vaddcuw", "vsubcuw"}
OrderOps   == {"vavg", "vmin", "vmax", "vcmpequ", "vcmpgt"}
ProductOps == {"vmule", "vmulo", "vmladduhm", "vmhaddshs", "vmhraddshs",
               "vmsum", "vmsummbm", "vmsums"}
AcrossOps  == {"vsumsws", "vsum2sws", "vsum4"}
PackOps    == {"vpkum", "vpkus", "vpkss", "vpkpx", "vupkh", "vupkl", "vupkhpx", "vupklpx", "mfvscr"}
FloatOps   == {"vaddfp", "vsubfp", "vmaddfp", "vnmsubfp", "vmaxfp", "vminfp",
               "vcmpeqfp", "vcmpgtfp", "vcmpgefp", "vcmpbfp"}
ConvertOps == {"vcfx", "vctxs", "vrfi", "vrefp", "vrsqrtefp"}

FromMemory(i) ==
  Gives(CASE i.op = "lvx"  -> Lvx(i.x)
          [] i.op = "lve"  -> Lve(i.w, i.x)
          [] i.op = "lvsl" -> Lvsl(i.x)
          [] i.op = "lvsr" -> Lvsr(i.x))

Permuted(i, a, b, c) ==
  Gives(CASE i.op = "vperm"   -> Vperm(a, b, c)
          [] i.op = "vsel"    -> Vsel(a, b, c)
          [] i.op = "vsldoi"  -> Vsldoi(a, b, i.x)
          [] i.op = "vsplt"   -> Vsplt(i.w, b, i.x)
          [] i.op = "vspltis" -> Vspltis(i.w, i.x)
          [] i.op = "vmrgh"   -> Merge(i.w, a, b, 0)
          [] i.op = "vmrgl"   -> Merge(i.w, a, b, 8 \div i.w))

ShiftedBy(i, a, b) ==
  Gives(CASE i.op = "vslo" -> Vslo(a, b)
          [] i.op = "vsro" -> Vsro(a, b)
          [] i.op = "vsll" -> Vsl(a, b)
          [] i.op = "vsrr" -> Vsr(a, b)
          [] i.op \in {"vrl", "vsl", "vsr", "vsra"} -> PerLane(i.op, i.w, a, b))

Summed(i, a, b) ==
  CASE i.op = "vaddm"   -> Modulo(i.w, Sums(i.w, FALSE, a, b, 1))
    [] i.op = "vsubm"   -> Modulo(i.w, Sums(i.w, FALSE, a, b, -1))
    [] i.op = "vadds"   -> Saturated(i.w, i.s, Sums(i.w, i.s, a, b, 1))
    [] i.op = "vsubs"   -> Saturated(i.w, i.s, Sums(i.w, i.s, a, b, -1))
    [] i.op = "vaddcuw" -> Modulo(4, AddCarry(a, b))
    [] i.op = "vsubcuw" -> Modulo(4, SubCarry(a, b))

Ordered(i, a, b) ==
  CASE i.op = "vavg"    -> Modulo(i.w, Averages(i.w, i.s, a, b))
    [] i.op = "vmin"    -> Modulo(i.w, Least(i.w, i.s, a, b))
    [] i.op = "vmax"    -> Modulo(i.w, Greatest(i.w, i.s, a, b))
    [] i.op = "vcmpequ" -> Compared(i.w, Equal(i.w, a, b))
    [] i.op = "vcmpgt"  -> Compared(i.w, Above(i.w, i.s, a, b))

Multiplied(i, a, b, c) ==
  CASE i.op = "vmule"      -> Gives(Vmul(i.w, i.s, 0, a, b))
    [] i.op = "vmulo"      -> Gives(Vmul(i.w, i.s, 1, a, b))
    [] i.op = "vmladduhm"  -> Gives(Vmladduhm(a, b, c))
    [] i.op = "vmhaddshs"  -> Saturated(2, TRUE, HighSums(a, b, c, 0))
    [] i.op = "vmhraddshs" -> Saturated(2, TRUE, HighSums(a, b, c, 2^(2 * Bits - 2)))
    [] i.op = "vmsum"      -> Modulo(4, DotSums(i.w, i.s, i.s, i.s, a, b, c))
    [] i.op = "vmsummbm"   -> Modulo(4, DotSums(1, TRUE, FALSE, TRUE, a, b, c))
    [] i.op = "vmsums"     -> Saturated(4, i.s, DotSums(2, i.s, i.s, i.s, a, b, c))

Across(i, a, b) ==
  CASE i.op = "vsumsws"  -> Saturated(4, TRUE, AcrossAll(a, b))
    [] i.op = "vsum2sws" -> Saturated(4, TRUE, AcrossPairs(a, b))
    [] i.op = "vsum4"    -> Saturated(4, i.s, AcrossWord(i.w, i.s, a, b))

\* i.w and i.s are of the source; vpkus and vpkss name the target.
Repacked(i, a, b) ==
  CASE i.op = "vpkum"   -> Modulo(i.w \div 2, BothLanes(i.w, FALSE, a, b))
    [] i.op = "vpkus"   -> Saturated(i.w \div 2, FALSE, BothLanes(i.w, i.s, a, b))
    [] i.op = "vpkss"   -> Saturated(i.w \div 2, TRUE, BothLanes(i.w, TRUE, a, b))
    [] i.op = "vpkpx"   -> Gives(Vpkpx(a, b))
    [] i.op = "vupkh"   -> Gives(Unpacked(i.w, b, 0))
    [] i.op = "vupkl"   -> Gives(Unpacked(i.w, b, 8 \div i.w))
    [] i.op = "vupkhpx" -> Gives(Vupkpx(b, 0))
    [] i.op = "vupklpx" -> Gives(Vupkpx(b, 4))
    [] i.op = "mfvscr"  -> Gives(Mfvscr)

Floated(i, a, b, c) ==
  CASE i.op \in {"vaddfp", "vsubfp"} ->
         Gives([k \in 0..3 |-> Fused3(a[k], One, b[k], i.op = "vsubfp", FALSE)])
    [] i.op \in {"vmaddfp", "vnmsubfp"} ->
         Gives([k \in 0..3 |-> Fused3(a[k], Up(FlushIn(c[k])), b[k],
                                      i.op = "vnmsubfp", i.op = "vnmsubfp")])
    [] i.op \in {"vmaxfp", "vminfp"} ->
         Gives([k \in 0..3 |->
           LET x == FlushIn(a[k])
               y == FlushIn(b[k])
           IN  Chosen(x, y, IF i.op = "vmaxfp" THEN SglGreater(x, y) ELSE SglGreater(y, x))])
    [] i.op \in {"vcmpeqfp", "vcmpgtfp", "vcmpgefp"} -> FloatCompare(i.op, a, b)
    [] i.op = "vcmpbfp" -> Vcmpbfp(a, b)

Converted(i, b) ==
  CASE i.op = "vcfx"  -> Gives([k \in 0..3 |-> IF i.s THEN Vcfsx(b[k], i.x) ELSE Vcfux(b[k], i.x)])
    [] i.op = "vctxs" -> [v   |-> [k \in 0..3 |-> Ctx(FlushIn(b[k]), i.x, i.s).w],
                          sat |-> \E k \in 0..3 : Ctx(FlushIn(b[k]), i.x, i.s).sat, cr |-> -1]
    [] i.op = "vrfi"  -> Gives([k \in 0..3 |-> Vrfi(FlushIn(b[k]), i.x)])
    [] i.op = "vrefp" -> Gives([k \in 0..3 |-> Vrefp(FlushIn(b[k]))])
    [] i.op = "vrsqrtefp" -> Gives([k \in 0..3 |-> Vrsqrtefp(FlushIn(b[k]))])

Exec(i, a, b, c) ==
  CASE i.op \in MemoryOps  -> FromMemory(i)
    [] i.op \in PermuteOps -> Permuted(i, a, b, c)
    [] i.op \in ShiftOps   -> ShiftedBy(i, a, b)
    [] i.op \in LogicOps   -> Gives(Logic(i.op, a, b))
    [] i.op \in SumOps     -> Summed(i, a, b)
    [] i.op \in OrderOps   -> Ordered(i, a, b)
    [] i.op \in ProductOps -> Multiplied(i, a, b, c)
    [] i.op \in AcrossOps  -> Across(i, a, b)
    [] i.op \in PackOps    -> Repacked(i, a, b)
    [] i.op \in FloatOps   -> Floated(i, a, b, c)
    [] i.op \in ConvertOps -> Converted(i, b)
-----------------------------------------------------------------------------
(* The sequences (external: they are what compiled vector code is made of). *)
(* Registers 4 to 6 are scratch.                                            *)
Do(op, d, a, b, c) ==
  [op |-> op, d |-> d, a |-> a, b |-> b, c |-> c,
   w |-> job.w, s |-> job.s, x |-> job.x, rc |-> FALSE]
Twice(i)    == [i EXCEPT !.w = 2 * @]
With(i, x)  == [i EXCEPT !.x = x]
Words(i)    == [i EXCEPT !.w = 4]
Records(i)  == [i EXCEPT !.rc = TRUE]

\* Adds into 5 what carries out of its words, one word further left each time.
CarryOn ==
  << With(Do("vsldoi", 4, 4, 0, 0), 4), Do("vaddcuw", 6, 5, 4, 0), Words(Do("vaddm", 5, 5, 4, 0)),
     Do("vor", 4, 6, 6, 0) >>
BorrowOn ==
  << With(Words(Do("vspltis", 6, 0, 0, 0)), 1), Words(Do("vsubm", 4, 6, 4, 0)),
     With(Do("vsldoi", 4, 4, 0, 0), 4), Do("vsubcuw", 6, 5, 4, 0), Words(Do("vsubm", 5, 5, 4, 0)),
     Do("vor", 4, 6, 6, 0) >>

MemoryProgram ==
  CASE job.name = "load" ->
         << Do("lvx", 4, 0, 0, 0), With(Do("lvx", 5, 0, 0, 0), job.x + 15), Do("lvsl", 6, 0, 0, 0),
            Do("vperm", 4, 4, 5, 6) >>
    [] job.name = "store" ->
         << Do("lvx", 4, 0, 0, 0), With(Do("lvx", 5, 0, 0, 0), job.x + 15), Do("lvsl", 6, 0, 0, 0),
            Do("vperm", 6, 5, 4, 6), Do("lvsr", 3, 0, 0, 0),
            Do("vperm", 4, 6, 1, 3), Do("vperm", 5, 1, 6, 3),
            With(Do("stvx", 5, 0, 0, 0), job.x + 15), Do("stvx", 4, 0, 0, 0) >>
    [] job.name = "scalar" ->
         << Do("lve", 4, 0, 0, 0), With(Do("lvsl", 5, 0, 0, 0), job.x - (job.x % job.w)),
            Do("vperm", 4, 4, 4, 5), With(Do("vsplt", 4, 0, 4, 0), 0),
            With(Do("stve", 4, 0, 0, 0), job.x + 16) >>

MoveProgram ==
  CASE job.name = "slide"  -> << Do("vsldoi", 4, 1, 2, 0), Do("lvsl", 5, 0, 0, 0), Do("vperm", 5, 1, 2, 5) >>
    [] job.name = "left"   -> << Do("vslo", 4, 1, 2, 0), Do("vsll", 4, 4, 2, 0) >>
    [] job.name = "right"  -> << Do("vsro", 4, 1, 2, 0), Do("vsrr", 4, 4, 2, 0) >>
    [] job.name = "shifts" -> << Do("vrl", 3, 1, 2, 0), Do("vsl", 4, 1, 2, 0),
                                 Do("vsr", 5, 1, 2, 0), Do("vsra", 6, 1, 2, 0) >>
    [] job.name = "select" -> << Do("vsel", 4, 1, 2, 3), Do("vandc", 5, 1, 3, 0), Do("vand", 6, 2, 3, 0),
                                 Do("vor", 5, 5, 6, 0), Do("vxor", 6, 1, 2, 0), Do("vand", 6, 6, 3, 0),
                                 Do("vxor", 6, 1, 6, 0) >>
    [] job.name = "zip"    -> << Do("vmrgh", 4, 1, 2, 0), Do("vmrgl", 5, 1, 2, 0),
                                 Twice(Do("vpkum", 6, 4, 5, 0)) >>
    [] job.name = "widen"  -> << Do("vupkh", 4, 0, 1, 0), Do("vupkl", 5, 0, 1, 0),
                                 Twice(Do("vpkum", 6, 4, 5, 0)), Twice(Do("vpkss", 4, 4, 5, 0)) >>
    [] job.name = "pixels" -> << Do("vupkhpx", 4, 0, 1, 0), Do("vupklpx", 5, 0, 1, 0),
                                 Do("vsl", 4, 4, 3, 0), Do("vsl", 5, 5, 3, 0), Do("vpkpx", 6, 4, 5, 0) >>

\* Lanes of job.w to half of it and back: x = 1 when the target is signed.
Half(i) == [i EXCEPT !.w = @ \div 2]
NarrowProgram ==
  IF job.x = 1
  THEN << Do("vpkss", 4, 1, 2, 0), Half(Do("vupkh", 5, 0, 4, 0)), Half(Do("vupkl", 6, 0, 4, 0)) >>
  ELSE << Do("vpkus", 4, 1, 2, 0), Half(Do("vmrgh", 5, 0, 4, 0)), Half(Do("vmrgl", 6, 0, 4, 0)) >>

SumProgram ==
  CASE job.name = "add"     -> << Do("vadds", 4, 1, 2, 0), Do("vaddm", 5, 1, 2, 0), Do("vnor", 6, 2, 2, 0),
                                  Do("vmin", 6, 1, 6, 0), Do("vaddm", 6, 6, 2, 0) >>
    [] job.name = "sub"     -> << Do("vsubs", 4, 1, 2, 0), Do("vsubm", 5, 1, 2, 0),
                                  Do("vmax", 6, 1, 2, 0), Do("vsubm", 6, 6, 2, 0) >>
    [] job.name = "wide"    -> << Do("vaddcuw", 4, 1, 2, 0), Words(Do("vaddm", 5, 1, 2, 0)) >>
                               \o CarryOn \o CarryOn \o CarryOn
    [] job.name = "widesub" -> << Do("vsubcuw", 4, 1, 2, 0), Words(Do("vsubm", 5, 1, 2, 0)) >>
                               \o BorrowOn \o BorrowOn \o BorrowOn
    [] job.name = "sticky"  -> << Do("mtvscr", 0, 0, 3, 0), Do("vadds", 4, 1, 2, 0),
                                  Do("vaddm", 5, 1, 0, 0), Do("mfvscr", 6, 0, 0, 0) >>
    [] job.name = "average" -> << Do("vavg", 4, 1, 2, 0), Do("vor", 5, 1, 2, 0), Do("vxor", 6, 1, 2, 0),
                                  With(Do("vspltis", 3, 0, 0, 0), 1),
                                  Do(IF job.s THEN "vsra" ELSE "vsr", 6, 6, 3, 0), Do("vsubm", 5, 5, 6, 0) >>
    [] job.name = "distance" -> << Do("vmax", 4, 1, 2, 0), Do("vmin", 5, 1, 2, 0), Do("vsubm", 6, 4, 5, 0) >>
    [] job.name = "greatest" -> << Records(Do("vcmpgt", 4, 1, 2, 0)), Do("vsel", 5, 2, 1, 4),
                                   Do("vmax", 6, 1, 2, 0) >>
    [] job.name = "equal"    -> << Do("vcmpgt", 4, 1, 2, 0), Do("vcmpgt", 5, 2, 1, 0), Do("vnor", 5, 4, 5, 0),
                                   Records(Do("vcmpequ", 4, 1, 2, 0)) >>

ProductProgram ==
  CASE job.name = "products" ->
         << Do("vmule", 4, 1, 2, 0), Do("vmulo", 5, 1, 2, 0), Twice(Do("vmrgh", 6, 4, 5, 0)),
            Twice(Do("vmrgl", 5, 4, 5, 0)), Twice(Do("vpkum", 6, 6, 5, 0)),
            Do("vmladduhm", 4, 1, 2, 3), Do("vaddm", 5, 6, 3, 0) >>
    [] job.name = "fraction" ->
         << Do("vmule", 4, 1, 2, 0), Do("vmulo", 5, 1, 2, 0), Words(Do("vmrgh", 6, 4, 5, 0)),
            Words(Do("vmrgl", 5, 4, 5, 0)), With(Words(Do("vspltis", 4, 0, 0, 0)), 2 * Bits - 1),
            Words(Do("vsra", 6, 6, 4, 0)), Words(Do("vsra", 5, 5, 4, 0)),
            Words(Do("vpkss", 6, 6, 5, 0)), Do("vadds", 6, 6, 3, 0),
            Do("vmhaddshs", 4, 1, 2, 3), Do("vmhraddshs", 5, 1, 2, 0) >>
    [] job.name = "dot" ->
         << Do("vmule", 4, 1, 2, 0), Do("vmulo", 5, 1, 2, 0), Words(Do("vaddm", 4, 4, 5, 0)),
            Words(Do("vaddm", 4, 4, 3, 0)), Do("vmsum", 5, 1, 2, 3), Do("vmsums", 6, 1, 2, 3) >>
    [] job.name = "bytedot" ->
         << Do(IF job.s THEN "vupkh" ELSE "vmrgh", 4, 0, 1, 0), Do("vmrgh", 5, 0, 2, 0),
            Twice(Do("vmsum", 4, 4, 5, 0)),
            Do(IF job.s THEN "vupkl" ELSE "vmrgl", 5, 0, 1, 0), Do("vmrgl", 6, 0, 2, 0),
            Twice(Do("vmsum", 4, 5, 6, 4)), Do("vsumsws", 4, 4, 0, 0),
            Do(IF job.s THEN "vmsummbm" ELSE "vmsum", 5, 1, 2, 0), Do("vsumsws", 5, 5, 0, 0) >>
    [] job.name = "total" ->
         << Do("vsum4", 4, 1, 0, 0), Do("vsum2sws", 5, 4, 0, 0), Do("vsumsws", 5, 5, 3, 0),
            Do("vsumsws", 4, 4, 3, 0) >>

FloatProgram ==
  CASE job.name = "fsum"   -> << Do("vaddfp", 4, 1, 2, 0), Do("vsubfp", 5, 1, 2, 0) >>
    [] job.name = "fused"  -> << Do("vmaddfp", 4, 1, 2, 3), Do("vnmsubfp", 5, 1, 2, 3) >>
    [] job.name = "forder" -> << Do("vcmpeqfp", 4, 1, 2, 0), Do("vcmpgtfp", 5, 1, 2, 0),
                                 Do("vor", 4, 4, 5, 0), Records(Do("vcmpgefp", 6, 1, 2, 0)) >>
    [] job.name = "fpick"  -> << Do("vcmpgtfp", 4, 1, 2, 0), Do("vsel", 4, 2, 1, 4), Do("vmaxfp", 5, 1, 2, 0),
                                 Do("vminfp", 6, 1, 2, 0) >>
    [] job.name = "fbound" -> << Records(Do("vcmpbfp", 4, 1, 2, 0)) >>
    [] job.name = "fint"   -> << Do("vctxs", 4, 0, 1, 0), Do("vcfx", 5, 0, 4, 0), Do("vcfx", 6, 0, 2, 0) >>
    [] job.name = "fround" -> << Do("vrfi", 4, 0, 1, 0) >>
    [] job.name = "finverse" -> << Do("vrefp", 4, 0, 1, 0), Do("vrsqrtefp", 5, 0, 1, 0) >>

MemoryJobs  == {"load", "store", "scalar"}
MoveJobs    == {"slide", "left", "right", "shifts", "select", "zip", "widen", "pixels"}
SumJobs     == {"add", "sub", "wide", "widesub", "sticky", "average", "distance", "greatest", "equal"}
ProductJobs == {"products", "fraction", "dot", "bytedot", "total"}
FloatJobs   == {"fsum", "fused", "forder", "fpick", "fbound", "fint", "fround", "finverse"}

Program ==
  CASE job.name \in MemoryJobs  -> MemoryProgram
    [] job.name \in MoveJobs    -> MoveProgram
    [] job.name = "narrow"      -> NarrowProgram
    [] job.name \in SumJobs     -> SumProgram
    [] job.name \in ProductJobs -> ProductProgram
    [] job.name \in FloatJobs   -> FloatProgram
-----------------------------------------------------------------------------
VectorInit ==
  /\ job \in Jobs /\ given \in Starts(job)
  /\ vr = [n \in 0..6 |-> CASE n = 1 -> given.a [] n = 2 -> given.b [] n = 3 -> given.c
                            [] OTHER -> [k \in DOMAIN given.a |-> 0]]
  /\ vscr = given.vscr /\ cr6 = 0 /\ vmem = given.mem /\ vpc = 1

\* The instruction at vpc.
Now == Program[vpc]
Running == vpc <= Len(Program)

Retired == vpc' = vpc + 1 /\ UNCHANGED <<job, given>>

(* An instruction that writes a register, VSCR[SAT] and, if it records, CR6. *)
Compute ==
  /\ Running /\ Now.op \notin {"stvx", "stve", "mtvscr"}
  /\ LET r == Exec(Now, vr[Now.a], vr[Now.b], vr[Now.c])
     IN  /\ vr' = [vr EXCEPT ![Now.d] = r.v]
         /\ vscr' = [vscr EXCEPT !.sat = @ \/ r.sat]
         /\ cr6' = IF Now.rc THEN r.cr ELSE cr6
  /\ Retired /\ UNCHANGED vmem

Store ==
  /\ Running /\ Now.op \in {"stvx", "stve"}
  /\ vmem' = IF Now.op = "stvx" THEN Stvx(vr[Now.d], Now.x) ELSE Stve(Now.w, vr[Now.d], Now.x)
  /\ Retired /\ UNCHANGED <<vr, vscr, cr6>>

SetVscr ==
  /\ Running /\ Now.op = "mtvscr"
  /\ vscr' = Mtvscr(vr[Now.b])
  /\ Retired /\ UNCHANGED <<vr, cr6, vmem>>

VectorNext == Compute \/ Store \/ SetVscr

VectorSpec == VectorInit /\ [][VectorNext]_vectorVars
-----------------------------------------------------------------------------
Register == [0..15 -> 0 .. 2^Bits - 1]
FloatRegister == [0..3 -> 0 .. 2^FloatBits - 1]

VectorTypeOK ==
  /\ \A n \in DOMAIN vr : vr[n] \in IF job.name \in FloatJobs THEN FloatRegister ELSE Register
  /\ vscr \in [nj : BOOLEAN, sat : BOOLEAN] /\ cr6 \in {0, 2, 8}
  /\ vmem \in [DOMAIN given.mem -> 0 .. 2^Bits - 1]

Done(name) == job.name = name /\ ~Running

\* Bit n of a register, and bit n of lane k, the most significant first.
RegisterBit(v, n) == Bit(v[n \div Bits], Bits - 1 - (n % Bits))
LaneBit(v, k, n) == RegisterBit(v, (LaneBits(job.w) * k) + n)
Count(v, k) == Lane(v, job.w, k) % LaneBits(job.w)
InLane(n) == n \in 0 .. LaneBits(job.w) - 1

\* An unaligned load brings the sixteen bytes at its address, an unaligned
\* store writes them and nothing else, and a scalar loaded into its place in
\* the register is splat and stored (lvx, stvx, lve, stve, lvsl, lvsr).
AddressesAreUnaligned ==
  LET at == job.x - (job.x % job.w)
  IN  /\ Done("load")  => vr[4] = [k \in 0..15 |-> given.mem[job.x + k]]
      /\ Done("store") =>
           vmem = [p \in DOMAIN given.mem |->
                     IF p \in job.x .. job.x + 15 THEN given.a[p - job.x] ELSE given.mem[p]]
      /\ Done("scalar") =>
           /\ \A k \in 0..15 : vr[4][k] = given.mem[at + (k % job.w)]
           /\ \A p \in DOMAIN vmem :
                vmem[p] = given.mem[IF p - 16 \in at .. at + job.w - 1 THEN p - 16 ELSE p]

\* The two halves of a whole-register shift move every bit by the count in
\* byte 15; a lane is shifted or rotated by its own count alone (vslo, vsl,
\* vsro, vsr, PERLANE).
BitsAreMoved ==
  LET n == given.b[15] % (16 * Bits)
  IN  /\ Done("left") => \A p \in 0 .. (16 * Bits) - 1 :
           RegisterBit(vr[4], p) <=> p + n < 16 * Bits /\ RegisterBit(given.a, p + n)
      /\ Done("right") => \A p \in 0 .. (16 * Bits) - 1 :
           RegisterBit(vr[4], p) <=> p >= n /\ RegisterBit(given.a, p - n)
      /\ Done("shifts") => \A k \in LaneNos(job.w), p \in 0 .. LaneBits(job.w) - 1 :
           LET by == Count(given.b, k)
               up == p + by
               dn == p - by
           IN  /\ LaneBit(vr[3], k, p) <=> LaneBit(given.a, k, up % LaneBits(job.w))
               /\ LaneBit(vr[4], k, p) <=> InLane(up) /\ LaneBit(given.a, k, up)
               /\ LaneBit(vr[5], k, p) <=> InLane(dn) /\ LaneBit(given.a, k, dn)
               /\ LaneBit(vr[6], k, p) <=> LaneBit(given.a, k, IF InLane(dn) THEN dn ELSE 0)

\* A slide is the permute lvsl describes, a select is its masks, a merge
\* packed again is its second operand, and what is unpacked and packed, pixels
\* too, is what it was, without saturating (vsldoi, vsel, MERGE, vpk, vupk).
LanesAreMoved ==
  /\ Done("slide")  => vr[4] = vr[5]
  /\ Done("select") => vr[4] = vr[5] /\ vr[4] = vr[6]
  /\ Done("zip")    => vr[6] = given.b
  /\ Done("widen")  => vr[6] = given.a /\ vr[4] = given.a /\ ~vscr.sat
  /\ Done("pixels") => vr[6] = given.a

\* VSCR[SAT] says, and says only, that a saturating form delivered another
\* value than the exact one; where it is unsigned, that value is the nearest
\* (sat, VARITH, VPKS); mtvscr clears it and nothing else does.
SatIsExact ==
  LET over == \E k \in LaneNos(job.w) :
                LET n == Number(given.a, job.w, job.s, k) + Number(given.b, job.w, job.s, k)
                IN  Clamp(n, job.w, job.s) # n
  IN  /\ Done("narrow") => (vscr.sat <=> ~(vr[5] = given.a /\ vr[6] = given.b))
      /\ Done("add") \/ Done("sub") => (vscr.sat <=> vr[4] # vr[5]) /\ (~job.s => vr[4] = vr[6])
      /\ Done("sticky") =>
           /\ vscr.sat = (Bit(Lane(given.c, 4, 3), 0) \/ over)
           /\ vscr.nj = Bit(Lane(given.c, 4, 3), 2 * Bits)
           /\ Mtvscr(vr[6]) = vscr

\* Word k of a sum, or a difference, of sixteen bytes, and what it carries.
Carry[k \in 0..4] ==
  IF k = 4 THEN 0 ELSE (Lane(given.a, 4, k) + Lane(given.b, 4, k) + Carry[k + 1]) \div 2^LaneBits(4)
Borrow[k \in 0..4] ==
  IF k = 4 THEN 0 ELSE IF Lane(given.a, 4, k) < Lane(given.b, 4, k) + Borrow[k + 1] THEN 1 ELSE 0

\* vaddcuw and vsubcuw carry a sum and a difference across the register; the
\* average, the distance and the extremes of two lanes are the ones integers
\* have, and a compare marks its lanes and records them all or none (CR6).
LanesAreOrdered ==
  LET num(v, k) == Number(v, job.w, job.s, k)
      Nos == LaneNos(job.w)
  IN  /\ Done("wide") => \A k \in 0..3 :
           Lane(vr[5], 4, k) = (Lane(given.a, 4, k) + Lane(given.b, 4, k) + Carry[k + 1]) % 2^LaneBits(4)
      /\ Done("widesub") => \A k \in 0..3 :
           Lane(vr[5], 4, k) = (Lane(given.a, 4, k) - Lane(given.b, 4, k) - Borrow[k + 1]) % 2^LaneBits(4)
      /\ Done("average") => vr[4] = vr[5]
      /\ Done("distance") => \A k \in Nos : Lane(vr[6], job.w, k) = Abs(num(given.a, k) - num(given.b, k))
      /\ Done("greatest") =>
           /\ vr[5] = vr[6]
           /\ cr6 = 8 <=> \A k \in Nos : num(given.a, k) > num(given.b, k)
           /\ cr6 = 2 <=> \A k \in Nos : num(given.a, k) <= num(given.b, k)
      /\ Done("equal") => vr[4] = vr[5] /\ (cr6 = 8 <=> given.a = given.b)

\* Products of even and of odd lanes, put together, are the lanes' products;
\* dot products come out the same by lanes, by halves and by words, and differ
\* from their saturating forms only under SAT; a sum across does not depend on
\* its order (VMUL, vmladduhm, vmhaddshs, msum, vsum).
ProductsAgree ==
  LET num(v, k) == Number(v, job.w, job.s, k)
      exact(k)  == num(given.a, 2 * k) * num(given.b, 2 * k)
                   + num(given.a, 2 * k + 1) * num(given.b, 2 * k + 1) + Number(given.c, 4, job.s, k)
      least     == -(2^(2 * Bits - 1))
      total     == Number(given.c, 4, TRUE, 3) + MapThenSumSet(LAMBDA k : num(given.a, k), LaneNos(job.w))
  IN  /\ Done("products") =>
           /\ \A k \in LaneNos(job.w) :
                Lane(vr[6], job.w, k) = (Lane(given.a, job.w, k) * Lane(given.b, job.w, k)) % 2^LaneBits(job.w)
           /\ job.w = 2 => vr[4] = vr[5]
      /\ Done("fraction") => \A k \in LaneNos(2) :
           /\ num(vr[4], k) = num(vr[6], k) \/ (num(given.a, k) = least /\ num(given.b, k) = least)
           /\ Abs(num(vr[5], k) * 2^(2 * Bits - 1) - num(given.a, k) * num(given.b, k)) <= 2^(2 * Bits - 2)
              \/ (num(given.a, k) = least /\ num(given.b, k) = least /\ vscr.sat)
      /\ Done("dot") =>
           /\ vr[4] = vr[5]
           /\ vscr.sat <=> vr[5] # vr[6]
           /\ \A k \in 0..3 : Number(vr[6], 4, job.s, k) = Clamp(exact(k), 4, job.s)
      /\ Done("bytedot") => vr[4] = vr[5]
      /\ Done("total") => vr[4] = vr[5] /\ Number(vr[4], 4, TRUE, 3) = Clamp(total, 4, TRUE)
                          /\ (vscr.sat <=> Clamp(total, 4, TRUE) # total)
-----------------------------------------------------------------------------
\* The value of a word, in units of its smallest denormal (Val of SoftFp).
Finite1(x) == Decoded(x).e < 2^Sgl.k - 1
Value(x) == Val(Up(FlushIn(x)))
Ulp == 2^(Emin(Sgl) - (Sgl.p - 1) - Unit)

\* What an exact result rounds to: to nearest, once, and zero under NJ when
\* only a denormal is near.
Near(r) ==
  LET v == Delivered(r, VecEnv, Sgl).v
  IN  IF vscr.nj /\ v < 2^(Emin(Sgl) - Unit) THEN 0 ELSE v
Rounds(x, r) == r.n # 0 => Magnitude(Up(x)) = Near(r) /\ (x >= Sign <=> r.n < 0)

\* Sums, fused products and reciprocals are the exact values rounded to
\* nearest, once, with denormals flushed when NJ is set, coming in and going
\* out, and the root's reciprocal lies between the neighbours of what is
\* delivered; a sum with a NaN is that NaN made quiet (VFP3, vmaddfp, vnmsubfp,
\* vrefp, vrsqrtefp).
FloatsAreRounded ==
  \A k \in 0..3 :
    LET a == given.a[k]
        b == given.b[k]
        c == given.c[k]
        one == 2^(-Unit)
    IN  /\ Done("fsum") /\ Finite1(a) /\ Finite1(b) =>
             /\ Rounds(vr[4][k], [n |-> Value(a) + Value(b), d |-> 1, u |-> Unit])
             /\ Rounds(vr[5][k], [n |-> Value(a) - Value(b), d |-> 1, u |-> Unit])
        /\ Done("fsum") /\ SglNan(a) => vr[4][k] = SglQuiet(a)
        /\ Done("fused") /\ Finite1(a) /\ Finite1(b) /\ Finite1(c) =>
             LET p == Value(a) * Value(c)
                 z == Value(b) * one
             IN  /\ Rounds(vr[4][k], [n |-> p + z, d |-> 1, u |-> 2 * Unit])
                 /\ Rounds(vr[5][k], [n |-> z - p, d |-> 1, u |-> 2 * Unit])
        /\ Done("finverse") /\ Finite1(a) /\ Value(a) # 0 =>
             /\ Rounds(vr[4][k], [n |-> IF a >= Sign THEN -1 ELSE 1, d |-> Abs(Value(a)), u |-> -Unit])
             /\ LET v      == Value(a) \div Ulp
                    root(x) == Value(x) \div Ulp
                    unit   == (one \div Ulp) * (one \div Ulp) * (one \div Ulp)
                IN  a < Sign => /\ root(vr[5][k] - 1) * root(vr[5][k] - 1) * v <= unit
                                /\ unit <= root(vr[5][k] + 1) * root(vr[5][k] + 1) * v

\* Of two equal negative numbers sglGreater takes the first for the greater:
\* vcmpgtfp marks the lane, and a lane at minus its bound counts as below it.
EqualNegatives(k) == Value(given.a[k]) < 0 /\ Value(given.a[k]) = Value(given.b[k])
AtLowerBound(k) == Value(given.a[k]) < 0 /\ Value(given.a[k]) = -Value(given.b[k])

\* Comparisons are those of the numbers, false for a NaN; what a compare marks,
\* what it records and what the extremes deliver agree; vcmpbfp marks exactly
\* what lies outside its bound or at its negative (sglGreater, sglEqual, VFCMP, VMINMAX, vcmpbfp).
FloatsAreOrdered ==
  LET nan(k) == SglNan(given.a[k]) \/ SglNan(given.b[k])
      va(k)  == Value(given.a[k])
      vb(k)  == Value(given.b[k])
      ge(k)  == ~nan(k) /\ va(k) >= vb(k)
      in(k)  == ~nan(k) /\ va(k) <= vb(k) /\ -vb(k) <= va(k)
  IN  /\ Done("forder") =>
           /\ vr[4] = vr[6]
           /\ \A k \in 0..3 :
                vr[5][k] # 0 <=> ge(k) /\ (va(k) # vb(k) \/ EqualNegatives(k))
           /\ \A k \in 0..3 : vr[6][k] = IF ge(k) THEN 2^FloatBits - 1 ELSE 0
           /\ cr6 = 8 <=> \A k \in 0..3 : ge(k)
           /\ cr6 = 2 <=> \A k \in 0..3 : ~ge(k)
      /\ Done("fpick") => \A k \in 0..3 :
           IF nan(k) THEN vr[5][k] = vr[6][k] /\ SglNan(vr[5][k]) /\ SglQuiet(vr[5][k]) = vr[5][k]
           ELSE /\ vr[5][k] = FlushIn(vr[4][k])
                /\ Value(vr[5][k]) >= Value(vr[6][k])
                /\ {Value(vr[5][k]), Value(vr[6][k])} = {va(k), vb(k)}
      /\ Done("fbound") =>
           /\ \A k \in 0..3 : vr[4][k] = 0 <=> in(k) /\ ~AtLowerBound(k)
           /\ cr6 = 2 <=> \A k \in 0..3 : in(k) /\ ~AtLowerBound(k)

\* Conversion to an integer cuts toward zero and saturates, SAT exactly then; a
\* whole number in range survives the trip there and back, an integer becomes
\* the float nearest to it; vrfi delivers the integer its mode names, with the
\* sign it had (ctx, vcfux, vcfsx, vrfi).
FloatsAreConverted ==
  LET one == 2^(-Unit)
      cut(k)  == Value(given.a[k]) * 2^job.x                 \* exact, in Units
      int(k)  == IF cut(k) < 0 THEN -((-cut(k)) \div one) ELSE cut(k) \div one
      lo == IF job.s THEN -Sign ELSE 0
      hi == IF job.s THEN Sign - 1 ELSE 2^FloatBits - 1
      word(n) == n % 2^FloatBits
      own(x)  == IF job.s /\ x >= Sign THEN x - 2^FloatBits ELSE x
      whole(v, rn) == CASE rn = 0 -> IF 2 * (v % one) > one \/ (2 * (v % one) = one /\ (v \div one) % 2 = 1)
                                     THEN (v \div one) + 1 ELSE v \div one
                        [] rn = 1 -> IF v < 0 THEN -((-v) \div one) ELSE v \div one
                        [] rn = 2 -> -((-v) \div one)
                        [] rn = 3 -> v \div one
      finite(k) == Finite1(given.a[k])
  IN  /\ Done("fint") =>
           /\ \A k \in 0..3 :
                /\ finite(k) => vr[4][k] = word(IF int(k) < lo THEN lo ELSE IF int(k) > hi THEN hi ELSE int(k))
                /\ finite(k) /\ cut(k) % one = 0 /\ int(k) \in lo..hi => Value(vr[5][k]) = Value(given.a[k])
                /\ Rounds(vr[6][k], [n |-> own(given.b[k]), d |-> 1, u |-> -job.x])
           /\ (\A k \in 0..3 : finite(k)) => (vscr.sat <=> \E k \in 0..3 : int(k) \notin lo..hi)
      /\ Done("fround") => \A k \in 0..3 :
           IF SglNan(given.a[k]) THEN vr[4][k] = SglQuiet(given.a[k])
           ELSE IF ~finite(k) THEN vr[4][k] = given.a[k]
           ELSE /\ Value(vr[4][k]) = whole(Value(given.a[k]), job.x) * one
                /\ vr[4][k] >= Sign <=> given.a[k] >= Sign

\* Every sequence does what it is for.
SequencesDoTheirJob ==
  /\ AddressesAreUnaligned /\ BitsAreMoved /\ LanesAreMoved /\ SatIsExact
  /\ LanesAreOrdered /\ ProductsAgree
  /\ FloatsAreRounded /\ FloatsAreOrdered /\ FloatsAreConverted
=============================================================================
