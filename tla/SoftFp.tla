------------------------------- MODULE SoftFp -------------------------------
(***************************************************************************)
(* The software floating point of the processor core (core/src/softfp.cpp):*)
(* one rounding routine, one fused multiply-add that also adds, subtracts  *)
(* and multiplies, the shift-subtract division, the digit square root, the *)
(* integer and single conversions, and the host fast paths, against what   *)
(* the real numbers say. Formats are parameters: a double has Dbl.p bits   *)
(* of precision and Dbl.k of exponent (53 and 11), a single Sgl.p and      *)
(* Sgl.k (24 and 8), a machine word WordBits (64). A double is its three   *)
(* fields.                                                                 *)
(***************************************************************************)
EXTENDS Integers, FiniteSets, TLC

CONSTANTS Dbl, Sgl,       \* [p, k]
          WordBits,       \* bits of a machine word
          IntBits,        \* bits of the integer fctiw delivers (32)
          Band,           \* [lo, hi]: biased exponents the double fast path admits
          Lefts, Rights,  \* operands, doubles
          Factors,        \* multipliers, doubles
          SingleWords,    \* single words
          Envs            \* [rn, oe, ue, ni]

VARIABLE last   \* the last operation: its operands, environment and result

Bias(t)  == 2^(t.k - 1) - 1
Emin(t)  == 1 - Bias(t)
Emax(t)  == Bias(t)
Scale(t) == 3 * 2^(t.k - 2)
Top      == 2^Dbl.k - 1                      \* the exponent of Inf and NaN
Hidden   == 2^(Dbl.p - 1)
-----------------------------------------------------------------------------
Log2(v) == CHOOSE n \in 0..29 : v \div 2^n = 1
Lz(v, bits) == IF v = 0 THEN bits ELSE bits - 1 - Log2(v)
Bit(v, n) == (v \div 2^n) % 2 = 1

Flip(x)      == [x EXCEPT !.s = ~@]
Zero(s)      == [s |-> s, e |-> 0, f |-> 0]
Inf(s)       == [s |-> s, e |-> Top, f |-> 0]
One          == [s |-> FALSE, e |-> Bias(Dbl), f |-> 0]
QNaN         == [s |-> FALSE, e |-> Top, f |-> Hidden \div 2]

(* Mutant: the quiet bit is added, not set. *)
QuietAdded(x) == [x EXCEPT !.f = @ + (Hidden \div 2)]

Quiet(x) == IF Bit(x.f, Dbl.p - 2) THEN x ELSE [x EXCEPT !.f = @ + (Hidden \div 2)]

(* frsp and fres drop the payload bits a single does not have.              *)
Truncated(x) == [x EXCEPT !.f = (@ \div 2^(Dbl.p - Sgl.p)) * 2^(Dbl.p - Sgl.p)]
MaxOf(s, t)  == IF t = Dbl THEN [s |-> s, e |-> Top - 1, f |-> Hidden - 1]
                ELSE [s |-> s, e |-> Emax(Sgl) + Bias(Dbl),
                      f |-> (2^(Sgl.p - 1) - 1) * 2^(Dbl.p - Sgl.p)]

(* unpack: the class, and for a finite number the significand with its      *)
(* leading one in the top bit of the word.                                  *)
Unpack(x) ==
  LET n == Log2(x.f)
  IN  CASE x.e = Top /\ x.f = 0 -> [c |-> "inf", s |-> x.s, e |-> 0, m |-> 0]
        [] x.e = Top /\ x.f # 0 -> [c |-> IF Bit(x.f, Dbl.p - 2) THEN "qnan" ELSE "snan",
                                    s |-> x.s, e |-> 0, m |-> 0]
        [] x.e = 0 /\ x.f = 0   -> [c |-> "zero", s |-> x.s, e |-> 0, m |-> 0]
        [] x.e = 0 /\ x.f # 0   -> [c |-> "fin", s |-> x.s, e |-> n + Emin(Dbl) - (Dbl.p - 1),
                                    m |-> x.f * 2^(WordBits - 1 - n)]
        [] x.e \in 1 .. Top - 1 -> [c |-> "fin", s |-> x.s, e |-> x.e - Bias(Dbl),
                                    m |-> (Hidden + x.f) * 2^(WordBits - Dbl.p)]

IsNaN(u) == u.c \in {"qnan", "snan"}

(* packExact: also the denormals of the double format; an exponent that     *)
(* does not fit runs into the sign.                                         *)
PackExact(sign, vexp, sig) ==
  LET sh == (WordBits - Dbl.p + 1) + (Emin(Dbl) - 1 - vexp)
  IN  IF vexp < Emin(Dbl)
      THEN [s |-> sign, e |-> 0, f |-> IF sh >= WordBits THEN 0 ELSE sig \div 2^sh]
      ELSE [s |-> sign \/ Bit(vexp + Bias(Dbl), Dbl.k), e |-> (vexp + Bias(Dbl)) % 2^Dbl.k,
            f |-> (sig % 2^(WordBits - 1)) \div 2^(WordBits - Dbl.p)]

(* Mutant: ties go away from zero. *)
IncrementTies(rn, sign, lsb, g, r, x) ==
  CASE rn = 0 -> g
    [] rn = 1 -> FALSE
    [] rn = 2 -> ~sign /\ (g \/ r \/ x)
    [] rn = 3 -> sign /\ (g \/ r \/ x)

(* roundPack, the increment by the rounding mode of the FPSCR.              *)
Increment(rn, sign, lsb, g, r, x) ==
  CASE rn = 0 -> g /\ (r \/ x \/ lsb)
    [] rn = 1 -> FALSE
    [] rn = 2 -> ~sign /\ (g \/ r \/ x)
    [] rn = 3 -> sign /\ (g \/ r \/ x)

(* roundPack, the denormalisation of a tiny value (before rounding), or its *)
(* scaling when the underflow exception is enabled.                         *)
Denormalised(exp, sig, sticky, env, t) ==
  LET sh == Emin(t) - exp
  IN  CASE exp >= Emin(t) -> [exp |-> exp, sig |-> sig, sticky |-> sticky]
        [] exp < Emin(t) /\ env.ue -> [exp |-> exp + Scale(t), sig |-> sig, sticky |-> sticky]
        [] exp < Emin(t) /\ ~env.ue /\ sh >= WordBits ->
             [exp |-> Emin(t), sig |-> 0, sticky |-> sticky \/ sig # 0]
        [] exp < Emin(t) /\ ~env.ue /\ sh < WordBits ->
             [exp |-> Emin(t), sig |-> sig \div 2^sh, sticky |-> sticky \/ sig % 2^sh # 0]

(* roundPack: round the word once at the format's last place; a carry out   *)
(* of the significand renormalises.                                         *)
Carried(d, up, inx, inc, t) ==
  [e |-> IF up = 2^t.p THEN d.exp + 1 ELSE d.exp, kept |-> IF up = 2^t.p THEN up \div 2 ELSE up,
   inx |-> inx, inc |-> inc]

CutAt(d, sign, g, r, x, env, t) ==
  LET inc == Increment(env.rn, sign, Bit(d.sig, WordBits - t.p), g, r, x)
  IN  Carried(d, (d.sig \div 2^(WordBits - t.p)) + (IF inc THEN 1 ELSE 0), g \/ r \/ x, inc, t)

RoundOnce(d, sign, env, t) ==
  CutAt(d, sign, Bit(d.sig, WordBits - 1 - t.p), Bit(d.sig, WordBits - 2 - t.p),
        d.sticky \/ d.sig % 2^(WordBits - 2 - t.p) # 0, env, t)

(* roundPack, an overflow that is not trapped.                              *)
Overflow(fl, sign, env, t) ==
  IF env.rn = 0 \/ (env.rn = 2 /\ ~sign) \/ (env.rn = 3 /\ sign)
  THEN [x |-> Inf(sign), fl |-> fl \cup {"XX", "FR"}]
  ELSE [x |-> MaxOf(sign, t), fl |-> (fl \cup {"XX"}) \ {"FR"}]

(* roundPack, the normalised result; NI flushes a denormal.                 *)
PackKept(sign, kept, vexp, env, t) ==
  IF kept = 0 \/ (env.ni /\ vexp < Emin(t)) THEN Zero(sign)
  ELSE PackExact(sign, vexp, kept * 2^(WordBits - 1 - Log2(kept)))

Packed(k, sign, tiny, env, t) ==
  LET over == ~tiny /\ k.e > Emax(t)
      fl   == (IF k.inx THEN {"XX"} ELSE {}) \cup (IF k.inc THEN {"FR"} ELSE {})
              \cup (IF tiny /\ (env.ue \/ k.inx) THEN {"UX"} ELSE {})
              \cup (IF over THEN {"OX"} ELSE {})
  IN  IF over /\ ~env.oe THEN Overflow(fl, sign, env, t)
      ELSE [x  |-> PackKept(sign, k.kept, (IF over THEN k.e - Scale(t) ELSE k.e)
                                          - (t.p - 1) + Log2(k.kept), env, t),
            fl |-> fl]

RoundPack(sign, exp, sig, sticky, env, t) ==
  Packed(RoundOnce(Denormalised(exp, sig, sticky, env, t), sign, env, t),
         sign, exp < Emin(t), env, t)
-----------------------------------------------------------------------------
Abs(n) == IF n < 0 THEN -n ELSE n

(* fmaCore, the aligned sum. The product p and the addend b are words of    *)
(* 2 * WordBits bits with their leading one on top; the smaller is shifted down *)
(* to the exponent of the larger, and what is shifted out is remembered as  *)
(* one bit (shr128jam).                                                     *)
Combined(ps, bs, psign, bsign, exp, jam) ==
  LET sum == ps + bs
      dif == Abs(bs - ps)
      lz  == Lz(dif, 2 * WordBits)
  IN  IF psign # bsign
      THEN [s |-> IF bs >= ps THEN bsign ELSE psign, e |-> exp - lz, m |-> dif * 2^lz, jam |-> jam]
      ELSE IF sum < 2^(2 * WordBits) THEN [s |-> psign, e |-> exp, m |-> sum, jam |-> jam]
      ELSE [s |-> psign, e |-> exp + 1, m |-> sum \div 2, jam |-> jam \/ sum % 2 # 0]

AlignedSum(p, b) ==
  IF p.e < b.e
  THEN Combined(p.m \div 2^(b.e - p.e), b.m, p.s, b.s, b.e, p.m % 2^(b.e - p.e) # 0)
  ELSE Combined(p.m, b.m \div 2^(p.e - b.e), p.s, b.s, p.e, b.m % 2^(p.e - b.e) # 0)

(* fmaCore, the exact product with its leading one on top.                  *)
Product(a, c) ==
  LET m == a.m * c.m
      s == a.s # c.s
  IN  IF m < 2^(2 * WordBits - 1) THEN [s |-> s, e |-> a.e + c.e, m |-> 2 * m]
      ELSE [s |-> s, e |-> a.e + c.e + 1, m |-> m]

Wide(b) == [s |-> b.s, e |-> b.e, m |-> b.m * 2^WordBits]

(* fmaCore, NaN operands, in the order frA, frB, frC; a product of infinity *)
(* and zero; infinities of opposite sign.                                   *)
Invalid(a, c, b, hasB) ==
  (IF {a.c, c.c} = {"inf", "zero"} THEN {"VXIMZ"} ELSE {})
  \cup (IF a.c = "snan" \/ c.c = "snan" \/ (hasB /\ b.c = "snan") THEN {"VXSNAN"} ELSE {})

(* Mutant: the sign of an exact zero forgets the rounding mode. *)
ZeroSumSignPlus(ps, bs, rn) == ps /\ bs

(* The sign of an exact zero sum.                                           *)
ZeroSumSign(ps, bs, rn) == IF ps = bs THEN ps ELSE rn = 3

Negated(neg, x) == IF neg THEN Flip(x) ELSE x

(* fmaCore, an infinity or a product without a value.                       *)
FmaSpecial(a, c, b, hasB, neg, fl) ==
  LET ps == a.s # c.s
  IN  IF "VXIMZ" \in fl THEN [x |-> QNaN, fl |-> fl]
      ELSE IF "inf" \notin {a.c, c.c} THEN [x |-> Negated(neg, Inf(b.s)), fl |-> fl]
      ELSE IF hasB /\ b.c = "inf" /\ b.s # ps THEN [x |-> QNaN, fl |-> fl \cup {"VXISI"}]
      ELSE [x |-> Negated(neg, Inf(ps)), fl |-> fl]

(* fmaCore, an exact zero or one rounding.                                  *)
FmaRounded(sum, neg, env, t) ==
  IF sum.m = 0 /\ ~sum.jam THEN [x |-> Zero((env.rn = 3) # neg), fl |-> {}]
  ELSE RoundPack(sum.s # neg, sum.e, sum.m \div 2^WordBits, sum.jam \/ sum.m % 2^WordBits # 0, env, t)

FmaFinite(a, c, b, hasB, neg, env, t) ==
  IF "zero" \in {a.c, c.c}
  THEN IF hasB /\ b.c # "zero" THEN FmaRounded(Wide(b) @@ [jam |-> FALSE], neg, env, t)
       ELSE [x |-> Negated(neg, Zero(IF hasB THEN ZeroSumSign(a.s # c.s, b.s, env.rn)
                                             ELSE a.s # c.s)), fl |-> {}]
  ELSE FmaRounded(IF hasB /\ b.c # "zero" THEN AlignedSum(Product(a, c), Wide(b))
                  ELSE Product(a, c) @@ [jam |-> FALSE], neg, env, t)

FmaUnpacked(a, c, b, fa, fc, fb, hasB, neg, fl, env, t) ==
  IF IsNaN(a) THEN [x |-> Quiet(fa), fl |-> fl]
  ELSE IF hasB /\ IsNaN(b) THEN [x |-> Quiet(fb), fl |-> fl]
  ELSE IF IsNaN(c) THEN [x |-> Quiet(fc), fl |-> fl]
  ELSE IF "inf" \in {a.c, c.c} \/ (hasB /\ b.c = "inf") THEN FmaSpecial(a, c, b, hasB, neg, fl)
  ELSE FmaFinite(a, c, b, hasB, neg, env, t)

FmaOf(a, c, b, fa, fc, fb, hasB, neg, env, t) ==
  FmaUnpacked(a, c, b, fa, fc, fb, hasB, neg, Invalid(a, c, b, hasB), env, t)

FmaCore(fa, fc, fb, hasB, negAdd, neg, env, t) ==
  FmaOf(Unpack(fa), Unpack(fc), Unpack(IF hasB /\ negAdd THEN Flip(fb) ELSE fb),
        fa, fc, fb, hasB, neg, env, t)
-----------------------------------------------------------------------------
(* div: Dbl.p + 3 quotient bits by shift and subtract, the remainder sticky. *)
Quotient[n \in 0 .. Dbl.p + 2, am \in 0 .. 2^WordBits - 1, bm \in 0 .. 2^WordBits - 1] ==
  IF n = 0 THEN IF am >= bm THEN [q |-> 1, rem |-> am - bm] ELSE [q |-> 0, rem |-> am]
  ELSE LET s == Quotient[n - 1, am, bm]
           r == 2 * s.rem
       IN  IF r >= bm THEN [q |-> 2 * s.q + 1, rem |-> r - bm]
           ELSE [q |-> 2 * s.q, rem |-> r]

DivRounded(sign, exp, qr, lz, env, t) ==
  RoundPack(sign, exp + (WordBits - Dbl.p - 3 - lz), qr.q * 2^lz, qr.rem # 0, env, t)

DivFinite(sign, exp, qr, env, t) == DivRounded(sign, exp, qr, Lz(qr.q, WordBits), env, t)

DivUnpacked(a, b, s, fa, fb, env, t) ==
  IF IsNaN(a) \/ IsNaN(b)
  THEN [x  |-> Quiet(IF IsNaN(a) THEN fa ELSE fb),
        fl |-> IF "snan" \in {a.c, b.c} THEN {"VXSNAN"} ELSE {}]
  ELSE CASE a.c = "inf"  -> IF b.c = "inf" THEN [x |-> QNaN, fl |-> {"VXIDI"}]
                            ELSE [x |-> Inf(s), fl |-> {}]
         [] a.c # "inf" /\ b.c = "inf" -> [x |-> Zero(s), fl |-> {}]
         [] a.c # "inf" /\ b.c = "zero" ->
              IF a.c = "zero" THEN [x |-> QNaN, fl |-> {"VXZDZ"}] ELSE [x |-> Inf(s), fl |-> {"ZX"}]
         [] a.c = "zero" /\ b.c = "fin" -> [x |-> Zero(s), fl |-> {}]
         [] a.c = "fin" /\ b.c = "fin" ->
              DivFinite(s, a.e - b.e, Quotient[Dbl.p + 2, a.m, b.m], env, t)

Div(fa, fb, env, t) == DivUnpacked(Unpack(fa), Unpack(fb), fa.s # fb.s, fa, fb, env, t)

(* rsp: one rounding to single; a NaN loses the payload a single lacks.     *)
Rsp(fb, env) ==
  LET b == Unpack(fb)
  IN  CASE IsNaN(b) -> [x |-> Truncated(Quiet(fb)), fl |-> IF b.c = "snan" THEN {"VXSNAN"} ELSE {}]
        [] b.c \in {"inf", "zero"} -> [x |-> fb, fl |-> {}]
        [] b.c = "fin" -> RoundPack(b.s, b.e, b.m, FALSE, env, Sgl)

(* Mutant: the limit is the same on both sides of zero. *)
IntLimitEven(s) == 2^(IntBits - 1) - 1

(* ctiw, the largest magnitude that fits.                                   *)
IntLimit(s) == IF s THEN 2^(IntBits - 1) ELSE 2^(IntBits - 1) - 1

(* ctiw: the magnitude to an integer by the mode, then the range. x is the  *)
(* integer delivered.                                                       *)
CtiwRanged(sign, big, inx, inc, limit) ==
  IF big > limit THEN [x |-> IF sign THEN -limit ELSE limit, fl |-> {"VXCVI"}]
  ELSE [x |-> IF sign THEN -big ELSE big,
        fl |-> (IF inx THEN {"XX"} ELSE {}) \cup (IF inc THEN {"FR"} ELSE {})]

CtiwRounded(sign, mag, g, x, rn) ==
  LET inc == (g \/ x) /\ Increment(rn, sign, mag % 2 = 1, g, FALSE, x)
  IN  CtiwRanged(sign, mag + (IF inc THEN 1 ELSE 0), g \/ x, inc, IntLimit(sign))

\* wide has room below the integer part, whose last place is unit.
CtiwFinite(b, wide, unit, rn) ==
  CtiwRounded(b.s, IF b.e < 0 THEN 0 ELSE wide \div 2^unit,
              b.e >= -1 /\ Bit(wide, unit - 1),
              b.e < -1 \/ wide % 2^(unit - 1) # 0, rn)

CtiwOf(b, rn) ==
  CASE IsNaN(b) -> [x |-> -(2^(IntBits - 1)),
                    fl |-> {"VXCVI"} \cup (IF b.c = "snan" THEN {"VXSNAN"} ELSE {})]
    [] b.c = "inf" \/ (b.c = "fin" /\ b.e > WordBits - 2) ->
         [x |-> IF b.s THEN -IntLimit(b.s) ELSE IntLimit(b.s), fl |-> {"VXCVI"}]
    [] b.c = "zero" -> [x |-> 0, fl |-> {}]
    [] b.c = "fin" /\ b.e <= WordBits - 2 -> CtiwFinite(b, b.m * 2^WordBits, 2 * WordBits - 1 - b.e, rn)

Ctiw(fb, rn) == CtiwOf(Unpack(fb), rn)

(* Mutant: the trial forgets the doubling of the root. *)
SqrtStepShort(s) ==
  LET rem == 4 * s.rem + (s.rad \div 2^(2 * WordBits - 2))
      nxt == (4 * s.rad) % 2^(2 * WordBits)
  IN  IF rem >= 2 * s.q + 1 THEN [q |-> 2 * s.q + 1, rem |-> rem - (2 * s.q + 1), rad |-> nxt]
      ELSE [q |-> 2 * s.q, rem |-> rem, rad |-> nxt]

(* sqrtSig: two bits of the radicand per step.                              *)
SqrtStep(s) ==
  LET rem == 4 * s.rem + (s.rad \div 2^(2 * WordBits - 2))
      nxt == (4 * s.rad) % 2^(2 * WordBits)
  IN  IF rem >= 4 * s.q + 1 THEN [q |-> 2 * s.q + 1, rem |-> rem - (4 * s.q + 1), rad |-> nxt]
      ELSE [q |-> 2 * s.q, rem |-> rem, rad |-> nxt]

SqrtSig[n \in 0 .. Dbl.p + 3, rad \in 0 .. 2^(2 * WordBits) - 1] ==
  IF n = 0 THEN [q |-> 0, rem |-> 0, rad |-> rad] ELSE SqrtStep(SqrtSig[n - 1, rad])

Radicand(b) == b.m * 2^(WordBits - 1 + (b.e % 2))

(* rsqrte: the root rounded to double, then its reciprocal.                 *)
RootRounded(b, r, lz, near) ==
  RoundPack(FALSE, ((b.e - (b.e % 2)) \div 2) + (WordBits - Dbl.p - 3 - lz), r.q * 2^lz,
            r.rem # 0, near, Dbl).x

RootOf(b, r, near) == RootRounded(b, r, Lz(r.q, WordBits), near)

RsqrteOf(b, fb, near) ==
  CASE IsNaN(b) -> [x |-> Quiet(fb), fl |-> IF b.c = "snan" THEN {"VXSNAN"} ELSE {}]
    [] b.c = "zero" -> [x |-> Inf(b.s), fl |-> {"ZX"}]
    [] b.c \in {"fin", "inf"} /\ b.s -> [x |-> QNaN, fl |-> {"VXSQRT"}]
    [] b.c = "inf" /\ ~b.s -> [x |-> Zero(FALSE), fl |-> {}]
    [] b.c = "fin" /\ ~b.s ->
         [x |-> Div(One, RootOf(b, SqrtSig[Dbl.p + 3, Radicand(b)], near), near, Dbl).x, fl |-> {}]

Rsqrte(fb, env) == RsqrteOf(Unpack(fb), fb, [env EXCEPT !.rn = 0])

(* res: the reciprocal to single, to nearest.                               *)
ResOf(b, fb, r) ==
  CASE IsNaN(b) -> [x |-> Truncated(Quiet(fb)), fl |-> IF b.c = "snan" THEN {"VXSNAN"} ELSE {}]
    [] b.c = "inf"  -> [x |-> Zero(b.s), fl |-> {}]
    [] b.c = "zero" -> [x |-> Inf(b.s), fl |-> {"ZX"}]
    [] b.c = "fin"  -> [x |-> r.x, fl |-> r.fl \cap {"OX", "UX"}]

Res(fb, env) == ResOf(Unpack(fb), fb, Div(One, fb, [env EXCEPT !.rn = 0], Sgl))

(* loadSingle: a single word in the register format; its denormals become   *)
(* normal numbers.                                                          *)
Rebias  == Bias(Dbl) - Bias(Sgl)
Narrow  == 2^(Dbl.p - Sgl.p)

LoadSingle(w) ==
  LET n == Log2(w.f)
  IN  CASE w.e = 2^Sgl.k - 1 -> [s |-> w.s, e |-> Top, f |-> w.f * Narrow]
        [] w.e = 0 /\ w.f = 0 -> Zero(w.s)
        [] w.e = 0 /\ w.f # 0 -> [s |-> w.s, e |-> n + Emin(Sgl) - (Sgl.p - 1) + Bias(Dbl),
                                  f |-> (w.f * 2^(Dbl.p - 1 - n)) % Hidden]
        [] w.e \in 1 .. 2^Sgl.k - 2 -> [s |-> w.s, e |-> w.e + Rebias, f |-> w.f * Narrow]

(* Mutant: a single denormal is stored one place too low. *)
StoreSingleLow(x) ==
  IF x.e > Rebias \/ (x.e = 0 /\ x.f = 0)
  THEN [s |-> x.s, e |-> ((x.e \div 2^(Dbl.k - 1)) * 2^(Sgl.k - 1)) + (x.e % 2^(Sgl.k - 1)),
        f |-> x.f \div Narrow]
  ELSE [s |-> x.s, e |-> 0, f |-> ((Hidden + x.f) \div 2^(Rebias + 2 - x.e)) \div Narrow]

(* storeSingle: the exponent's top bit and its low bits, the fraction cut;  *)
(* below the normal range the significand is shifted, and below that zero.  *)
StoreSingle(x) ==
  IF x.e > Rebias \/ (x.e = 0 /\ x.f = 0)
  THEN [s |-> x.s, e |-> ((x.e \div 2^(Dbl.k - 1)) * 2^(Sgl.k - 1)) + (x.e % 2^(Sgl.k - 1)),
        f |-> x.f \div Narrow]
  ELSE IF x.e >= Rebias + 2 - Sgl.p
  THEN [s |-> x.s, e |-> 0, f |-> ((Hidden + x.f) \div 2^(Rebias + 1 - x.e)) \div Narrow]
  ELSE [s |-> x.s, e |-> 0, f |-> 0]
-----------------------------------------------------------------------------
(* The real numbers. A finite double is an integer number of Units; an      *)
(* exact result is n / d units of 2^u, d positive.                          *)
Unit == Emin(Dbl) - (Dbl.p - 1)

Magnitude(x) == IF x.e = 0 THEN x.f ELSE (Hidden + x.f) * 2^(x.e - 1)
Val(x) == IF x.s THEN -Magnitude(x) ELSE Magnitude(x)

FloorLog2(n, d) == IF n >= d THEN Log2(n \div d)
                   ELSE -(CHOOSE k \in 1..29 : n * 2^k >= d /\ n * 2^(k - 1) < d)

(* The correct rounding of an exact result to t.p bits: n is the rounded    *)
(* magnitude in units of 2^u, with the facts about it. Below Emin(t) the    *)
(* precision is lost a bit at a time, unless the exponent is unbounded.     *)
RoundedUp(low, rest, den, sign, rn) ==
  CASE rn = 0 -> 2 * rest > den \/ (2 * rest = den /\ low % 2 = 1)
    [] rn = 1 -> FALSE
    [] rn = 2 -> rest # 0 /\ ~sign
    [] rn = 3 -> rest # 0 /\ sign

RoundedAt(num, den, u, tiny, sign, rn) ==
  LET up == RoundedUp(num \div den, num % den, den, sign, rn)
  IN  [n |-> (num \div den) + (IF up THEN 1 ELSE 0), u |-> u, inexact |-> num % den # 0,
       up |-> up, tiny |-> tiny]

RoundedTo(r, q, tiny, rn) ==
  RoundedAt(Abs(r.n) * (IF q < 0 THEN 2^(-q) ELSE 1), r.d * (IF q < 0 THEN 1 ELSE 2^q),
            q + r.u, tiny, r.n < 0, rn)

RoundedFrom(r, e, t, rn, bounded) ==
  RoundedTo(r, (IF bounded /\ e < Emin(t) THEN Emin(t) ELSE e) - t.p + 1 - r.u, e < Emin(t), rn)

Rounded(r, t, rn, bounded) ==
  RoundedFrom(r, FloorLog2(Abs(r.n), r.d) + r.u, t, rn, bounded)

(* The magnitude of a rounded result in Units, shifted by the scaling.      *)
InUnits(k, shift) == k.n * 2^(k.u + shift - Unit)

(* What the instruction must deliver for a nonzero exact result.            *)
RoundingFlags(k) ==
  (IF k.inexact THEN {"XX"} ELSE {}) \cup (IF k.up THEN {"FR"} ELSE {})

DeliveredOf(b, free, sign, env, t) ==
  LET over == b.n * 2^(b.u - Unit) > Magnitude(MaxOf(FALSE, t))
      toInf == env.rn = 0 \/ (env.rn = 2 /\ ~sign) \/ (env.rn = 3 /\ sign)
  IN  CASE b.tiny /\ env.ue ->
             [v |-> InUnits(free, Scale(t)), fl |-> RoundingFlags(free) \cup {"UX"}]
        [] b.tiny /\ ~env.ue ->
             [v  |-> IF env.ni /\ InUnits(b, 0) < 2^(Emin(t) - Unit) THEN 0 ELSE InUnits(b, 0),
              fl |-> RoundingFlags(b) \cup (IF b.inexact THEN {"UX"} ELSE {})]
        [] ~b.tiny /\ over /\ env.oe ->
             [v |-> InUnits(b, -Scale(t)), fl |-> RoundingFlags(b) \cup {"OX"}]
        [] ~b.tiny /\ over /\ ~env.oe ->
             [v  |-> Magnitude(IF toInf THEN Inf(sign) ELSE MaxOf(sign, t)),
              fl |-> {"OX", "XX"} \cup (IF toInf THEN {"FR"} ELSE {})]
        [] ~b.tiny /\ ~over -> [v |-> InUnits(b, 0), fl |-> RoundingFlags(b)]

Delivered(r, env, t) ==
  DeliveredOf(Rounded(r, t, env.rn, TRUE), Rounded(r, t, env.rn, FALSE), r.n < 0, env, t)
-----------------------------------------------------------------------------
(* The host's arithmetic (external): correctly rounded to nearest, on       *)
(* numbers given in Units.                                                  *)
HostRound(n, u, t) ==
  IF n = 0 THEN 0
  ELSE (IF n < 0 THEN -1 ELSE 1) * InUnits(Rounded([n |-> n, d |-> 1, u |-> u], t, 0, TRUE), 0)

Host(n) == HostRound(n, Unit, Dbl)

RestOf(a, b, r, bv) == Host(Host(a - Host(r - bv)) + Host(b - bv))
TwoSumRest(a, b, r) == RestOf(a, b, r, Host(r - a))

FastFlags(resid, negative) ==
  IF resid = 0 THEN {} ELSE {"XX"} \cup (IF (resid < 0) # negative THEN {"FR"} ELSE {})

IsSingle(x) ==
  \/ x.e = 0 /\ x.f = 0
  \/ /\ x.e \in 1 .. Top - 1
     /\ Val(x) = HostRound(Val(x), Unit, Sgl)
     /\ Magnitude(x) <= Magnitude(MaxOf(FALSE, Sgl))

(* Mutant: the residue of the sum is not looked at. *)
SglAdmittedAny(v, r, rest) ==
  /\ Abs(r) <= Magnitude(MaxOf(FALSE, Sgl))
  /\ r = 0 \/ Abs(r) >= 2^(Emin(Sgl) - Unit)
  /\ ~(r = 0 /\ v # 0)

(* hostSglFast: the result is normal or an exact zero, and nothing of the   *)
(* sum lies below a double.                                                 *)
SglAdmitted(v, r, rest) ==
  /\ Abs(r) <= Magnitude(MaxOf(FALSE, Sgl))
  /\ r = 0 \/ Abs(r) >= 2^(Emin(Sgl) - Unit)
  /\ rest = 0
  /\ ~(r = 0 /\ v # 0)

(* hostSglFast: r0 is one host rounding of the exact value, S and T its     *)
(* two-part sum in doubles.                                                 *)
Miss == [hit |-> FALSE, v |-> 0, fl |-> {}]

SglChecked(sum, r0, rest) ==
  IF SglAdmitted(sum, r0, rest)
  THEN [hit |-> TRUE, v |-> r0, fl |-> FastFlags(sum - r0, r0 < 0)] ELSE Miss

SglSummed(pd, db, sum, r0, hasB) ==
  SglChecked(sum, r0, IF hasB THEN TwoSumRest(pd, db, sum) ELSE 0)

SglSum(pd, db, r0, hasB) == SglSummed(pd, db, Host(pd + db), r0, hasB)

HostSglFast(fa, fc, fb, hasB) ==
  LET db == IF hasB THEN Val(fb) ELSE 0
  IN  IF \A x \in {fa, fc} \cup (IF hasB THEN {fb} ELSE {}) : IsSingle(x)
      THEN SglSum(Host((Val(fa) * Val(fc)) \div 2^(-Unit)), db,
                  HostRound((Val(fa) * Val(fc)) + (db * 2^(-Unit)), 2 * Unit, Sgl), hasB)
      ELSE Miss

(* admitD and dblMulFast: the product and, by a fused multiply-add, its     *)
(* residue; the band keeps the residue a normal number.                     *)
AdmitD(x) == x.e \in Band.lo .. Band.hi \/ (x.e = 0 /\ x.f = 0)

DblMulOf(fa, fc, exact, r0) ==
  IF AdmitD(fa) /\ AdmitD(fc) /\ (Abs(r0) >= 2 * Hidden \/ exact = 0)
  THEN [hit |-> TRUE, v |-> r0,
        fl |-> FastFlags(HostRound(exact - (r0 * 2^(-Unit)), 2 * Unit, Dbl), r0 < 0)]
  ELSE Miss

DblMulFast(fa, fc) ==
  DblMulOf(fa, fc, Val(fa) * Val(fc), HostRound(Val(fa) * Val(fc), 2 * Unit, Dbl))

(* rsp, the host narrowing of a normal double to a normal single.           *)
RspOf(fb, r0) ==
  IF /\ fb.e \in 1 .. Top - 1
     /\ Abs(r0) >= 2^(Emin(Sgl) + 1 - Unit)
     /\ Abs(r0) <= Magnitude(MaxOf(FALSE, Sgl))
  THEN [hit |-> TRUE, v |-> r0, fl |-> FastFlags(Val(fb) - r0, r0 < 0)]
  ELSE Miss

RspFast(fb) == RspOf(fb, HostRound(Val(fb), Unit, Sgl))
-----------------------------------------------------------------------------
Did(op, c, b, t, r) ==
  last' = [last EXCEPT !.op = op, !.c = c, !.b = b, !.t = t, !.x = r.x, !.fl = r.fl]

(* An operation on the register and the FPSCR a behaviour starts with.      *)
Idle == last.op = "none"
A    == last.a
Env  == last.env

Add ==
  /\ Idle
  /\ \E b \in Rights, t \in {Dbl, Sgl} :
       Did("add", One, b, t, FmaCore(A, One, b, TRUE, FALSE, FALSE, Env, t))

Sub ==
  /\ Idle
  /\ \E b \in Rights, t \in {Dbl, Sgl} :
       Did("sub", One, b, t, FmaCore(A, One, b, TRUE, TRUE, FALSE, Env, t))

Mul ==
  /\ Idle
  /\ \E c \in Factors, t \in {Dbl, Sgl} :
       Did("mul", c, Zero(FALSE), t, FmaCore(A, c, Zero(FALSE), FALSE, FALSE, FALSE, Env, t))

Madd(op, negAdd, neg) ==
  /\ Idle
  /\ \E c \in Factors, b \in Rights, t \in {Dbl, Sgl} :
       Did(op, c, b, t, FmaCore(A, c, b, TRUE, negAdd, neg, Env, t))

Divide ==
  /\ Idle
  /\ \E b \in Rights, t \in {Dbl, Sgl} : Did("div", One, b, t, Div(A, b, Env, t))

RoundToSingle == Idle /\ Did("rsp", One, A, Sgl, Rsp(A, Env))
ToInteger     == Idle /\ Did("ctiw", One, A, Dbl, Ctiw(A, Env.rn))
Reciprocal    == Idle /\ Did("res", One, A, Sgl, Res(A, Env))
RootEstimate  == Idle /\ Did("rsqrte", One, A, Dbl, Rsqrte(A, Env))

(* lfs and stfs of a word.                                                  *)
LoadStore ==
  /\ Idle
  /\ \E w \in SingleWords :
       last' = [last EXCEPT !.op = "lfs", !.a = w, !.b = LoadSingle(w),
                            !.x = StoreSingle(LoadSingle(w))]

Init == \E a \in Lefts, env \in Envs :
          last = [op |-> "none", a |-> a, c |-> One, b |-> One, env |-> env, t |-> Dbl,
                  x |-> One, fl |-> {}]

Next == \/ Add \/ Sub \/ Mul \/ Divide \/ RoundToSingle \/ ToInteger
        \/ Reciprocal \/ RootEstimate \/ LoadStore
        \/ Madd("madd", FALSE, FALSE) \/ Madd("nmsub", TRUE, TRUE)

Spec == Init /\ [][Next]_last
-----------------------------------------------------------------------------
Double == [s : BOOLEAN, e : 0..Top, f : 0 .. Hidden - 1]
Finite(x) == x.e < Top

TypeOK == last.op \in {"ctiw", "lfs"} \/ last.x \in Double

(* The exact result of the last operation, when its operands are finite.    *)
Fused == {"add", "sub", "mul", "madd", "nmsub"}
Exact ==
  LET av == Val(last.a)
      bv == IF last.op \in {"sub", "nmsub"} THEN -Val(last.b) ELSE Val(last.b)
      n  == IF last.op = "mul" THEN av * Val(last.c)
            ELSE (av * Val(last.c)) + (bv * 2^(-Unit))
  IN  CASE last.op \in {"add", "sub"} -> [n |-> av + bv, d |-> 1, u |-> Unit]
        [] last.op = "mul" \/ last.op = "madd" -> [n |-> n, d |-> 1, u |-> 2 * Unit]
        [] last.op = "nmsub" -> [n |-> -n, d |-> 1, u |-> 2 * Unit]
        [] last.op = "div" -> [n |-> IF last.b.s THEN -av ELSE av, d |-> Magnitude(last.b), u |-> 0]
        [] last.op = "rsp" -> [n |-> Val(last.b), d |-> 1, u |-> Unit]

Arithmetic == last.op \in Fused \cup {"div", "rsp"} /\ Finite(last.a) /\ Finite(last.c)
              /\ Finite(last.b) /\ (last.op = "div" => Magnitude(last.b) # 0)

(* An addend of the opposite sign that reaches below the accumulator.       *)
FarBelow ==
  LET a == Unpack(last.a)
      c == Unpack(last.c)
      b == Unpack(IF last.op \in {"sub", "nmsub"} THEN Flip(last.b) ELSE last.b)
  IN  /\ last.op \in Fused \ {"mul"} /\ a.c = "fin" /\ c.c = "fin" /\ b.c = "fin"
      /\ AlignedSum(Product(a, c), Wide(b)).jam /\ (a.s # c.s) # b.s

(* Single arithmetic on operands that are not singles is left undefined by  *)
(* the architecture once its result has to be scaled.                       *)
Scalable == (last.t = Sgl /\ (last.env.ue \/ last.env.oe) /\ last.op # "rsp") =>
              \A x \in {last.a, last.c, last.b} : IsSingle(x)

AsDelivered(exact, d) ==
  /\ Magnitude(last.x) = d.v /\ last.fl = d.fl
  /\ last.x.s = (exact.n < 0)

RoundedFromExact(exact) ==
  exact.n # 0 => AsDelivered(exact, Delivered(exact, last.env, last.t))

(* Every arithmetic instruction delivers the exact result rounded once, in  *)
(* all four modes, with the inexact, increment, underflow and overflow      *)
(* flags that rounding has, scaled where the exception is enabled, and      *)
(* flushed under NI (roundPack, fmaCore, div, rsp).                         *)
RoundedOnce == (Arithmetic /\ Scalable /\ ~FarBelow) => RoundedFromExact(Exact)

(* An exact zero has the sign the mode gives it: the sign both terms share, *)
(* else minus only when rounding down (fmaCore).                            *)
ZeroSigns ==
  (Arithmetic /\ Exact.n = 0 /\ last.op \in {"add", "sub", "madd"}) =>
    LET ps == last.a.s # last.c.s
        bs == last.b.s # (last.op = "sub")
    IN  last.x = Zero(IF Magnitude(last.b) = 0 /\ ps = bs THEN ps ELSE last.env.rn = 3)
        /\ last.fl = {}

(* What a fast path would give the last operation.                          *)
Plain == Arithmetic /\ last.env = [rn |-> 0, oe |-> FALSE, ue |-> FALSE, ni |-> FALSE]

Fast ==
  CASE last.op \in {"add", "sub", "madd", "mul"} /\ last.t = Sgl ->
         HostSglFast(last.a, last.c, IF last.op = "sub" THEN Flip(last.b) ELSE last.b,
                     last.op # "mul")
    [] last.op = "mul" /\ last.t = Dbl -> DblMulFast(last.a, last.c)
    [] last.op = "rsp" -> RspFast(last.b)
    [] OTHER -> Miss

(* A tiny single result that rounds up to the smallest normal number.       *)
RoundsUpToNormal == Rounded(Exact, Sgl, 0, TRUE).tiny

(* Whenever a host fast path takes an operation, its bits are the ones the  *)
(* model would have computed, and so are its flags but for the underflow of *)
(* a single result that rounds up to the smallest normal number             *)
(* (hostSglFast, dblMulFast, rsp).                                          *)
FastAgrees(f) ==
  f.hit =>
    /\ Val(last.x) = f.v
    /\ last.fl = f.fl \/ (last.t = Sgl /\ last.op # "rsp" /\ Exact.n # 0 /\ RoundsUpToNormal
                           /\ last.fl = f.fl \cup {"UX"})

FastIsModel == Plain => FastAgrees(Fast)

(* A single survives the trip through a register: what lfs loads has its    *)
(* value and stfs stores the same word, denormals and NaNs included.        *)
SinglesSurvive == last.op = "lfs" => last.x = last.a

(* fctiw delivers the nearest integer its mode names, or the limit it       *)
(* passed with VXCVI alone (ctiw).                                          *)
IntegerRounded ==
  (last.op = "ctiw" /\ Finite(last.b) /\ Magnitude(last.b) # 0) =>
    LET n    == Magnitude(last.b)
        one  == 2^(-Unit)
        low  == n \div one
        rest == n % one
        up   == CASE last.env.rn = 0 -> 2 * rest > one \/ (2 * rest = one /\ low % 2 = 1)
                  [] last.env.rn = 1 -> FALSE
                  [] last.env.rn = 2 -> rest # 0 /\ ~last.b.s
                  [] last.env.rn = 3 -> rest # 0 /\ last.b.s
        mag  == IF up THEN low + 1 ELSE low
        v    == IF last.b.s THEN -mag ELSE mag
    IN  IF v \in -(2^(IntBits - 1)) .. 2^(IntBits - 1) - 1
        THEN last.x = v /\ ("XX" \in last.fl <=> rest # 0) /\ ("FR" \in last.fl <=> up)
        ELSE /\ last.x = IF last.b.s THEN -(2^(IntBits - 1)) ELSE 2^(IntBits - 1) - 1
             /\ last.fl = {"VXCVI"}

(* The digit recurrence is the integer square root of its radicand.         *)
SqrtIsFloor ==
  (last.op = "rsqrte" /\ Unpack(last.b).c = "fin" /\ ~last.b.s) =>
    LET r == SqrtSig[Dbl.p + 3, Radicand(Unpack(last.b))]
        v == Radicand(Unpack(last.b)) \div 2^(2 * (WordBits - Dbl.p - 3))
    IN  r.q * r.q <= v /\ (r.q + 1) * (r.q + 1) > v /\ (r.rem = 0 <=> r.q * r.q = v)
=============================================================================
