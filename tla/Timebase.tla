------------------------------ MODULE Timebase ------------------------------
(***************************************************************************)
(* The processor's clock as pure operators: the timebase TB, the           *)
(* decrementer DEC, the cycles not yet worth a tick, and the pending       *)
(* decrementer request (core/include/opm/cpu.hpp, Cpu::tick and the        *)
(* functions built on it).  TB is 64 bits wide and never wraps within a    *)
(* run; DEC wraps at its width, 2 * DecHalf.                               *)
(***************************************************************************)
EXTENDS Integers, TLAPS

CONSTANTS
  CyclesPerTbTick,  \* processor cycles per timebase tick (bus clock / 4)
  DecHalf,          \* half of the decrementer's range: 2^31 in the processor
  MaxChunk,         \* most cycles one tick() call is given (0x3F000000)
  Never             \* the "no deadline" answer, ~0 in the code

ASSUME ClockConstants ==
  /\ CyclesPerTbTick \in Nat \ {0}
  /\ DecHalf \in Nat \ {0}
  /\ MaxChunk \in Nat \ {0}
  /\ Never \in Nat

DecModulus == 2 * DecHalf

\* The clock's state.  cycleAccum is always short of one tick.
Clock == [tb: Nat, dec: 0 .. (DecModulus - 1),
          cycleAccum: 0 .. (CyclesPerTbTick - 1), decPending: BOOLEAN]

\* DEC's most significant bit.
Negative(dec) == dec >= DecHalf

\* The clock after n whole timebase ticks: the request is raised exactly when
\* the count passes below zero from a non-negative start.
TickWhole(c, n, accum) ==
  [tb         |-> c.tb + n,
   dec        |-> (c.dec - n) % DecModulus,
   cycleAccum |-> accum,
   decPending |-> c.decPending \/ (~Negative(c.dec) /\ n > c.dec)]

\* Cpu::tick: the closed form of one decrement per timebase tick.
Tick(c, cycles) ==
  LET a == c.cycleAccum + cycles
  IN  IF a < CyclesPerTbTick
      THEN [c EXCEPT !.cycleAccum = a]
      ELSE TickWhole(c, a \div CyclesPerTbTick, a % CyclesPerTbTick)

\* Mutant: the loop over chunks runs only once.
ClockAdvanceFirstChunk(c, cycles) ==
  Tick(c, IF cycles <= MaxChunk THEN cycles ELSE MaxChunk)

\* Cpu::clockAdvanceCycles, for advances of at most two chunks.
ClockAdvanceCycles(c, cycles) ==
  IF cycles <= MaxChunk
  THEN Tick(c, cycles)
  ELSE Tick(Tick(c, MaxChunk), cycles - MaxChunk)

\* Cpu::syncClock: apply the cycles a batch has charged but not applied.
SyncClock(c, pend) ==
  IF pend = 0 THEN c ELSE ClockAdvanceCycles(c, pend)

\* Mutant: the charged cycles are left out.
TbNowStale(c, pend) == c.tb

\* Cpu::tbNow: the timebase with the charged cycles included, unapplied.
TbNow(c, pend) == c.tb + ((c.cycleAccum + pend) \div CyclesPerTbTick)

\* Cpu::tbUntilDec: ticks until tick() would raise the decrementer request.
TbUntilDec(c) == IF Negative(c.dec) THEN Never ELSE c.dec + 1

CeilDiv(x, y) == (x + y - 1) \div y

\* Mutant: the fraction of a tick already accumulated is forgotten.
StepsUntilDecNoAccum(c, cyclesPerStep) ==
  IF Negative(c.dec) \/ cyclesPerStep = 0
  THEN Never
  ELSE CeilDiv((c.dec + 1) * CyclesPerTbTick, cyclesPerStep)

\* Cpu::stepsUntilDec: the same deadline in steps of cyclesPerStep cycles.
StepsUntilDec(c, cyclesPerStep) ==
  IF Negative(c.dec) \/ cyclesPerStep = 0
  THEN Never
  ELSE CeilDiv((c.dec + 1) * CyclesPerTbTick - c.cycleAccum, cyclesPerStep)

\* h_mtspr, SPR 22: a write that turns DEC's sign bit on raises the request.
WriteDec(c, v) ==
  [c EXCEPT !.dec = v,
            !.decPending = @ \/ (~Negative(c.dec) /\ Negative(v))]

\* h_mtspr, SPRs 284 and 285: the guest sets the timebase outright.
WriteTb(c, v) == [c EXCEPT !.tb = v]
-----------------------------------------------------------------------------
(* What the clock's operators compute, for every value of the constants.   *)

\* Dividing less than (d + 1) ticks' worth of cycles gives at most d ticks.
LEMMA DivBound ==
  ASSUME NEW m \in Nat, NEW d \in Nat, NEW k \in Nat \ {0},
         m < (d + 1) * k
  PROVE  m \div k <= d
<1>1. /\ m = k * (m \div k) + (m % k)
      /\ m \div k \in Nat /\ m % k \in 0 .. (k - 1)
  OBVIOUS
<1>2. SUFFICES ASSUME m \div k >= d + 1 PROVE FALSE
  BY <1>1
<1>3. k * (m \div k) >= k * (d + 1)
  BY <1>1, <1>2
<1> QED
  BY <1>1, <1>3

\* A cycle count splits into whole ticks and a fraction of one.
LEMMA DivSplit ==
  ASSUME NEW m \in Nat, NEW k \in Nat \ {0}
  PROVE  /\ m \div k \in Nat /\ m % k \in 0 .. (k - 1)
         /\ m = (m \div k) * k + (m % k)
OBVIOUS

\* A remainder is in range, whatever the sign of the dividend.
LEMMA ModRange ==
  ASSUME NEW x \in Int, NEW k \in Nat \ {0}
  PROVE  x % k \in 0 .. (k - 1)
OBVIOUS

\* A value already in range is its own remainder.
LEMMA ModSmall ==
  ASSUME NEW x \in Nat, NEW k \in Nat \ {0}, x < k
  PROVE  x % k = x
<1>1. /\ x \div k \in Nat /\ x % k \in 0 .. (k - 1)
      /\ x = (x \div k) * k + (x % k)
  BY DivSplit
<1>2. x \div k = 0
  <2>1. SUFFICES ASSUME x \div k >= 1 PROVE FALSE
    BY <1>1
  <2>2. (x \div k) * k >= k
    BY <1>1, <2>1
  <2> QED
    BY <1>1, <2>2
<1> QED
  BY <1>1, <1>2

\* The fields of a clock and the constants that size them.
LEMMA ClockFields ==
  ASSUME NEW c \in Clock
  PROVE  /\ c.tb \in Nat /\ c.dec \in Nat /\ c.dec < DecModulus
         /\ c.cycleAccum \in Nat /\ c.cycleAccum < CyclesPerTbTick
         /\ c.decPending \in BOOLEAN
         /\ CyclesPerTbTick \in Nat \ {0} /\ DecModulus \in Nat \ {0}
BY ClockConstants DEF Clock, DecModulus

\* The two cases of tick(): a fraction of a tick, or q whole ones and r over.
LEMMA TickCases ==
  ASSUME NEW c \in Clock, NEW n \in Nat
  PROVE  \/ /\ c.cycleAccum + n < CyclesPerTbTick
            /\ Tick(c, n) = [c EXCEPT !.cycleAccum = c.cycleAccum + n]
         \/ \E q \in Nat, r \in 0 .. (CyclesPerTbTick - 1) :
              /\ Tick(c, n) = TickWhole(c, q, r)
              /\ c.cycleAccum + n = q * CyclesPerTbTick + r
              /\ q = (c.cycleAccum + n) \div CyclesPerTbTick
<1>1. /\ c.cycleAccum + n \in Nat /\ CyclesPerTbTick \in Nat \ {0}
  BY ClockFields
<1>2. CASE c.cycleAccum + n < CyclesPerTbTick
  BY <1>2 DEF Tick
<1>3. CASE ~(c.cycleAccum + n < CyclesPerTbTick)
  <2> DEFINE q == (c.cycleAccum + n) \div CyclesPerTbTick
             r == (c.cycleAccum + n) % CyclesPerTbTick
  <2>1. Tick(c, n) = TickWhole(c, q, r)
    BY <1>3 DEF Tick
  <2>2. /\ q \in Nat /\ r \in 0 .. (CyclesPerTbTick - 1)
        /\ c.cycleAccum + n = q * CyclesPerTbTick + r
    BY <1>1, DivSplit
  <2> QED
    BY <2>1, <2>2
<1> QED
  BY <1>2, <1>3

\* tick() keeps the clock well formed and conserves cycles.
LEMMA TickFacts ==
  ASSUME NEW c \in Clock, NEW n \in Nat
  PROVE  /\ Tick(c, n) \in Clock
         /\ Tick(c, n).tb * CyclesPerTbTick + Tick(c, n).cycleAccum
              = c.tb * CyclesPerTbTick + c.cycleAccum + n
<1>1. CASE /\ c.cycleAccum + n < CyclesPerTbTick
           /\ Tick(c, n) = [c EXCEPT !.cycleAccum = c.cycleAccum + n]
  <2>1. c.cycleAccum + n \in 0 .. (CyclesPerTbTick - 1)
    BY <1>1, ClockFields
  <2> QED
    BY <1>1, <2>1, ClockFields DEF Clock
<1>2. ASSUME NEW q \in Nat, NEW r \in 0 .. (CyclesPerTbTick - 1),
             Tick(c, n) = TickWhole(c, q, r),
             c.cycleAccum + n = q * CyclesPerTbTick + r
      PROVE  /\ Tick(c, n) \in Clock
             /\ Tick(c, n).tb * CyclesPerTbTick + Tick(c, n).cycleAccum
                  = c.tb * CyclesPerTbTick + c.cycleAccum + n
  <2>1. (c.dec - q) % DecModulus \in 0 .. (DecModulus - 1)
    <3>1. c.dec - q \in Int /\ DecModulus \in Nat \ {0}
      BY ClockFields
    <3> QED
      BY <3>1, ModRange
  <2>2. c.tb + q \in Nat
    BY ClockFields
  <2>3. (c.decPending \/ (~Negative(c.dec) /\ q > c.dec)) \in BOOLEAN
    OBVIOUS
  <2>4. TickWhole(c, q, r) \in Clock
    BY <2>1, <2>2, <2>3 DEF TickWhole, Clock
  <2>5. /\ TickWhole(c, q, r).tb = c.tb + q
        /\ TickWhole(c, q, r).cycleAccum = r
    BY DEF TickWhole
  <2>6. (c.tb + q) * CyclesPerTbTick = c.tb * CyclesPerTbTick + q * CyclesPerTbTick
    BY ClockFields
  <2>7. r \in Nat /\ c.tb * CyclesPerTbTick \in Nat /\ q * CyclesPerTbTick \in Nat
    BY ClockFields
  <2>8. (c.tb + q) * CyclesPerTbTick + r
          = c.tb * CyclesPerTbTick + c.cycleAccum + n
    BY <1>2, <2>6, <2>7, ClockFields
  <2> QED
    BY <1>2, <2>4, <2>5, <2>8
<1> QED
  BY <1>1, <1>2, TickCases

\* Quotient and remainder are the only split of a number into multiples of k
\* and something smaller than k.
LEMMA DivUnique ==
  ASSUME NEW z \in Int, NEW q \in Int, NEW s \in Int, NEW k \in Nat \ {0},
         z = q * k + s, 0 <= s, s < k
  PROVE  z \div k = q /\ z % k = s
<1> DEFINE Q == z \div k
           R == z % k
<1>1. Q \in Int /\ R \in Int /\ 0 <= R /\ R < k /\ z = Q * k + R
  OBVIOUS
<1> HIDE DEF Q, R
<1>2. ~(Q > q)
  <2> SUFFICES ASSUME Q > q PROVE FALSE
    OBVIOUS
  <2>1. Q * k >= (q + 1) * k /\ (q + 1) * k = q * k + k
    BY <1>1
  <2> QED
    BY <1>1, <2>1
<1>3. ~(Q < q)
  <2> SUFFICES ASSUME Q < q PROVE FALSE
    OBVIOUS
  <2>1. (Q + 1) * k <= q * k /\ (Q + 1) * k = Q * k + k
    BY <1>1
  <2> QED
    BY <1>1, <2>1
<1>4. Q = q
  BY <1>1, <1>2, <1>3
<1>5. R = s
  BY <1>1, <1>4
<1> QED
  BY <1>4, <1>5 DEF Q, R

\* Reducing before a subtraction changes nothing: DEC may wrap at any tick.
LEMMA ModSub ==
  ASSUME NEW x \in Int, NEW y \in Int, NEW k \in Nat \ {0}
  PROVE  ((x % k) - y) % k = (x - y) % k
<1> DEFINE a == x \div k
           u == x % k
           b == (u - y) \div k
           v == (u - y) % k
<1>1. a \in Int /\ u \in Int /\ x = a * k + u
  OBVIOUS
<1> HIDE DEF a, u
<1>2. b \in Int /\ v \in Int /\ 0 <= v /\ v < k /\ u - y = b * k + v
  BY <1>1
<1> HIDE DEF b, v
<1>3. (a + b) * k = a * k + b * k /\ a * k \in Int /\ b * k \in Int
  BY <1>1, <1>2
<1>4. x - y = (a + b) * k + v /\ x - y \in Int /\ a + b \in Int
  BY <1>1, <1>2, <1>3
<1>5. (x - y) % k = v
  <2> DEFINE z == x - y
             q == a + b
  <2>1. z \in Int /\ q \in Int /\ z = q * k + v
    BY <1>4
  <2> HIDE DEF z, q
  <2>2. z \div k = q /\ z % k = v
    BY <1>2, <2>1, DivUnique
  <2> QED
    BY <2>2 DEF z
<1> QED
  BY <1>5 DEF u, v

\* tick() is TickWhole, whether or not a whole tick has gone by.
LEMMA TickIsWhole ==
  ASSUME NEW c \in Clock, NEW n \in Nat
  PROVE  Tick(c, n) = TickWhole(c, (c.cycleAccum + n) \div CyclesPerTbTick,
                                (c.cycleAccum + n) % CyclesPerTbTick)
<1> DEFINE a == c.cycleAccum + n
<1>1. a \in Nat /\ CyclesPerTbTick \in Nat \ {0} /\ c.dec \in Nat
      /\ c.dec < DecModulus /\ DecModulus \in Nat \ {0} /\ c.tb \in Nat
      /\ c.decPending \in BOOLEAN
  BY ClockFields
<1>2. CASE a < CyclesPerTbTick
  <2>1. a = 0 * CyclesPerTbTick + a
    BY <1>1
  <2>2. a \div CyclesPerTbTick = 0 /\ a % CyclesPerTbTick = a
    <3> HIDE DEF a
    <3> QED
      BY <1>1, <1>2, <2>1, DivUnique
  <2>3. (c.dec - 0) % DecModulus = c.dec /\ c.tb + 0 = c.tb
    BY <1>1, ModSmall
  <2>4. (c.decPending \/ (~Negative(c.dec) /\ 0 > c.dec)) = c.decPending
    <3>1. ~(0 > c.dec)
      BY <1>1
    <3> QED
      BY <1>1, <3>1
  <2>5. TickWhole(c, 0, a) = [tb |-> c.tb, dec |-> c.dec, cycleAccum |-> a,
                              decPending |-> c.decPending]
    BY <2>3, <2>4 DEF TickWhole
  <2>6. [c EXCEPT !.cycleAccum = a]
          = [tb |-> c.tb, dec |-> c.dec, cycleAccum |-> a,
             decPending |-> c.decPending]
    BY DEF Clock
  <2>7. Tick(c, n) = [c EXCEPT !.cycleAccum = a]
    BY <1>2 DEF Tick
  <2> HIDE DEF a
  <2>8. Tick(c, n) = TickWhole(c, a \div CyclesPerTbTick, a % CyclesPerTbTick)
    BY <2>2, <2>5, <2>6, <2>7
  <2> QED
    BY <2>8 DEF a
<1>3. CASE ~(a < CyclesPerTbTick)
  BY <1>3 DEF Tick
<1> QED
  BY <1>2, <1>3

\* Two runs of whole ticks, no longer together than half of DEC's range, are
\* one: the sign bit is crossed by one of them exactly when it is by the whole.
LEMMA WholeCompose ==
  ASSUME NEW c \in Clock, NEW m \in Nat, NEW n \in Nat, NEW r, NEW s,
         m + n <= DecHalf
  PROVE  TickWhole(TickWhole(c, m, r), n, s) = TickWhole(c, m + n, s)
<1> DEFINE e == (c.dec - m) % DecModulus
           A == ~Negative(c.dec) /\ m > c.dec
           B == ~Negative(e) /\ n > e
           C == ~Negative(c.dec) /\ m + n > c.dec
<1>1. /\ c.dec \in Nat /\ c.dec < DecModulus /\ DecModulus = 2 * DecHalf
      /\ DecModulus \in Nat \ {0} /\ DecHalf \in Nat \ {0} /\ c.tb \in Nat
      /\ c.decPending \in BOOLEAN
  BY ClockFields, ClockConstants DEF DecModulus
<1>2. (e - n) % DecModulus = (c.dec - (m + n)) % DecModulus
  <2>1. c.dec - m \in Int /\ (c.dec - m) - n = c.dec - (m + n)
    BY <1>1
  <2> QED
    BY <1>1, <2>1, ModSub
<1>3. (A \/ B) <=> C
  <2>1. CASE m <= c.dec
    <3>1. e = c.dec - m
      <4>1. c.dec - m \in Nat /\ c.dec - m < DecModulus
        BY <1>1, <2>1
      <4> QED
        BY <1>1, <4>1, ModSmall
    <3> HIDE DEF e
    <3> QED
      BY <1>1, <2>1, <3>1 DEF Negative
  <2>2. CASE m > c.dec
    <3>1. ~Negative(c.dec)
      BY <1>1, <2>2 DEF Negative
    <3>2. m + n > c.dec
      BY <1>1, <2>2
    <3> HIDE DEF B
    <3> QED
      BY <2>2, <3>1, <3>2
  <2> QED
    BY <1>1, <2>1, <2>2
<1>4. ((c.decPending \/ A) \/ B) = (c.decPending \/ C)
  <2> HIDE DEF A, B, C
  <2> QED
    BY <1>3
<1>5. TickWhole(c, m, r) = [tb |-> c.tb + m, dec |-> e, cycleAccum |-> r,
                            decPending |-> c.decPending \/ A]
  BY DEF TickWhole
<1> DEFINE d == TickWhole(c, m, r)
<1>6. d.tb = c.tb + m /\ d.dec = e /\ d.decPending = (c.decPending \/ A)
  <2> HIDE DEF A, e
  <2> QED
    BY <1>5
<1> HIDE DEF d
<1>7. TickWhole(d, n, s)
        = [tb |-> (c.tb + m) + n, dec |-> (e - n) % DecModulus,
           cycleAccum |-> s, decPending |-> (c.decPending \/ A) \/ B]
  <2> HIDE DEF e, A
  <2> QED
    BY <1>6 DEF TickWhole
<1>8. (c.tb + m) + n = c.tb + (m + n)
  BY <1>1
<1>9. TickWhole(c, m + n, s)
        = [tb |-> c.tb + (m + n), dec |-> (c.dec - (m + n)) % DecModulus,
           cycleAccum |-> s, decPending |-> c.decPending \/ C]
  BY DEF TickWhole
<1> HIDE DEF A, B, C, e
<1> QED
  BY <1>2, <1>4, <1>7, <1>8, <1>9 DEF d

\* tick() in two pieces is tick() in one.
LEMMA TickCompose ==
  ASSUME NEW c \in Clock, NEW a \in Nat, NEW b \in Nat,
         a + b <= DecHalf * CyclesPerTbTick
  PROVE  Tick(Tick(c, a), b) = Tick(c, a + b)
<1> DEFINE k == CyclesPerTbTick
           x == c.cycleAccum + a
           m == x \div k
           r == x % k
           d == TickWhole(c, m, r)
           y == r + b
           n == y \div k
           s == y % k
<1>1. x \in Nat /\ k \in Nat \ {0} /\ DecHalf \in Nat /\ c.cycleAccum \in Nat
      /\ c.cycleAccum < k
  BY ClockFields, ClockConstants
<1> HIDE DEF k
<1>2. m \in Nat /\ r \in 0 .. (k - 1) /\ x = m * k + r
  BY <1>1, DivSplit
<1> HIDE DEF m, r
<1>3. y \in Nat
  BY <1>1, <1>2
<1>4. n \in Nat /\ s \in 0 .. (k - 1) /\ y = n * k + s
  BY <1>1, <1>3, DivSplit
<1> HIDE DEF n, s
<1>5. /\ (m + n) * k = m * k + n * k /\ m * k \in Nat /\ n * k \in Nat
      /\ (m + n) * k \in Nat
  BY <1>1, <1>2, <1>4
<1>6. c.cycleAccum + (a + b) = (m + n) * k + s
  BY <1>1, <1>2, <1>4, <1>5
<1>7. /\ (c.cycleAccum + (a + b)) \div k = m + n
      /\ (c.cycleAccum + (a + b)) % k = s
  <2> DEFINE z == c.cycleAccum + (a + b)
             q == m + n
  <2>1. /\ z \in Int /\ q \in Int /\ z = q * k + s
        /\ s \in Int /\ 0 <= s /\ s < k /\ k \in Nat \ {0}
    BY <1>1, <1>2, <1>4, <1>6
  <2> HIDE DEF z, q
  <2>2. z \div k = q /\ z % k = s
    BY <2>1, DivUnique
  <2> QED
    BY <2>2 DEF z, q
<1>8. m + n <= DecHalf
  <2>1. (DecHalf + 1) * k = DecHalf * k + k /\ DecHalf * k \in Nat
    BY <1>1
  <2>2. a + b <= DecHalf * k
    BY DEF k
  <2>3. c.cycleAccum + (a + b) < (DecHalf + 1) * k
    BY <1>1, <2>1, <2>2
  <2>4. c.cycleAccum + (a + b) \in Nat
    BY <1>1
  <2> QED
    BY <1>1, <1>7, <2>3, <2>4, DivBound
<1>9. Tick(c, a) = d /\ d \in Clock
  BY TickIsWhole, TickFacts DEF k, m, r
<1>10. d.cycleAccum = r
  BY DEF TickWhole
<1> HIDE DEF d
<1>11. Tick(d, b) = TickWhole(d, n, s)
  BY <1>9, <1>10, TickIsWhole DEF n, s, k
<1>12. Tick(c, a + b) = TickWhole(c, m + n, s)
  BY <1>7, TickIsWhole DEF k
<1>13. TickWhole(d, n, s) = TickWhole(c, m + n, s)
  BY <1>2, <1>4, <1>8, WholeCompose DEF d
<1> QED
  BY <1>9, <1>11, <1>12, <1>13
=============================================================================
