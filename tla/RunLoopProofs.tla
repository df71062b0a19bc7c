--------------------------- MODULE RunLoopProofs ----------------------------
(***************************************************************************)
(* Proofs about the batching run loop, for every value of the constants.   *)
(***************************************************************************)
EXTENDS RunLoop

\* A tick() short of the request raises none and leaves the rest of the room.
LEMMA TickShort ==
  ASSUME NEW c \in Clock, NEW n \in Nat, NEW m \in Nat, Short(c, n + m)
  PROVE  /\ Tick(c, n).decPending = c.decPending
         /\ Short(Tick(c, n), m)
<1>0. /\ c.cycleAccum + n + m < (c.dec + 1) * CyclesPerTbTick
      /\ c.cycleAccum + n < (c.dec + 1) * CyclesPerTbTick
  <2>1. (c.dec + 1) * CyclesPerTbTick \in Nat
    BY ClockFields
  <2> QED
    BY <2>1, ClockFields DEF Short
<1>1. CASE /\ c.cycleAccum + n < CyclesPerTbTick
           /\ Tick(c, n) = [c EXCEPT !.cycleAccum = c.cycleAccum + n]
  <2>1. /\ Tick(c, n).decPending = c.decPending
        /\ Tick(c, n).cycleAccum = c.cycleAccum + n
        /\ Tick(c, n).dec = c.dec
    BY <1>1 DEF Clock
  <2> QED
    BY <1>0, <2>1 DEF Short
<1>2. ASSUME NEW q \in Nat, NEW r \in 0 .. (CyclesPerTbTick - 1),
             Tick(c, n) = TickWhole(c, q, r),
             c.cycleAccum + n = q * CyclesPerTbTick + r,
             q = (c.cycleAccum + n) \div CyclesPerTbTick
      PROVE  /\ Tick(c, n).decPending = c.decPending
             /\ Short(Tick(c, n), m)
  <2>1. q <= c.dec
    <3>1. c.cycleAccum + n \in Nat
      BY ClockFields
    <3> QED
      BY <1>0, <1>2, <3>1, DivBound, ClockFields
  <2>2. (c.dec - q) % DecModulus = c.dec - q
    <3>1. c.dec - q \in Nat /\ c.dec - q < DecModulus
      BY <2>1, ClockFields
    <3> QED
      BY <3>1, ModSmall, ClockFields
  <2>3. /\ TickWhole(c, q, r).dec = c.dec - q
        /\ TickWhole(c, q, r).cycleAccum = r
    BY <2>2 DEF TickWhole
  <2>4. TickWhole(c, q, r).decPending = c.decPending
    <3>1. ~(q > c.dec)
      BY <2>1, ClockFields
    <3>2. TickWhole(c, q, r).decPending
            = (c.decPending \/ (~Negative(c.dec) /\ q > c.dec))
      BY DEF TickWhole
    <3> QED
      BY <3>1, <3>2, ClockFields
  <2>5. r + m < (c.dec - q + 1) * CyclesPerTbTick
    <3>1. q * CyclesPerTbTick + r + m < (c.dec + 1) * CyclesPerTbTick
      BY <1>0, <1>2, ClockFields
    <3>2. (c.dec - q + 1) * CyclesPerTbTick
            = (c.dec + 1) * CyclesPerTbTick - q * CyclesPerTbTick
      BY ClockFields
    <3>3. /\ q * CyclesPerTbTick \in Nat /\ r \in Nat
          /\ (c.dec + 1) * CyclesPerTbTick \in Nat
      BY ClockFields
    <3> QED
      BY <3>1, <3>2, <3>3
  <2> QED
    BY <1>2, <2>3, <2>4, <2>5 DEF Short
<1> QED
  BY <1>1, <1>2, TickCases

\* clockAdvanceCycles() and syncClock(), chunked or not, conserve cycles.
LEMMA SyncFacts ==
  ASSUME NEW c \in Clock, NEW n \in Nat
  PROVE  /\ ClockAdvanceCycles(c, n) \in Clock
         /\ SyncClock(c, n) \in Clock
         /\ ClockAdvanceCycles(c, n).tb * CyclesPerTbTick
              + ClockAdvanceCycles(c, n).cycleAccum
              = c.tb * CyclesPerTbTick + c.cycleAccum + n
         /\ SyncClock(c, n).tb * CyclesPerTbTick + SyncClock(c, n).cycleAccum
              = c.tb * CyclesPerTbTick + c.cycleAccum + n
<1> DEFINE A == ClockAdvanceCycles(c, n)
<1>1. /\ A \in Clock
      /\ A.tb * CyclesPerTbTick + A.cycleAccum
           = c.tb * CyclesPerTbTick + c.cycleAccum + n
  <2>1. CASE n <= MaxChunk
    BY <2>1, TickFacts DEF ClockAdvanceCycles
  <2>2. CASE ~(n <= MaxChunk)
    <3> DEFINE d == Tick(c, MaxChunk)
    <3>1. MaxChunk \in Nat /\ n - MaxChunk \in Nat
      BY <2>2, ClockConstants
    <3>2. /\ d \in Clock
          /\ d.tb * CyclesPerTbTick + d.cycleAccum
               = c.tb * CyclesPerTbTick + c.cycleAccum + MaxChunk
      BY <3>1, TickFacts
    <3> HIDE DEF d
    <3>3. /\ Tick(d, n - MaxChunk) \in Clock
          /\ Tick(d, n - MaxChunk).tb * CyclesPerTbTick
               + Tick(d, n - MaxChunk).cycleAccum
               = d.tb * CyclesPerTbTick + d.cycleAccum + (n - MaxChunk)
      BY <3>1, <3>2, TickFacts
    <3>4. A = Tick(d, n - MaxChunk)
      BY <2>2 DEF ClockAdvanceCycles, d
    <3>5. c.tb * CyclesPerTbTick \in Nat /\ c.cycleAccum \in Nat
      BY ClockFields
    <3> QED
      BY <3>1, <3>2, <3>3, <3>4, <3>5
  <2> QED
    BY <2>1, <2>2
<1>2. CASE n = 0
  <2>1. SyncClock(c, n) = c
    BY <1>2 DEF SyncClock
  <2> QED
    BY <1>1, <1>2, <2>1, ClockFields
<1>3. CASE n # 0
  BY <1>1, <1>3 DEF SyncClock
<1> QED
  BY <1>2, <1>3

\* syncClock() short of the request raises none and keeps the rest of the room.
LEMMA SyncShort ==
  ASSUME NEW c \in Clock, NEW n \in Nat, NEW m \in Nat, Short(c, n + m)
  PROVE  /\ SyncClock(c, n).decPending = c.decPending
         /\ Short(SyncClock(c, n), m)
<1>1. CASE n = 0
  <2>1. SyncClock(c, n) = c /\ n + m = m
    BY <1>1 DEF SyncClock
  <2> QED
    BY <2>1
<1>2. CASE n # 0 /\ n <= MaxChunk
  BY <1>2, TickShort DEF SyncClock, ClockAdvanceCycles
<1>3. CASE n # 0 /\ ~(n <= MaxChunk)
  <2> DEFINE d == Tick(c, MaxChunk)
             k == n - MaxChunk
  <2>1. MaxChunk \in Nat /\ k \in Nat /\ n + m = MaxChunk + (k + m)
    BY <1>3, ClockConstants
  <2>2. Short(c, MaxChunk + (k + m))
    BY <2>1
  <2>3. d \in Clock /\ d.decPending = c.decPending /\ Short(d, k + m)
    <3>1. k + m \in Nat
      BY <2>1
    <3> HIDE DEF k
    <3> QED
      BY <2>1, <2>2, <3>1, TickShort, TickFacts
  <2>4. SyncClock(c, n) = Tick(d, k)
    BY <1>3 DEF SyncClock, ClockAdvanceCycles
  <2> HIDE DEF d, k
  <2>5. Tick(d, k).decPending = d.decPending /\ Short(Tick(d, k), m)
    BY <2>1, <2>3, TickShort
  <2> QED
    BY <2>3, <2>4, <2>5
<1> QED
  BY <1>1, <1>2, <1>3

\* The arithmetic of one step, as facts about the constants.
LEMMA StepConstants ==
  /\ CyclesPerStep \in Nat \ {0} /\ ExtraCycles \in Nat
  /\ ExtraCycles <= CyclesPerStep
  /\ CyclesPerTbTick \in Nat \ {0} /\ DecHalf \in Nat \ {0}
  /\ Never \in Nat /\ MaxBudget \in Nat \ {0} /\ LineWords \in Nat \ {0}
BY ClockConstants, InsnConstants, LoopConstants DEF CyclesPerStep

\* Looking at the devices keeps the types of what it may change.
LEMMA ServiceTypes ==
  ASSUME NEW tb \in Nat, NEW t \in BOOLEAN, TypeOK, ServiceDevices(tb, t)
  PROVE  extIrqLine' \in BOOLEAN /\ due' \in Nat
<1>1. CASE t \/ tb >= due
  <2>1. \A a \in Ahead : tb + a \in Nat
    BY LoopConstants
  <2> QED
    BY <1>1, <2>1, StepConstants DEF ServiceDevices
<1>2. CASE ~(t \/ tb >= due)
  BY <1>2 DEF ServiceDevices, TypeOK
<1> QED
  BY <1>1, <1>2

\* One more step of the batch: its product with the cycles per step.
LEMMA OneStepLess ==
  ASSUME NEW n \in Nat, n > 1
  PROVE  /\ (n - 1) * CyclesPerStep = (n - 2) * CyclesPerStep + CyclesPerStep
         /\ (n - 2) * CyclesPerStep \in Nat
<1>1. n - 2 \in Nat /\ CyclesPerStep \in Nat
  BY StepConstants
<1> QED
  BY <1>1

\* The part of the invariant that the end of a step decides.
Stepped ==
  /\ clk' \in Clock /\ pendCycles' \in Nat
  /\ budget' \in Nat /\ budget' <= MaxBudget
  /\ left' \in 0 .. budget' /\ line' \in 0 .. (LineWords - 1)
  /\ extIrqLine' \in BOOLEAN /\ due' \in Nat
  /\ left' = 0 => pendCycles' = 0
  /\ BatchShort'

\* Retire: given a clock, what is owed on it, and (if the batch goes on) room
\* for the steps that remain, the invariant's part holds after the step and no
\* cycle is lost.
LEMMA RetireFacts ==
  ASSUME IInv, left > 0,
         NEW c \in Clock, NEW pend \in Nat,
         NEW brk \in BOOLEAN, NEW t \in BOOLEAN,
         NEW words \in 0 .. (LineWords - 1),
         Retire(c, pend, brk, t, words),
         ~brk /\ left > 1 => Short(c, pend + (left - 2) * CyclesPerStep)
  PROVE  /\ Stepped
         /\ clk'.tb * CyclesPerTbTick + clk'.cycleAccum + pendCycles'
              = c.tb * CyclesPerTbTick + c.cycleAccum + pend
<1>1. /\ budget \in Nat /\ left \in 0 .. budget /\ budget <= MaxBudget
      /\ budget' = budget - 1
  BY DEF IInv, TypeOK, Retire
<1>2. CASE brk \/ left = 1
  <2>1. /\ clk' = SyncClock(c, pend) /\ pendCycles' = 0
        /\ left' = 0 /\ line' = 0
        /\ ServiceDevices(clk'.tb, t)
    BY <1>2 DEF Retire
  <2>2. /\ clk' \in Clock
        /\ clk'.tb * CyclesPerTbTick + clk'.cycleAccum
             = c.tb * CyclesPerTbTick + c.cycleAccum + pend
    BY <2>1, SyncFacts
  <2>3. /\ clk'.tb \in Nat /\ clk'.cycleAccum \in Nat
        /\ clk'.tb * CyclesPerTbTick \in Nat
    BY <2>2, ClockFields
  <2>4. extIrqLine' \in BOOLEAN /\ due' \in Nat
    BY <2>1, <2>3, ServiceTypes DEF IInv
  <2>5. BatchShort'
    BY <2>1 DEF BatchShort
  <2>6. /\ budget' \in Nat /\ budget' <= MaxBudget /\ left' \in 0 .. budget'
        /\ line' \in 0 .. (LineWords - 1)
    BY <1>1, <2>1, StepConstants
  <2>7. clk'.tb * CyclesPerTbTick + clk'.cycleAccum + pendCycles'
          = c.tb * CyclesPerTbTick + c.cycleAccum + pend
    BY <2>1, <2>2, <2>3
  <2> QED
    BY <2>1, <2>2, <2>4, <2>5, <2>6, <2>7 DEF Stepped
<1>3. CASE ~(brk \/ left = 1)
  <2>1. /\ clk' = c /\ pendCycles' = pend
        /\ left' = left - 1 /\ line' = words
        /\ extIrqLine' = extIrqLine /\ due' = due
    BY <1>3 DEF Retire
  <2>2. left > 1 /\ left \in Nat
    BY <1>1, <1>3
  <2>3. BatchShort'
    <3>1. Short(c, pend + (left - 2) * CyclesPerStep)
      BY <1>3, <2>2
    <3>2. left' - 1 = left - 2
      BY <2>1, <2>2
    <3> QED
      BY <2>1, <3>1, <3>2 DEF BatchShort, Short
  <2>4. /\ budget' \in Nat /\ budget' <= MaxBudget /\ left' \in 0 .. budget'
    BY <1>1, <2>1, <2>2, StepConstants
  <2>5. extIrqLine' \in BOOLEAN /\ due' \in Nat
    BY <2>1 DEF IInv, TypeOK
  <2> QED
    BY <2>1, <2>2, <2>3, <2>4, <2>5 DEF Stepped
<1> QED
  BY <1>2, <1>3

\* Room for the steps that remain once this one has charged k cycles.
LEMMA RoomAfter ==
  ASSUME IInv, left > 1, NEW k \in Nat, k <= CyclesPerStep
  PROVE  Short(clk, pendCycles + (k + (left - 2) * CyclesPerStep))
<1>1. /\ left \in Nat /\ pendCycles \in Nat
      /\ clk \in Clock
  BY DEF IInv, TypeOK
<1>2. Short(clk, pendCycles + (left - 1) * CyclesPerStep)
  BY <1>1 DEF IInv, BatchShort
<1>3. /\ (left - 1) * CyclesPerStep = (left - 2) * CyclesPerStep + CyclesPerStep
      /\ (left - 2) * CyclesPerStep \in Nat
  BY <1>1, OneStepLess
<1>4. clk.cycleAccum \in Nat /\ (clk.dec + 1) * CyclesPerTbTick \in Nat
  BY <1>1, ClockFields
<1> QED
  BY <1>1, <1>2, <1>3, <1>4, StepConstants DEF Short

\* stepsUntilDec bounds a batch short of the request.
LEMMA StepsUntilDecShort ==
  ASSUME NEW c \in Clock, NEW n \in Nat, 1 <= n, n <= MaxBudget,
         n = 1 \/ n <= StepsUntilDec(c, CyclesPerStep)
  PROVE  Short(c, (n - 1) * CyclesPerStep)
<1> DEFINE T == (c.dec + 1) * CyclesPerTbTick
<1>1. /\ T \in Nat /\ CyclesPerTbTick <= T
      /\ c.cycleAccum \in Nat /\ c.cycleAccum < CyclesPerTbTick
      /\ CyclesPerStep \in Nat \ {0}
      /\ CyclesPerTbTick \in Nat
  <2>1. T = c.dec * CyclesPerTbTick + CyclesPerTbTick
    BY ClockFields
  <2>2. c.dec * CyclesPerTbTick \in Nat
    BY ClockFields
  <2> QED
    BY <2>1, <2>2, ClockFields, StepConstants
<1>2. (n - 1) * CyclesPerStep = n * CyclesPerStep - CyclesPerStep
      /\ n * CyclesPerStep \in Nat
  BY <1>1
<1>3. CASE n = 1
  <2>1. (n - 1) * CyclesPerStep = 0
    BY <1>1, <1>3
  <2> QED
    BY <1>1, <2>1 DEF Short
<1>4. CASE n # 1 /\ Negative(c.dec)
  <2>1. n * CyclesPerStep <= MaxBudget * CyclesPerStep
    BY <1>1, StepConstants
  <2>2. DecHalf * CyclesPerTbTick <= c.dec * CyclesPerTbTick
    BY <1>1, <1>4, ClockFields, StepConstants DEF Negative
  <2>3. T = c.dec * CyclesPerTbTick + CyclesPerTbTick
    BY ClockFields
  <2>4. /\ MaxBudget * CyclesPerStep \in Nat /\ DecHalf * CyclesPerTbTick \in Nat
        /\ c.dec * CyclesPerTbTick \in Nat
    BY <1>1, ClockFields, StepConstants
  <2>5. MaxBudget * CyclesPerStep <= DecHalf * CyclesPerTbTick
    BY BatchFitsDecrementer
  <2> HIDE DEF T
  <2>6. c.cycleAccum + (n - 1) * CyclesPerStep < T
    BY <1>1, <1>2, <2>1, <2>2, <2>3, <2>4, <2>5
  <2> QED
    BY <2>6 DEF Short, T
<1>5. CASE n # 1 /\ ~Negative(c.dec)
  <2> DEFINE X == T - c.cycleAccum
             Y == X + CyclesPerStep - 1
             q == Y \div CyclesPerStep
             r == Y % CyclesPerStep
  <2>1. X \in Nat /\ Y \in Nat
    BY <1>1
  <2>2. q \in Nat /\ r \in 0 .. (CyclesPerStep - 1) /\ Y = q * CyclesPerStep + r
    BY <1>1, <2>1, DivSplit
  <2>3. StepsUntilDec(c, CyclesPerStep) = q
    BY <1>1, <1>5 DEF StepsUntilDec, CeilDiv
  <2>4. n <= q
    BY <1>5, <2>3
  <2> HIDE DEF X, Y, q, r
  <2>5. n * CyclesPerStep <= q * CyclesPerStep
    BY <1>1, <2>2, <2>4
  <2>6. q * CyclesPerStep \in Nat
    BY <1>1, <2>2
  <2> HIDE DEF T
  <2>7. Y = T - c.cycleAccum + CyclesPerStep - 1
    BY DEF X, Y
  <2>8. c.cycleAccum + (n - 1) * CyclesPerStep < T
    BY <1>1, <1>2, <2>1, <2>2, <2>5, <2>6, <2>7
  <2> QED
    BY <2>8 DEF Short, T
<1> QED
  BY <1>3, <1>4, <1>5

\* stepsUntilDec is a count of steps.
LEMMA StepsUntilDecNat ==
  ASSUME NEW c \in Clock
  PROVE  StepsUntilDec(c, CyclesPerStep) \in Nat
<1> DEFINE Z == (c.dec + 1) * CyclesPerTbTick - c.cycleAccum
                  + CyclesPerStep - 1
<1>1. CASE Negative(c.dec)
  BY <1>1, StepConstants DEF StepsUntilDec
<1>2. CASE ~Negative(c.dec)
  <2>1. /\ (c.dec + 1) * CyclesPerTbTick
             = c.dec * CyclesPerTbTick + CyclesPerTbTick
        /\ c.dec * CyclesPerTbTick \in Nat
    BY ClockFields
  <2>2. Z \in Nat
    BY <2>1, ClockFields, StepConstants
  <2>3. StepsUntilDec(c, CyclesPerStep) = Z \div CyclesPerStep
    BY <1>2, StepConstants DEF StepsUntilDec, CeilDiv
  <2> HIDE DEF Z
  <2> QED
    BY <2>2, <2>3, StepConstants, DivSplit
<1> QED
  BY <1>1, <1>2

\* batchSteps stays within its budget and within stepsUntilDec.
LEMMA BatchStepsFacts ==
  ASSUME IInv, budget > 0
  PROVE  /\ BatchSteps \in 1 .. budget
         /\ BatchSteps = 1 \/ BatchSteps <= StepsUntilDec(clk, CyclesPerStep)
<1> DEFINE D == StepsUntilDec(clk, CyclesPerStep)
           V == StepsUntilDevice
<1>1. budget \in Nat /\ clk \in Clock /\ due \in Nat
  BY DEF IInv, TypeOK
<1>2. D \in Nat
  BY <1>1, StepsUntilDecNat
<1>3. CASE budget < 2
  BY <1>1, <1>3 DEF BatchSteps
<1>4. CASE budget >= 2 /\ due <= clk.tb
  <2>1. BatchSteps = 1
    BY <1>1, <1>4, ClockFields DEF BatchSteps
  <2> QED
    BY <1>1, <2>1
<1>5. CASE budget >= 2 /\ ~(due <= clk.tb)
  <2>1. V \in Nat
    <3>1. (due - clk.tb) * CyclesPerTbTick \in Nat
      BY <1>1, <1>5, ClockFields
    <3> QED
      BY <3>1, StepConstants, DivSplit DEF StepsUntilDevice
  <2> DEFINE n == Smaller(Smaller(budget, D), V)
  <2>2. BatchSteps = IF n = 0 THEN 1 ELSE n
    BY <1>1, <1>5, ClockFields DEF BatchSteps
  <2>3. n \in Nat /\ n <= budget /\ n <= D
    <3> HIDE DEF D, V
    <3> QED
      BY <1>1, <1>2, <2>1 DEF Smaller
  <2> HIDE DEF n, D, V
  <2> QED
    BY <1>1, <2>2, <2>3 DEF D
<1> QED
  BY <1>1, <1>3, <1>4, <1>5

\* The initial state satisfies the inductive invariant.
LEMMA InitIInv == Init => IInv
<1> SUFFICES ASSUME Init PROVE IInv
  OBVIOUS
<1>1. clk \in Clock
  <2>1. /\ DecModulus - 1 \in 0 .. (DecModulus - 1)
        /\ 0 \in 0 .. (CyclesPerTbTick - 1)
    BY ClockConstants DEF DecModulus
  <2> QED
    BY <2>1 DEF Init, Clock
<1>2. TypeOK
  <2>1. 0 \in 0 .. (LineWords - 1) /\ 0 \in 0 .. 0 /\ 0 \in Nat
    BY StepConstants
  <2>2. /\ pendCycles \in Nat /\ due \in Nat /\ seen \in Reading
        /\ budget \in Nat /\ left \in 0 .. budget
        /\ line \in 0 .. (LineWords - 1) /\ late \in Nat /\ total \in Nat
    BY <2>1 DEF Init, Reading
  <2>3. /\ napping \in BOOLEAN /\ ee \in BOOLEAN /\ extIrqLine \in BOOLEAN
        /\ pmPending \in BOOLEAN /\ halted \in BOOLEAN
    BY DEF Init
  <2> QED
    BY <1>1, <2>2, <2>3 DEF TypeOK
<1>3. ClockConservation
  BY ClockConstants DEF Init, ClockConservation
<1> QED
  BY <1>2, <1>3, LoopConstants DEF IInv, Init, BatchShort

\* The invariant after a step that ends in Retire, from its parts.
LEMMA Assemble ==
  ASSUME Stepped,
         napping' \in BOOLEAN, ee' \in BOOLEAN, pmPending' \in BOOLEAN,
         halted' \in BOOLEAN, seen' \in Reading, late' \in Nat, total' \in Nat,
         ClockConservation'
  PROVE  IInv'
BY DEF Stepped, IInv, TypeOK

\* What an instruction does to the clock keeps it well formed.
LEMMA ClockAfterFacts ==
  ASSUME NEW i \in Insns, NEW c \in Clock
  PROVE  /\ ClockAfter(i, c) \in Clock
         /\ ClockAfter(i, c).cycleAccum = c.cycleAccum
         /\ ~Breaks(i) => ClockAfter(i, c) = c
         /\ i.kind # "mttb" => ClockAfter(i, c).tb = c.tb
         /\ i.kind = "mttb" => i.v \in Nat /\ ClockAfter(i, c).tb = i.v
<1>1. CASE i.kind = "mtdec"
  <2>1. i.v \in 0 .. (DecModulus - 1)
    BY <1>1, InsnConstants
  <2>2. ClockAfter(i, c) = WriteDec(c, i.v)
    BY <1>1 DEF ClockAfter
  <2>3. (c.decPending \/ (~Negative(c.dec) /\ Negative(i.v))) \in BOOLEAN
    OBVIOUS
  <2> QED
    BY <1>1, <2>1, <2>2, <2>3 DEF WriteDec, Clock, Breaks
<1>2. CASE i.kind = "mttb"
  <2>1. i.v \in Nat
    BY <1>2, InsnConstants
  <2>2. ClockAfter(i, c) = WriteTb(c, i.v)
    BY <1>2 DEF ClockAfter
  <2> QED
    BY <1>2, <2>1, <2>2 DEF WriteTb, Clock, Breaks
<1>3. CASE i.kind # "mtdec" /\ i.kind # "mttb"
  BY <1>3 DEF ClockAfter
<1> QED
  BY <1>1, <1>2, <1>3

\* One instruction, on whichever path, keeps the invariant.
LEMMA ExecRowIInv ==
  ASSUME IInv, left > 0, NEW i \in Insns,
         NEW words \in 0 .. (LineWords - 1), ExecRow(i, words)
  PROVE  IInv'
<1> DEFINE c == IF Syncs(i) THEN SyncClock(clk, pendCycles) ELSE clk
           p == IF Syncs(i) THEN 0 ELSE pendCycles
           now == IF Syncs(i) THEN c.tb ELSE TbNow(clk, pendCycles)
           k == CostOf(i)
           w == IF LeavesLine(i) THEN 0 ELSE words
           d == ClockAfter(i, c)
<1>1. /\ clk \in Clock /\ pendCycles \in Nat /\ left \in Nat
      /\ clk.tb * CyclesPerTbTick + clk.cycleAccum + pendCycles = total
      /\ total \in Nat /\ seen \in Reading /\ late \in Nat
      /\ pmPending \in BOOLEAN /\ ee \in BOOLEAN
  BY DEF IInv, TypeOK, ClockConservation
<1>2. k \in Nat /\ k <= CyclesPerStep
  BY StepConstants DEF CostOf
<1>3. /\ c \in Clock /\ p \in Nat
      /\ c.tb * CyclesPerTbTick + c.cycleAccum + p = total
  <2>1. CASE Syncs(i)
    <3>1. /\ c = SyncClock(clk, pendCycles) /\ p = 0
      BY <2>1
    <3>2. /\ c \in Clock
          /\ c.tb * CyclesPerTbTick + c.cycleAccum = total
      BY <1>1, <3>1, SyncFacts
    <3> QED
      BY <1>1, <3>1, <3>2
  <2>2. CASE ~Syncs(i)
    BY <1>1, <2>2
  <2> QED
    BY <2>1, <2>2
<1>4. w \in 0 .. (LineWords - 1)
  BY StepConstants
<1>5. left > 1 => Short(c, p + (k + (left - 2) * CyclesPerStep))
  <2> SUFFICES ASSUME left > 1
               PROVE  Short(c, p + (k + (left - 2) * CyclesPerStep))
    OBVIOUS
  <2> DEFINE m == k + (left - 2) * CyclesPerStep
  <2>1. m \in Nat
    BY <1>1, <1>2, OneStepLess
  <2>2. Short(clk, pendCycles + m)
    BY <1>2, RoomAfter
  <2> HIDE DEF m, k
  <2>3. CASE Syncs(i)
    <3>1. Short(SyncClock(clk, pendCycles), m)
      BY <1>1, <2>1, <2>2, SyncShort
    <3>2. 0 + m = m
      BY <2>1
    <3> QED
      BY <2>3, <3>1, <3>2 DEF m
  <2>4. CASE ~Syncs(i)
    BY <2>2, <2>4 DEF m
  <2> QED
    BY <2>3, <2>4
<1>6. /\ Retire(d, p + k, Breaks(i), TouchesDevice(i), w)
      /\ ee' = EeAfter(i, ee) /\ napping' = NapAfter(i)
      /\ pmPending' = PmAfter(i, pmPending)
      /\ seen' = SeenAfter(i, now, seen)
      /\ halted' = (i.kind = "halt")
      /\ late' = IF Waiting(clk) THEN late + 1 ELSE 0
      /\ total' = k + IF i.kind = "mttb"
                      THEN i.v * CyclesPerTbTick + c.cycleAccum
                      ELSE total
  BY DEF ExecRow
<1>7. now \in Nat
  <2>1. c.tb \in Nat
    BY <1>3, ClockFields
  <2>2. clk.cycleAccum + pendCycles \in Nat /\ clk.tb \in Nat
    BY <1>1, ClockFields
  <2>3. TbNow(clk, pendCycles) \in Nat
    BY <2>2, DivSplit, StepConstants DEF TbNow
  <2> HIDE DEF c
  <2> QED
    BY <2>1, <2>3
<1> HIDE DEF c, p, k, w, now
<1>8. /\ d \in Clock /\ d.cycleAccum = c.cycleAccum
      /\ ~Breaks(i) => d = c
      /\ i.kind # "mttb" => d.tb = c.tb
      /\ i.kind = "mttb" => i.v \in Nat /\ d.tb = i.v
  BY <1>3, ClockAfterFacts
<1> HIDE DEF d
<1>9. /\ Breaks(i) \in BOOLEAN /\ TouchesDevice(i) \in BOOLEAN
  BY DEF Breaks, TouchesDevice
<1>10. ~Breaks(i) /\ left > 1
         => Short(d, (p + k) + (left - 2) * CyclesPerStep)
  <2> SUFFICES ASSUME ~Breaks(i), left > 1
               PROVE  Short(d, (p + k) + (left - 2) * CyclesPerStep)
    OBVIOUS
  <2>1. (left - 2) * CyclesPerStep \in Nat
    BY <1>1, OneStepLess
  <2>2. (p + k) + (left - 2) * CyclesPerStep
          = p + (k + (left - 2) * CyclesPerStep)
    BY <1>2, <1>3, <2>1
  <2> QED
    BY <1>5, <1>8, <2>2
<1>11. p + k \in Nat
  BY <1>2, <1>3
<1>12. /\ Stepped
       /\ clk'.tb * CyclesPerTbTick + clk'.cycleAccum + pendCycles'
            = d.tb * CyclesPerTbTick + d.cycleAccum + (p + k)
  BY <1>4, <1>6, <1>8, <1>9, <1>10, <1>11, RetireFacts
<1>13. /\ total' \in Nat
       /\ d.tb * CyclesPerTbTick + d.cycleAccum + (p + k) = total'
  <2>1. /\ c.cycleAccum \in Nat /\ c.tb * CyclesPerTbTick \in Nat
    BY <1>3, ClockFields
  <2>2. CASE i.kind # "mttb"
    <3>1. total' = k + total /\ d.tb = c.tb
      BY <1>6, <1>8, <2>2
    <3> QED
      BY <1>1, <1>2, <1>3, <1>8, <2>1, <3>1
  <2>3. CASE i.kind = "mttb"
    <3>1. /\ total' = k + (i.v * CyclesPerTbTick + c.cycleAccum)
          /\ d.tb = i.v /\ i.v \in Nat
      BY <1>6, <1>8, <2>3
    <3>2. i.v * CyclesPerTbTick \in Nat
      BY <3>1, StepConstants
    <3>3. p = 0
      BY <2>3 DEF p, Syncs
    <3> QED
      BY <1>2, <1>8, <2>1, <3>1, <3>2, <3>3
  <2> QED
    BY <2>2, <2>3
<1>14. ClockConservation'
  BY <1>12, <1>13 DEF ClockConservation
<1>15. /\ napping' \in BOOLEAN /\ ee' \in BOOLEAN /\ pmPending' \in BOOLEAN
       /\ halted' \in BOOLEAN
  <2>1. EeAfter(i, ee) \in BOOLEAN
    BY <1>1 DEF EeAfter
  <2>2. /\ NapAfter(i) \in BOOLEAN /\ PmAfter(i, pmPending) \in BOOLEAN
        /\ (i.kind = "halt") \in BOOLEAN
    BY DEF NapAfter, PmAfter
  <2> QED
    BY <1>6, <2>1, <2>2
<1>16. seen' \in Reading /\ late' \in Nat
  <2>1. SeenAfter(i, now, seen) \in Reading
    BY <1>1, <1>7 DEF SeenAfter, Reading
  <2> QED
    BY <1>1, <1>6, <2>1
<1> QED
  BY <1>12, <1>13, <1>14, <1>15, <1>16, Assemble

\* Taking an interrupt keeps the invariant.
LEMMA TakeInterruptIInv ==
  ASSUME IInv, TakeInterrupt
  PROVE  IInv'
<1> DEFINE c == IF extIrqLine THEN clk ELSE [clk EXCEPT !.decPending = FALSE]
           q == pendCycles + ExtraCycles
<1>1. /\ clk \in Clock /\ pendCycles \in Nat /\ left \in Nat /\ left > 0
      /\ total \in Nat /\ seen \in Reading
      /\ clk.tb * CyclesPerTbTick + clk.cycleAccum + pendCycles = total
      /\ halted \in BOOLEAN
  BY DEF IInv, TypeOK, ClockConservation, TakeInterrupt
<1>2. /\ Retire(c, q, FALSE, FALSE, 0)
      /\ napping' = FALSE /\ ee' = FALSE
      /\ pmPending' = (pmPending /\ (extIrqLine \/ clk.decPending))
      /\ late' = 0 /\ total' = total + ExtraCycles
      /\ seen' = seen /\ halted' = halted
  BY DEF TakeInterrupt
<1>3. /\ c \in Clock /\ c.tb = clk.tb /\ c.cycleAccum = clk.cycleAccum
      /\ c.dec = clk.dec
  BY <1>1 DEF Clock
<1> HIDE DEF c
<1>4. left > 1 => Short(c, q + (left - 2) * CyclesPerStep)
  <2> SUFFICES ASSUME left > 1
               PROVE  Short(c, q + (left - 2) * CyclesPerStep)
    OBVIOUS
  <2>1. Short(clk, pendCycles + (ExtraCycles + (left - 2) * CyclesPerStep))
    BY RoomAfter, StepConstants
  <2>2. (left - 2) * CyclesPerStep \in Nat
    BY <1>1, OneStepLess
  <2>3. q + (left - 2) * CyclesPerStep
          = pendCycles + (ExtraCycles + (left - 2) * CyclesPerStep)
    BY <1>1, <2>2, StepConstants
  <2> QED
    BY <1>3, <2>1, <2>3 DEF Short
<1>5. q \in Nat /\ 0 \in 0 .. (LineWords - 1)
  BY <1>1, StepConstants
<1>6. /\ Stepped
      /\ clk'.tb * CyclesPerTbTick + clk'.cycleAccum + pendCycles'
           = c.tb * CyclesPerTbTick + c.cycleAccum + q
  <2> HIDE DEF q
  <2> QED
    BY <1>1, <1>2, <1>3, <1>4, <1>5, RetireFacts
<1>7. clk.tb * CyclesPerTbTick \in Nat /\ clk.cycleAccum \in Nat
  BY <1>1, ClockFields
<1>8. total' \in Nat /\ ClockConservation'
  BY <1>1, <1>2, <1>3, <1>6, <1>7, StepConstants DEF ClockConservation
<1>9. (pmPending /\ (extIrqLine \/ clk.decPending)) \in BOOLEAN
  OBVIOUS
<1> QED
  BY <1>1, <1>2, <1>6, <1>8, <1>9, Assemble

\* A sleeping step keeps the invariant.
LEMMA NapStepIInv ==
  ASSUME IInv, NapStep
  PROVE  IInv'
<1> DEFINE q == pendCycles + CyclesPerStep
<1>1. /\ clk \in Clock /\ pendCycles \in Nat /\ left \in Nat /\ left > 0
      /\ total \in Nat /\ seen \in Reading /\ late \in Nat
      /\ clk.tb * CyclesPerTbTick + clk.cycleAccum + pendCycles = total
      /\ napping \in BOOLEAN /\ ee \in BOOLEAN /\ pmPending \in BOOLEAN
      /\ halted \in BOOLEAN
  BY DEF IInv, TypeOK, ClockConservation, NapStep
<1>2. /\ Retire(clk, q, FALSE, FALSE, 0)
      /\ total' = total + CyclesPerStep
      /\ napping' = napping /\ ee' = ee /\ pmPending' = pmPending
      /\ late' = late /\ seen' = seen /\ halted' = halted
  BY DEF NapStep
<1>3. left > 1 => Short(clk, q + (left - 2) * CyclesPerStep)
  <2> SUFFICES ASSUME left > 1
               PROVE  Short(clk, q + (left - 2) * CyclesPerStep)
    OBVIOUS
  <2>1. Short(clk, pendCycles + (CyclesPerStep + (left - 2) * CyclesPerStep))
    BY RoomAfter, StepConstants
  <2>2. (left - 2) * CyclesPerStep \in Nat
    BY <1>1, OneStepLess
  <2>3. q + (left - 2) * CyclesPerStep
          = pendCycles + (CyclesPerStep + (left - 2) * CyclesPerStep)
    BY <1>1, <2>2, StepConstants
  <2> QED
    BY <2>1, <2>3
<1>4. q \in Nat /\ 0 \in 0 .. (LineWords - 1)
  BY <1>1, StepConstants
<1>5. /\ Stepped
      /\ clk'.tb * CyclesPerTbTick + clk'.cycleAccum + pendCycles'
           = clk.tb * CyclesPerTbTick + clk.cycleAccum + q
  <2> HIDE DEF q
  <2> QED
    BY <1>1, <1>2, <1>3, <1>4, RetireFacts
<1>6. clk.tb * CyclesPerTbTick \in Nat /\ clk.cycleAccum \in Nat
  BY <1>1, ClockFields
<1>7. total' \in Nat /\ ClockConservation'
  BY <1>1, <1>2, <1>5, <1>6, StepConstants DEF ClockConservation
<1> QED
  BY <1>1, <1>2, <1>5, <1>7, Assemble

\* Charging a run of sleeping steps at once keeps the invariant.
LEMMA NapSkipIInv ==
  ASSUME IInv, NapSkip
  PROVE  IInv'
<1> DEFINE n == NapSkipSteps
<1>1. /\ clk \in Clock /\ pendCycles = 0 /\ left = 0 /\ budget \in Nat
      /\ budget <= MaxBudget
      /\ total \in Nat /\ due \in Nat
      /\ clk.tb * CyclesPerTbTick + clk.cycleAccum = total
  <2>1. clk.tb * CyclesPerTbTick + clk.cycleAccum + pendCycles = total
    BY DEF IInv, ClockConservation
  <2>2. clk \in Clock /\ pendCycles = 0 /\ left = 0
    BY DEF IInv, TypeOK, NapSkip
  <2>3. clk.tb * CyclesPerTbTick \in Nat /\ clk.cycleAccum \in Nat
    BY <2>2, ClockFields
  <2> QED
    BY <2>1, <2>2, <2>3 DEF IInv, TypeOK
<1>2. /\ clk' = ClockAdvanceCycles(clk, n * CyclesPerStep)
      /\ budget' = budget - n /\ n > 0
      /\ ServiceDevices(clk'.tb, FALSE)
      /\ total' = total + n * CyclesPerStep
      /\ UNCHANGED <<pendCycles, napping, ee, pmPending, seen, halted, left,
                     line, late>>
  BY DEF NapSkip
<1>3. n \in Nat /\ n <= budget
  <2> DEFINE D == StepsUntilDec(clk, CyclesPerStep)
             V == StepsUntilDevice
             s == Smaller(Smaller(budget, D), V)
  <2>1. /\ n = s /\ ~(due <= clk.tb)
        /\ ~(s < 2)
    BY <1>2 DEF NapSkipSteps
  <2>2. V \in Nat
    <3>1. (due - clk.tb) * CyclesPerTbTick \in Nat
      BY <1>1, <2>1, ClockFields
    <3> QED
      BY <3>1, StepConstants, DivSplit DEF StepsUntilDevice
  <2>3. D \in Nat
    BY <1>1, StepsUntilDecNat
  <2> HIDE DEF D, V, n
  <2> QED
    BY <1>1, <2>1, <2>2, <2>3 DEF Smaller
<1> HIDE DEF n
<1>4. n * CyclesPerStep \in Nat
  BY <1>3, StepConstants
<1>5. /\ clk' \in Clock
      /\ clk'.tb * CyclesPerTbTick + clk'.cycleAccum
           = clk.tb * CyclesPerTbTick + clk.cycleAccum + n * CyclesPerStep
  BY <1>1, <1>2, <1>4, SyncFacts
<1>6. /\ clk'.tb \in Nat /\ clk'.cycleAccum \in Nat
      /\ clk'.tb * CyclesPerTbTick \in Nat
  BY <1>5, ClockFields
<1>7. extIrqLine' \in BOOLEAN /\ due' \in Nat
  BY <1>2, <1>6, ServiceTypes DEF IInv
<1>8. total' \in Nat /\ ClockConservation'
  BY <1>1, <1>2, <1>4, <1>5, <1>6 DEF ClockConservation
<1>9. /\ budget' \in Nat /\ budget' <= MaxBudget /\ left' \in 0 .. budget'
  BY <1>1, <1>2, <1>3, StepConstants
<1>10. BatchShort' /\ pendCycles' = 0
  BY <1>1, <1>2 DEF BatchShort
<1> QED
  BY <1>2, <1>5, <1>7, <1>8, <1>9, <1>10 DEF IInv, TypeOK

\* Entering a batch keeps the invariant: this is where stepsUntilDec matters.
LEMMA StartBatchIInv ==
  ASSUME IInv, StartBatch
  PROVE  IInv'
<1>1. /\ budget \in Nat /\ budget > 0 /\ budget <= MaxBudget /\ clk \in Clock
      /\ left' = BatchSteps /\ pendCycles = 0
      /\ UNCHANGED <<clk, pendCycles, napping, ee, extIrqLine, pmPending, due,
                     seen, halted, budget, line, late, total>>
  BY DEF IInv, TypeOK, StartBatch
<1>2. /\ BatchSteps \in 1 .. budget
      /\ BatchSteps = 1 \/ BatchSteps <= StepsUntilDec(clk, CyclesPerStep)
  BY <1>1, BatchStepsFacts
<1>3. BatchSteps \in Nat /\ 1 <= BatchSteps /\ BatchSteps <= MaxBudget
  BY <1>1, <1>2, StepConstants
<1>4. Short(clk, (BatchSteps - 1) * CyclesPerStep)
  BY <1>1, <1>2, <1>3, StepsUntilDecShort
<1>5. BatchShort'
  <2>1. (BatchSteps - 1) * CyclesPerStep \in Nat
    BY <1>3, StepConstants
  <2>2. pendCycles' + (left' - 1) * CyclesPerStep
          = (BatchSteps - 1) * CyclesPerStep
    BY <1>1, <2>1
  <2> QED
    BY <1>1, <1>4, <2>2 DEF BatchShort, Short
<1>6. left' \in 0 .. budget'
  BY <1>1, <1>2, <1>3
<1> QED
  BY <1>1, <1>5, <1>6 DEF IInv, TypeOK, ClockConservation

\* A new opm_run call keeps the invariant.
LEMMA OpmRunIInv ==
  ASSUME IInv, OpmRun
  PROVE  IInv'
<1>1. /\ budget = 0 /\ left \in 0 .. budget /\ budget' \in 1 .. MaxBudget
      /\ UNCHANGED <<clk, pendCycles, napping, ee, extIrqLine, pmPending, due,
                     seen, halted, left, line, late, total>>
  BY DEF IInv, TypeOK, OpmRun
<1>2. /\ left = 0 /\ left' = 0 /\ budget' \in Nat /\ budget' <= MaxBudget
      /\ left' \in 0 .. budget'
  BY <1>1, StepConstants
<1> QED
  BY <1>1, <1>2 DEF IInv, TypeOK, ClockConservation, BatchShort

\* Every step of the run loop keeps the inductive invariant.
LEMMA NextIInv == IInv /\ [Next]_vars => IInv'
<1> SUFFICES ASSUME IInv, [Next]_vars PROVE IInv'
  OBVIOUS
<1>1. CASE OpmRun
  BY <1>1, OpmRunIInv
<1>2. CASE NapSkip
  BY <1>2, NapSkipIInv
<1>3. CASE StartBatch
  BY <1>3, StartBatchIInv
<1>4. CASE TakeInterrupt
  BY <1>4, TakeInterruptIInv
<1>5. CASE NapStep
  BY <1>5, NapStepIInv
<1>6. ASSUME NEW i \in Insns, SlowStep(i) PROVE IInv'
  <2>1. 0 \in 0 .. (LineWords - 1)
    BY StepConstants
  <2> QED
    BY <1>6, <2>1, ExecRowIInv DEF SlowStep
<1>7. ASSUME NEW i \in Insns, EnterLine(i) PROVE IInv'
  BY <1>7, ExecRowIInv DEF EnterLine
<1>8. ASSUME NEW i \in Insns, LineStep(i) PROVE IInv'
  <2>1. line - 1 \in 0 .. (LineWords - 1)
    BY <1>8, StepConstants DEF LineStep, IInv, TypeOK
  <2> QED
    BY <1>8, <2>1, ExecRowIInv DEF LineStep
<1>9. CASE UNCHANGED vars
  BY <1>9 DEF vars, IInv, TypeOK, ClockConservation, BatchShort, Short
<1> QED
  BY <1>1, <1>2, <1>3, <1>4, <1>5, <1>6, <1>7, <1>8, <1>9 DEF Next

\* The run loop never leaves its types: in particular a batch never runs past
\* the instructions opm_run was asked for.
THEOREM TypeSafe == Spec => []TypeOK
<1>1. IInv => TypeOK
  BY DEF IInv
<1> QED
  BY <1>1, InitIInv, NextIInv, PTL DEF Spec

\* Charging, syncClock, the end of a batch and the nap skip together neither
\* lose nor duplicate a cycle (Cpu::charge, Cpu::syncClock, napSkip).
THEOREM CyclesConserved == Spec => []ClockConservation
<1>1. IInv => ClockConservation
  BY DEF IInv
<1> QED
  BY <1>1, InitIInv, NextIInv, PTL DEF Spec

\* The invariant implies that no batch has passed the decrementer's deadline.
LEMMA IInvNoMissed == IInv => NoMissedDecrementer
<1> SUFFICES ASSUME IInv, left > 0
             PROVE  SyncClock(clk, pendCycles).decPending = clk.decPending
  BY DEF NoMissedDecrementer
<1> DEFINE m == (left - 1) * CyclesPerStep
<1>1. clk \in Clock /\ pendCycles \in Nat /\ left \in Nat
  BY DEF IInv, TypeOK
<1>2. m \in Nat
  BY <1>1, StepConstants
<1>3. Short(clk, pendCycles + m)
  BY DEF IInv, BatchShort
<1> HIDE DEF m
<1> QED
  BY <1>1, <1>2, <1>3, SyncShort

\* A batch sized by stepsUntilDec never hides a decrementer request from the
\* instructions it still has to run (contract part 2 on Cpu::pendCycles).
THEOREM DecrementerNeverMissed == Spec => []NoMissedDecrementer
<1> QED
  BY InitIInv, NextIInv, IInvNoMissed, PTL DEF Spec
-----------------------------------------------------------------------------
(* The device deadline and the line: the loop's stronger invariant.        *)

\* Room before the device deadline for the rest of the batch: all of it fits
\* before the tick after the deadline.  A batch of one owes no room.
DeviceRoom ==
  left > 0 =>
    \/ left = 1 /\ pendCycles = 0
    \/ total + left * CyclesPerStep < (due + 1) * CyclesPerTbTick

\* A batch in progress runs on a live processor and cannot outgrow the budget.
BatchAlive ==
  left > 0 => /\ ~halted
              /\ pendCycles + left * CyclesPerStep <= MaxBudget * CyclesPerStep

\* The line executor never runs a sleeping core's instructions.
LineAwake == line > 0 => left > 0 /\ ~napping

\* Every word run late came from the line: what is left of it is the less.
LateInLine == late + line < LineWords

\* The inductive invariant behind the device deadline, the line and the
\* refinement of StepLoop.
LoopInv == IInv /\ DeviceRoom /\ BatchAlive /\ LineAwake /\ LateInLine

\* Steps within the device bound end before the tick after the deadline.
LEMMA DeviceBound ==
  ASSUME IInv, pendCycles = 0, due > clk.tb, NEW n \in Nat,
         n <= StepsUntilDevice
  PROVE  total + n * CyclesPerStep < (due + 1) * CyclesPerTbTick
<1> DEFINE X == (due - clk.tb) * CyclesPerTbTick
           q == X \div CyclesPerStep
           r == X % CyclesPerStep
<1>1. /\ clk.tb \in Nat /\ clk.cycleAccum \in Nat /\ due \in Nat
      /\ clk.cycleAccum < CyclesPerTbTick /\ CyclesPerTbTick \in Nat \ {0}
      /\ CyclesPerStep \in Nat \ {0} /\ total \in Nat
  BY ClockFields, StepConstants DEF IInv, TypeOK
<1>2. X \in Nat
  BY <1>1
<1>3. q \in Nat /\ r \in 0 .. (CyclesPerStep - 1) /\ X = q * CyclesPerStep + r
  BY <1>1, <1>2, DivSplit
<1>4. n <= q
  BY DEF StepsUntilDevice
<1>5. X = due * CyclesPerTbTick - clk.tb * CyclesPerTbTick
  BY <1>1
<1>6. /\ (due + 1) * CyclesPerTbTick = due * CyclesPerTbTick + CyclesPerTbTick
      /\ due * CyclesPerTbTick \in Nat /\ clk.tb * CyclesPerTbTick \in Nat
  BY <1>1
<1> HIDE DEF X, q, r
<1>7. /\ n * CyclesPerStep <= q * CyclesPerStep
      /\ n * CyclesPerStep \in Nat /\ q * CyclesPerStep \in Nat
  BY <1>1, <1>3, <1>4
<1>8. total = clk.tb * CyclesPerTbTick + clk.cycleAccum
  BY <1>1, <1>6 DEF IInv, ClockConservation
<1> QED
  BY <1>1, <1>2, <1>3, <1>5, <1>6, <1>7, <1>8

\* batchSteps stays within the device bound unless it is a single step.
LEMMA BatchStepsDevice ==
  ASSUME IInv, budget > 0
  PROVE  \/ BatchSteps = 1
         \/ due > clk.tb /\ BatchSteps <= StepsUntilDevice
<1> DEFINE D == StepsUntilDec(clk, CyclesPerStep)
           V == StepsUntilDevice
           n == Smaller(Smaller(budget, D), V)
<1>1. budget \in Nat /\ clk \in Clock /\ due \in Nat /\ clk.tb \in Nat
  BY ClockFields DEF IInv, TypeOK
<1>2. CASE budget < 2
  BY <1>1, <1>2 DEF BatchSteps
<1>3. CASE budget >= 2 /\ due <= clk.tb
  BY <1>1, <1>3 DEF BatchSteps
<1>4. CASE budget >= 2 /\ due > clk.tb
  <2>1. BatchSteps = IF n = 0 THEN 1 ELSE n
    BY <1>1, <1>4 DEF BatchSteps
  <2>2. D \in Nat
    BY <1>1, StepsUntilDecNat
  <2>3. V \in Nat
    <3>1. (due - clk.tb) * CyclesPerTbTick \in Nat
      BY <1>1, <1>4, StepConstants
    <3> QED
      BY <3>1, StepConstants, DivSplit DEF StepsUntilDevice
  <2> HIDE DEF D, V
  <2>4. n <= V
    BY <1>1, <2>2, <2>3 DEF Smaller
  <2> HIDE DEF n
  <2> QED
    BY <1>4, <2>1, <2>4 DEF V
<1> QED
  BY <1>1, <1>2, <1>3, <1>4

\* The end of a step keeps the room and the batch alive.
LEMMA RetireRoom ==
  ASSUME LoopInv, left > 0,
         NEW c, NEW pend \in Nat, NEW brk \in BOOLEAN, NEW t, NEW words,
         Retire(c, pend, brk, t, words),
         ~brk => /\ pend <= pendCycles + CyclesPerStep
                 /\ total' \in Nat /\ total' <= total + CyclesPerStep
                 /\ ~halted'
  PROVE  DeviceRoom' /\ BatchAlive'
<1>1. CASE brk \/ left = 1
  <2>1. left' = 0
    BY <1>1 DEF Retire
  <2> QED
    BY <2>1 DEF DeviceRoom, BatchAlive
<1>2. CASE ~(brk \/ left = 1)
  <2> DEFINE m == (left - 1) * CyclesPerStep
             M == MaxBudget * CyclesPerStep
             T == (due + 1) * CyclesPerTbTick
  <2>1. /\ pendCycles' = pend /\ left' = left - 1 /\ due' = due
    BY <1>2 DEF Retire
  <2>2. /\ left \in Nat /\ left > 1 /\ due \in Nat /\ total \in Nat
        /\ pendCycles \in Nat
    BY <1>2 DEF LoopInv, IInv, TypeOK
  <2>3. /\ left * CyclesPerStep = m + CyclesPerStep /\ m \in Nat
        /\ M \in Nat /\ T \in Nat
    BY <2>2, StepConstants
  <2>4. total + left * CyclesPerStep < T
    BY <2>2 DEF LoopInv, DeviceRoom
  <2>5. pendCycles + left * CyclesPerStep <= M
    BY <2>2 DEF LoopInv, BatchAlive
  <2> HIDE DEF m, M, T
  <2>6. total' + m < T /\ pend + m <= M
    BY <1>2, <2>2, <2>3, <2>4, <2>5, StepConstants
  <2>7. DeviceRoom'
    BY <2>1, <2>6 DEF DeviceRoom, m, T
  <2>8. BatchAlive'
    BY <1>2, <2>1, <2>6 DEF BatchAlive, m, M
  <2> QED
    BY <2>7, <2>8
<1> QED
  BY <1>1, <1>2

\* One word more run late, one word less in the line.
LEMMA LateSum ==
  ASSUME NEW l \in Nat, NEW w \in Nat, NEW k \in Nat, NEW n \in Nat, w <= k
  PROVE  /\ k < n => 0 + w < n
         /\ \A m \in Nat : k < m /\ l + m < n => (l + 1) + w < n
OBVIOUS

\* One instruction keeps the loop's invariant; `words` is less than what the
\* line had, or the line is only now entered with no interrupt waiting.
LEMMA ExecRowLoop ==
  ASSUME LoopInv, left > 0, NEW i \in Insns,
         NEW words \in 0 .. (LineWords - 1), ExecRow(i, words),
         ~Waiting(clk) \/ words < line
  PROVE  LoopInv'
<1> DEFINE c == IF Syncs(i) THEN SyncClock(clk, pendCycles) ELSE clk
           p == IF Syncs(i) THEN 0 ELSE pendCycles
           k == CostOf(i)
           w == IF LeavesLine(i) THEN 0 ELSE words
<1>1. /\ Retire(ClockAfter(i, c), p + k, Breaks(i), TouchesDevice(i), w)
      /\ napping' = NapAfter(i)
      /\ halted' = (i.kind = "halt")
      /\ late' = IF Waiting(clk) THEN late + 1 ELSE 0
      /\ i.kind # "mttb" => total' = k + total
  BY DEF ExecRow
<1>2. /\ pendCycles \in Nat /\ total \in Nat /\ late \in Nat
      /\ line \in 0 .. (LineWords - 1) /\ left \in Nat /\ LineWords \in Nat \ {0}
  BY StepConstants DEF LoopInv, IInv, TypeOK
<1>3. k \in Nat /\ k <= CyclesPerStep /\ CyclesPerStep \in Nat
  BY StepConstants DEF CostOf
<1>4. p \in Nat /\ p <= pendCycles
  BY <1>2
<1>5. IInv'
  BY ExecRowIInv DEF LoopInv
<1> HIDE DEF c, p, k
<1>6. DeviceRoom' /\ BatchAlive'
  <2>1. ~Breaks(i) => /\ p + k <= pendCycles + CyclesPerStep
                      /\ total' \in Nat /\ total' <= total + CyclesPerStep
                      /\ ~halted'
    <3> SUFFICES ASSUME ~Breaks(i)
                 PROVE  /\ p + k <= pendCycles + CyclesPerStep
                        /\ total' \in Nat /\ total' <= total + CyclesPerStep
                        /\ ~halted'
      OBVIOUS
    <3>1. i.kind # "mttb" /\ i.kind # "halt"
      BY DEF Breaks
    <3>2. total' = k + total /\ ~halted'
      BY <1>1, <3>1
    <3> QED
      BY <1>2, <1>3, <1>4, <3>2
  <2>2. p + k \in Nat /\ Breaks(i) \in BOOLEAN
    BY <1>3, <1>4 DEF Breaks
  <2> QED
    BY <1>1, <2>1, <2>2, RetireRoom
<1>7. line' = 0 \/ (~Breaks(i) /\ left' > 0 /\ line' = w)
  <2>1. CASE Breaks(i) \/ left = 1
    BY <1>1, <2>1 DEF Retire
  <2>2. CASE ~(Breaks(i) \/ left = 1)
    BY <1>1, <1>2, <2>2 DEF Retire
  <2> QED
    BY <2>1, <2>2
<1>8. LineAwake'
  <2>1. ~Breaks(i) => ~napping'
    BY <1>1 DEF Breaks, NapAfter
  <2>2. line' > 0 => line' # 0
    OBVIOUS
  <2> QED
    BY <1>7, <2>1, <2>2 DEF LineAwake
<1>9. LateInLine'
  <2>1. /\ line' \in Nat /\ line' <= words
        /\ words \in Nat /\ words < LineWords
    <3>1. words \in Nat /\ words < LineWords
      BY <1>2
    <3>2. line' = 0 \/ line' = words
      BY <1>7
    <3> QED
      BY <3>1, <3>2
  <2>2. CASE ~Waiting(clk)
    <3>1. late' = 0
      BY <1>1, <2>2
    <3>2. 0 + line' < LineWords
      BY <1>2, <2>1, LateSum
    <3> QED
      BY <3>1, <3>2 DEF LateInLine
  <2>3. CASE Waiting(clk)
    <3>1. late' = late + 1 /\ words < line
      BY <1>1, <2>3
    <3>2. late + line < LineWords
      BY DEF LoopInv, LateInLine
    <3>3. line \in Nat
      BY <1>2
    <3>4. (late + 1) + line' < LineWords
      BY <1>2, <2>1, <3>1, <3>2, <3>3, LateSum
    <3> QED
      BY <3>1, <3>4 DEF LateInLine
  <2> QED
    BY <2>2, <2>3
<1> QED
  BY <1>5, <1>6, <1>8, <1>9 DEF LoopInv

\* Taking an interrupt or a sleeping step keeps the loop's invariant.
LEMMA QuietRetireLoop ==
  ASSUME LoopInv, IInv', left > 0, NEW c, NEW k \in Nat, k <= CyclesPerStep,
         Retire(c, pendCycles + k, FALSE, FALSE, 0),
         total' = total + k, halted' = halted, late' = 0 \/ late' = late
  PROVE  LoopInv'
<1>1. /\ pendCycles \in Nat /\ total \in Nat /\ late \in Nat
      /\ line \in 0 .. (LineWords - 1) /\ left \in Nat /\ LineWords \in Nat \ {0}
      /\ late + line < LineWords
  BY StepConstants DEF LoopInv, IInv, TypeOK, LateInLine
<1>2. DeviceRoom' /\ BatchAlive'
  <2>1. pendCycles + k \in Nat /\ pendCycles + k <= pendCycles + CyclesPerStep
        /\ total' \in Nat /\ total' <= total + CyclesPerStep
    BY <1>1, StepConstants
  <2>2. ~halted'
    BY <1>1 DEF LoopInv, BatchAlive
  <2> QED
    BY <2>1, <2>2, RetireRoom
<1>3. line' = 0
  BY DEF Retire
<1>4. LineAwake' /\ LateInLine'
  BY <1>1, <1>3 DEF LineAwake, LateInLine
<1> QED
  BY <1>2, <1>4 DEF LoopInv

\* Every step of the run loop keeps the loop's invariant.
LEMMA NextLoop == LoopInv /\ [Next]_vars => LoopInv'
<1> SUFFICES ASSUME LoopInv, [Next]_vars PROVE LoopInv'
  OBVIOUS
<1>1. IInv /\ IInv'
  BY NextIInv DEF LoopInv
<1>2. /\ pendCycles \in Nat /\ total \in Nat /\ late \in Nat
      /\ line \in 0 .. (LineWords - 1) /\ left \in Nat
      /\ budget \in Nat /\ budget <= MaxBudget
      /\ left = 0 => pendCycles = 0
  BY <1>1 DEF IInv, TypeOK
<1>3. ASSUME left' = 0, UNCHANGED <<line, late>>, left = 0 PROVE LoopInv'
  <2>1. ~(line > 0)
    BY <1>2, <1>3 DEF LoopInv, LineAwake
  <2> QED
    BY <1>1, <1>3, <2>1
       DEF LoopInv, DeviceRoom, BatchAlive, LineAwake, LateInLine
<1>4. CASE OpmRun
  <2>1. left = 0
    BY <1>1, <1>4 DEF OpmRun, IInv, TypeOK
  <2> QED
    BY <1>3, <1>4, <2>1 DEF OpmRun
<1>5. CASE NapSkip
  BY <1>3, <1>5 DEF NapSkip
<1>6. CASE StartBatch
  <2>1. /\ budget > 0 /\ ~halted /\ left = 0 /\ left' = BatchSteps
        /\ UNCHANGED <<clk, pendCycles, napping, due, halted, budget, line,
                       late, total>>
    BY <1>6 DEF StartBatch
  <2>2. BatchSteps \in 1 .. budget
    BY <1>1, <2>1, BatchStepsFacts
  <2>3. BatchSteps \in Nat /\ BatchSteps > 0 /\ BatchSteps <= MaxBudget
    BY <1>2, <2>2, StepConstants
  <2>4. DeviceRoom'
    <3>1. CASE BatchSteps = 1
      BY <1>2, <2>1, <3>1 DEF DeviceRoom
    <3>2. CASE due > clk.tb /\ BatchSteps <= StepsUntilDevice
      <4>1. total + BatchSteps * CyclesPerStep < (due + 1) * CyclesPerTbTick
        BY <1>1, <1>2, <2>1, <2>3, <3>2, DeviceBound
      <4> QED
        BY <2>1, <4>1 DEF DeviceRoom
    <3> QED
      BY <1>1, <2>1, <3>1, <3>2, BatchStepsDevice
  <2>5. BatchAlive'
    <3>1. /\ BatchSteps * CyclesPerStep <= MaxBudget * CyclesPerStep
          /\ BatchSteps * CyclesPerStep \in Nat
      BY <2>3, StepConstants
    <3>2. pendCycles' + left' * CyclesPerStep = BatchSteps * CyclesPerStep
      BY <1>2, <2>1, <3>1
    <3> QED
      BY <2>1, <3>1, <3>2 DEF BatchAlive
  <2>6. ~(line > 0)
    BY <1>2, <2>1 DEF LoopInv, LineAwake
  <2> QED
    BY <1>1, <2>1, <2>4, <2>5, <2>6 DEF LoopInv, LineAwake, LateInLine
<1>7. CASE TakeInterrupt
  <2>1. left > 0 /\ total' = total + ExtraCycles /\ halted' = halted /\ late' = 0
    BY <1>7 DEF TakeInterrupt
  <2>2. PICK c : Retire(c, pendCycles + ExtraCycles, FALSE, FALSE, 0)
    BY <1>7 DEF TakeInterrupt
  <2> QED
    BY <1>1, <2>1, <2>2, QuietRetireLoop, StepConstants
<1>8. CASE NapStep
  <2>1. /\ left > 0 /\ total' = total + CyclesPerStep /\ halted' = halted
        /\ late' = late
        /\ Retire(clk, pendCycles + CyclesPerStep, FALSE, FALSE, 0)
    BY <1>8 DEF NapStep
  <2>2. PICK c : Retire(c, pendCycles + CyclesPerStep, FALSE, FALSE, 0)
    BY <2>1
  <2>3. CyclesPerStep \in Nat /\ CyclesPerStep <= CyclesPerStep
    BY StepConstants
  <2> QED
    BY <1>1, <2>1, <2>2, <2>3, QuietRetireLoop
<1>9. ASSUME NEW i \in Insns, SlowStep(i) PROVE LoopInv'
  <2>1. 0 \in 0 .. (LineWords - 1)
    BY StepConstants
  <2> QED
    BY <1>9, <2>1, ExecRowLoop DEF SlowStep
<1>10. ASSUME NEW i \in Insns, EnterLine(i) PROVE LoopInv'
  BY <1>10, ExecRowLoop DEF EnterLine
<1>11. ASSUME NEW i \in Insns, LineStep(i) PROVE LoopInv'
  <2>1. line - 1 \in 0 .. (LineWords - 1) /\ line - 1 < line
    BY <1>2, <1>11, StepConstants DEF LineStep
  <2> QED
    BY <1>11, <2>1, ExecRowLoop DEF LineStep
<1>12. CASE UNCHANGED vars
  BY <1>1, <1>12
     DEF vars, LoopInv, DeviceRoom, BatchAlive, LineAwake, LateInLine
<1> QED
  BY <1>4, <1>5, <1>6, <1>7, <1>8, <1>9, <1>10, <1>11, <1>12 DEF Next

\* The initial state satisfies the loop's invariant.
LEMMA InitLoop == Init => LoopInv
<1> SUFFICES ASSUME Init PROVE LoopInv
  OBVIOUS
<1>1. left = 0 /\ line = 0 /\ late = 0
  BY DEF Init
<1> QED
  BY <1>1, InitIInv, StepConstants
     DEF LoopInv, DeviceRoom, BatchAlive, LineAwake, LateInLine

\* tbNow() while the cycles fall short of a deadline.
LEMMA TbNowBelow ==
  ASSUME NEW c \in Clock, NEW n \in Nat, NEW d \in Nat,
         c.tb * CyclesPerTbTick + c.cycleAccum + n < d * CyclesPerTbTick
  PROVE  TbNow(c, n) \in Nat /\ TbNow(c, n) < d
<1> DEFINE x == c.cycleAccum + n
           q == x \div CyclesPerTbTick
           r == x % CyclesPerTbTick
           N == c.tb + q
<1>1. /\ c.tb \in Nat /\ x \in Nat /\ CyclesPerTbTick \in Nat \ {0}
      /\ c.cycleAccum \in Nat /\ c.tb * CyclesPerTbTick \in Nat
      /\ d * CyclesPerTbTick \in Nat
  BY ClockFields
<1>2. q \in Nat /\ r \in 0 .. (CyclesPerTbTick - 1)
      /\ x = q * CyclesPerTbTick + r
  BY <1>1, DivSplit
<1>3. c.tb * CyclesPerTbTick + x < d * CyclesPerTbTick
  BY <1>1
<1>4. TbNow(c, n) = N
  BY DEF TbNow
<1> HIDE DEF x, q, r
<1>5. N * CyclesPerTbTick = c.tb * CyclesPerTbTick + q * CyclesPerTbTick
      /\ q * CyclesPerTbTick \in Nat /\ N \in Nat
  BY <1>1, <1>2
<1> HIDE DEF N
<1>6. N * CyclesPerTbTick < d * CyclesPerTbTick /\ N * CyclesPerTbTick \in Nat
  BY <1>1, <1>2, <1>3, <1>5
<1>7. ~(N >= d)
  <2> SUFFICES ASSUME N >= d PROVE FALSE
    OBVIOUS
  <2>1. N * CyclesPerTbTick >= d * CyclesPerTbTick
    BY <1>1, <1>5
  <2> QED
    BY <1>1, <1>6, <2>1
<1> QED
  BY <1>4, <1>5, <1>7

\* Before the published deadline plus one tick, whatever a step costs.
LateByLessThanATick ==
  left > 0 /\ pendCycles > 0 => TbNow(clk, pendCycles) <= due

\* What the room says of the cycles already charged.
LEMMA RoomCharged ==
  ASSUME LoopInv, left > 0, pendCycles > 0
  PROVE  /\ total < (due + 1) * CyclesPerTbTick
         /\ CyclesPerTbTick <= CyclesPerStep => total < due * CyclesPerTbTick
<1> DEFINE m == (left - 1) * CyclesPerStep
           T == due * CyclesPerTbTick
<1>1. left \in Nat /\ total \in Nat /\ due \in Nat
  BY DEF LoopInv, IInv, TypeOK
<1>2. /\ left * CyclesPerStep = m + CyclesPerStep /\ m \in Nat /\ T \in Nat
      /\ (due + 1) * CyclesPerTbTick = T + CyclesPerTbTick
  BY <1>1, StepConstants
<1>3. total + left * CyclesPerStep < (due + 1) * CyclesPerTbTick
  BY DEF LoopInv, DeviceRoom
<1> HIDE DEF m, T
<1>4. /\ total < T + CyclesPerTbTick
      /\ CyclesPerTbTick <= CyclesPerStep => total < T
  BY <1>1, <1>2, <1>3, StepConstants
<1> QED
  BY <1>2, <1>4 DEF T

\* The line executor asks about interrupts once per line, so an interrupt that
\* becomes deliverable inside one waits for less than a line (Cpu::runSteps).
THEOREM LateInsideOneLine == Spec => []LateByLessThanALine
<1>1. LoopInv => LateByLessThanALine
  <2> SUFFICES ASSUME LoopInv PROVE late < LineWords
    BY DEF LateByLessThanALine
  <2>1. late \in Nat /\ line \in Nat /\ LineWords \in Nat
    BY StepConstants DEF LoopInv, IInv, TypeOK
  <2> QED
    BY <2>1 DEF LoopInv, LateInLine
<1> QED
  BY <1>1, InitLoop, NextLoop, PTL DEF Spec

\* Whatever a step costs, a batch never runs past the timebase tick at which a
\* device falls due (batchSteps, "floor: never overshoot"): a deadline can be
\* passed by a fraction of a tick only, the one cycleAccum already held.
THEOREM DeviceLateByLessThanATick == Spec => []LateByLessThanATick
<1>1. LoopInv => LateByLessThanATick
  <2> SUFFICES ASSUME LoopInv, left > 0, pendCycles > 0
               PROVE  TbNow(clk, pendCycles) <= due
    BY DEF LateByLessThanATick
  <2>1. /\ clk \in Clock /\ pendCycles \in Nat /\ due \in Nat
        /\ clk.tb * CyclesPerTbTick + clk.cycleAccum + pendCycles = total
    BY DEF LoopInv, IInv, TypeOK, ClockConservation
  <2>2. due + 1 \in Nat /\ total < (due + 1) * CyclesPerTbTick
    BY <2>1, RoomCharged
  <2>3. TbNow(clk, pendCycles) \in Nat /\ TbNow(clk, pendCycles) < due + 1
    BY <2>1, <2>2, TbNowBelow
  <2> QED
    BY <2>1, <2>3
<1> QED
  BY <1>1, InitLoop, NextLoop, PTL DEF Spec

\* When a step costs at least a timebase tick the loop's invariant puts the
\* device deadline strictly ahead.
LEMMA LoopNotOverdue ==
  ASSUME CyclesPerTbTick <= CyclesPerStep, LoopInv
  PROVE  NoOverdueDevice
<1> SUFFICES ASSUME left > 0, pendCycles > 0
             PROVE  TbNow(clk, pendCycles) < due
  BY DEF NoOverdueDevice
<1>1. /\ clk \in Clock /\ pendCycles \in Nat /\ due \in Nat
      /\ clk.tb * CyclesPerTbTick + clk.cycleAccum + pendCycles = total
  BY DEF LoopInv, IInv, TypeOK, ClockConservation
<1>2. total < due * CyclesPerTbTick
  BY RoomCharged
<1> QED
  BY <1>1, <1>2, TbNowBelow

\* When a step costs at least one timebase tick, as under a compressed clock
\* (extraCycles, --fast-tb), no batch runs past a device deadline at all.
THEOREM DeviceNeverOverdue ==
  ASSUME CyclesPerTbTick <= CyclesPerStep
  PROVE  Spec => []NoOverdueDevice
<1>1. LoopInv => NoOverdueDevice
  BY LoopNotOverdue
<1> QED
  BY <1>1, InitLoop, NextLoop, PTL DEF Spec
-----------------------------------------------------------------------------
(* The refinement: with the owed cycles applied, the batching loop takes   *)
(* StepLoop's steps.                                                       *)

\* syncClock(), chunked or not, is one tick() of what is owed.
LEMMA SyncIsTick ==
  ASSUME NEW c \in Clock, NEW n \in Nat, n <= DecHalf * CyclesPerTbTick
  PROVE  SyncClock(c, n) = Tick(c, n) /\ ClockAdvanceCycles(c, n) = Tick(c, n)
<1>1. ClockAdvanceCycles(c, n) = Tick(c, n)
  <2>1. CASE n <= MaxChunk
    BY <2>1 DEF ClockAdvanceCycles
  <2>2. CASE ~(n <= MaxChunk)
    <3> DEFINE k == n - MaxChunk
    <3>1. MaxChunk \in Nat /\ k \in Nat /\ MaxChunk + k = n
      BY <2>2, ClockConstants
    <3>2. ClockAdvanceCycles(c, n) = Tick(Tick(c, MaxChunk), k)
      BY <2>2 DEF ClockAdvanceCycles
    <3> HIDE DEF k
    <3>3. Tick(Tick(c, MaxChunk), k) = Tick(c, MaxChunk + k)
      BY <3>1, TickCompose
    <3> QED
      BY <3>1, <3>2, <3>3
  <2> QED
    BY <2>1, <2>2
<1>2. CASE n = 0
  <2>1. c.cycleAccum + 0 < CyclesPerTbTick /\ c.cycleAccum + 0 = c.cycleAccum
    BY ClockFields
  <2>2. Tick(c, 0) = [c EXCEPT !.cycleAccum = c.cycleAccum]
    BY <2>1 DEF Tick
  <2>3. Tick(c, 0) = c
    BY <2>2 DEF Clock
  <2> QED
    BY <1>1, <1>2, <2>3 DEF SyncClock
<1>3. CASE n # 0
  BY <1>1, <1>3 DEF SyncClock
<1> QED
  BY <1>2, <1>3

\* Charging k more cycles before a syncClock() is a tick() of k after it.
LEMMA ChargeIsTick ==
  ASSUME NEW c \in Clock, NEW p \in Nat, NEW k \in Nat,
         p + k <= DecHalf * CyclesPerTbTick
  PROVE  SyncClock(c, p + k) = Tick(SyncClock(c, p), k)
<1>1. /\ DecHalf * CyclesPerTbTick \in Nat
  BY ClockConstants
<1>2. p + k \in Nat /\ p <= DecHalf * CyclesPerTbTick
  BY <1>1
<1>3. SyncClock(c, p + k) = Tick(c, p + k)
  BY <1>2, SyncIsTick
<1>4. SyncClock(c, p) = Tick(c, p)
  BY <1>2, SyncIsTick
<1> QED
  BY <1>3, <1>4, TickCompose

\* What tbNow() reads is the TB a syncClock() would leave.
LEMMA SyncTb ==
  ASSUME NEW c \in Clock, NEW n \in Nat, n <= DecHalf * CyclesPerTbTick
  PROVE  SyncClock(c, n).tb = TbNow(c, n)
<1>1. SyncClock(c, n) = Tick(c, n)
  BY SyncIsTick
<1>2. Tick(c, n) = TickWhole(c, (c.cycleAccum + n) \div CyclesPerTbTick,
                             (c.cycleAccum + n) % CyclesPerTbTick)
  BY TickIsWhole
<1> QED
  BY <1>1, <1>2 DEF TickWhole, TbNow

\* A clock with another value for its request.
LEMMA WithPending ==
  ASSUME NEW c \in Clock, NEW v
  PROVE  [c EXCEPT !.decPending = v]
           = [tb |-> c.tb, dec |-> c.dec, cycleAccum |-> c.cycleAccum,
              decPending |-> v]
BY DEF Clock

\* Clearing the request commutes with a syncClock() that raises none.
LEMMA SyncCleared ==
  ASSUME NEW c \in Clock, NEW n \in Nat, Short(c, n),
         n <= DecHalf * CyclesPerTbTick
  PROVE  SyncClock([c EXCEPT !.decPending = FALSE], n)
           = [SyncClock(c, n) EXCEPT !.decPending = FALSE]
<1> DEFINE e == [c EXCEPT !.decPending = FALSE]
           q == (c.cycleAccum + n) \div CyclesPerTbTick
           r == (c.cycleAccum + n) % CyclesPerTbTick
<1>1. /\ e \in Clock /\ e.tb = c.tb /\ e.dec = c.dec
      /\ e.cycleAccum = c.cycleAccum /\ e.decPending = FALSE
  BY DEF Clock
<1> HIDE DEF e
<1>2. SyncClock(e, n) = TickWhole(e, q, r)
  BY <1>1, SyncIsTick, TickIsWhole
<1>3. SyncClock(c, n) = TickWhole(c, q, r)
  BY SyncIsTick, TickIsWhole
<1>4. Short(e, n + 0) /\ n + 0 = n
  BY <1>1 DEF Short
<1>5. SyncClock(e, n).decPending = FALSE
  BY <1>1, <1>4, SyncShort
<1> DEFINE x == (c.dec - q) % DecModulus
<1>6. TickWhole(e, q, r) = [tb |-> c.tb + q, dec |-> x, cycleAccum |-> r,
                            decPending |-> FALSE]
  <2>1. TickWhole(e, q, r).decPending
          = (e.decPending \/ (~Negative(e.dec) /\ q > e.dec))
    BY DEF TickWhole
  <2>2. (e.decPending \/ (~Negative(e.dec) /\ q > e.dec)) = FALSE
    BY <1>2, <1>5, <2>1
  <2> HIDE DEF q, r
  <2> QED
    BY <1>1, <2>2 DEF TickWhole
<1>7. [TickWhole(c, q, r) EXCEPT !.decPending = FALSE]
        = [tb |-> c.tb + q, dec |-> x, cycleAccum |-> r, decPending |-> FALSE]
  <2> DEFINE d == TickWhole(c, q, r)
  <2>1. d.tb = c.tb + q /\ d.dec = x /\ d.cycleAccum = r
    BY DEF TickWhole
  <2>2. d \in Clock
    BY <1>3, SyncFacts
  <2> HIDE DEF d, q, r, x
  <2>3. [d EXCEPT !.decPending = FALSE]
          = [tb |-> d.tb, dec |-> d.dec, cycleAccum |-> d.cycleAccum,
             decPending |-> FALSE]
    BY <2>2, WithPending
  <2> QED
    BY <2>1, <2>3 DEF d
<1> HIDE DEF q, r, x
<1> QED
  BY <1>2, <1>3, <1>6, <1>7 DEF e
-----------------------------------------------------------------------------
\* StepLoop's own copies of the clock and the instructions are the run loop's.
LEMMA SameClock ==
  /\ OneAtATime!Clock = Clock
  /\ \A c, n : OneAtATime!Tick(c, n) = Tick(c, n)
  /\ \A i, c : OneAtATime!ClockAfter(i, c) = ClockAfter(i, c)
  /\ OneAtATime!CyclesPerStep = CyclesPerStep
<1>1. OneAtATime!Clock = Clock
  BY DEF OneAtATime!Clock, Clock, OneAtATime!DecModulus, DecModulus
<1>2. ASSUME NEW c, NEW n PROVE OneAtATime!Tick(c, n) = Tick(c, n)
  BY DEF OneAtATime!Tick, Tick, OneAtATime!TickWhole, TickWhole,
         OneAtATime!Negative, Negative, OneAtATime!DecModulus, DecModulus
<1>3. ASSUME NEW i, NEW c
      PROVE  OneAtATime!ClockAfter(i, c) = ClockAfter(i, c)
  BY DEF OneAtATime!ClockAfter, ClockAfter, OneAtATime!WriteDec, WriteDec,
         OneAtATime!WriteTb, WriteTb, OneAtATime!Negative, Negative
<1>4. OneAtATime!CyclesPerStep = CyclesPerStep
  BY DEF OneAtATime!CyclesPerStep, CyclesPerStep
<1> QED
  BY <1>1, <1>2, <1>3, <1>4

\* ... and so is what an instruction does.
LEMMA SameInsns ==
  ASSUME NEW i
  PROVE  /\ \A e : OneAtATime!EeAfter(i, e) = EeAfter(i, e)
         /\ \A e : OneAtATime!PmAfter(i, e) = PmAfter(i, e)
         /\ \A t, s : OneAtATime!SeenAfter(i, t, s) = SeenAfter(i, t, s)
         /\ OneAtATime!NapAfter(i) = NapAfter(i)
         /\ OneAtATime!CostOf(i) = CostOf(i)
         /\ OneAtATime!TouchesDevice(i) = TouchesDevice(i)
<1>1. \A e : OneAtATime!EeAfter(i, e) = EeAfter(i, e)
  BY DEF OneAtATime!EeAfter, EeAfter
<1>2. \A e : OneAtATime!PmAfter(i, e) = PmAfter(i, e)
  BY DEF OneAtATime!PmAfter, PmAfter
<1>3. \A t, s : OneAtATime!SeenAfter(i, t, s) = SeenAfter(i, t, s)
  BY DEF OneAtATime!SeenAfter, SeenAfter
<1>4. OneAtATime!CostOf(i) = CostOf(i)
  BY DEF OneAtATime!CostOf, CostOf, OneAtATime!CyclesPerStep, CyclesPerStep
<1>5. OneAtATime!NapAfter(i) = NapAfter(i)
  BY DEF OneAtATime!NapAfter, NapAfter
<1>6. OneAtATime!TouchesDevice(i) = TouchesDevice(i)
  BY DEF OneAtATime!TouchesDevice, TouchesDevice
<1> QED
  BY <1>1, <1>2, <1>3, <1>4, <1>5, <1>6

\* The devices are looked at on the same occasion.
LEMMA ServiceIsService ==
  ASSUME NEW tb, NEW t, ServiceDevices(tb, t)
  PROVE  OneAtATime!Service(tb, t)
BY DEF ServiceDevices, OneAtATime!Service

\* What a batch owes never reaches half of the decrementer's range.
LEMMA PendBound ==
  ASSUME LoopInv, left > 0
  PROVE  /\ pendCycles + CyclesPerStep <= DecHalf * CyclesPerTbTick
         /\ pendCycles <= DecHalf * CyclesPerTbTick
<1> DEFINE m == (left - 1) * CyclesPerStep
<1>1. left \in Nat /\ pendCycles \in Nat
  BY DEF LoopInv, IInv, TypeOK
<1>2. left * CyclesPerStep = m + CyclesPerStep /\ m \in Nat
  BY <1>1, StepConstants
<1>3. /\ pendCycles + left * CyclesPerStep <= MaxBudget * CyclesPerStep
      /\ MaxBudget * CyclesPerStep <= DecHalf * CyclesPerTbTick
      /\ MaxBudget * CyclesPerStep \in Nat /\ DecHalf * CyclesPerTbTick \in Nat
  BY BatchFitsDecrementer, StepConstants DEF LoopInv, BatchAlive
<1> HIDE DEF m
<1> QED
  BY <1>1, <1>2, <1>3, StepConstants

\* The end of a step, seen with the owed cycles applied, is the end of a
\* StepLoop step: inside the batch no device could have fallen due.
LEMMA RetireIsStep ==
  ASSUME CyclesPerTbTick <= CyclesPerStep, LoopInv, left > 0,
         NEW c \in Clock, NEW p \in Nat, NEW k \in Nat,
         NEW brk \in BOOLEAN, NEW t \in BOOLEAN, NEW words,
         Retire(c, p + k, brk, t, words),
         p <= pendCycles, k <= CyclesPerStep,
         ~brk => /\ ~t
                 /\ c.tb * CyclesPerTbTick + c.cycleAccum + p = total
  PROVE  OneAtATime!Retire(SyncClock(c, p), k, t)
<1> DEFINE m == (left - 1) * CyclesPerStep
<1>1. /\ left \in Nat /\ pendCycles \in Nat /\ total \in Nat /\ due \in Nat
  BY DEF LoopInv, IInv, TypeOK
<1>2. left * CyclesPerStep = m + CyclesPerStep /\ m \in Nat
  BY <1>1, StepConstants
<1>4. p + k <= DecHalf * CyclesPerTbTick /\ p + k \in Nat
  <2>1. DecHalf * CyclesPerTbTick \in Nat
    BY StepConstants
  <2> QED
    BY <1>1, <2>1, PendBound, StepConstants
<1>5. SyncClock(c, p + k) = Tick(SyncClock(c, p), k)
  BY <1>4, ChargeIsTick
<1>6. SyncClock(c, p + k) \in Clock
  BY <1>4, SyncFacts
<1>7. CASE brk \/ left = 1
  <2>1. /\ clk' = SyncClock(c, p + k) /\ pendCycles' = 0
        /\ ServiceDevices(clk'.tb, t)
    BY <1>7 DEF Retire
  <2>2. SyncClock(clk', pendCycles') = clk'
    BY <2>1 DEF SyncClock
  <2>3. OneAtATime!Service(clk'.tb, t)
    BY <2>1, ServiceIsService
  <2> QED
    BY <1>5, <2>1, <2>2, <2>3, SameClock DEF OneAtATime!Retire
<1>8. CASE ~(brk \/ left = 1)
  <2>1. clk' = c /\ pendCycles' = p + k /\ UNCHANGED <<extIrqLine, due>>
    BY <1>8 DEF Retire
  <2>2. left > 1 /\ ~t
        /\ c.tb * CyclesPerTbTick + c.cycleAccum + p = total
    BY <1>1, <1>8
  <2>3. c.tb * CyclesPerTbTick + c.cycleAccum + (p + k) < due * CyclesPerTbTick
    <3> DEFINE T == due * CyclesPerTbTick
               z == c.tb * CyclesPerTbTick
               n == (left - 2) * CyclesPerStep
    <3>1. total + left * CyclesPerStep < (due + 1) * CyclesPerTbTick
      BY <1>1, <2>2 DEF LoopInv, DeviceRoom
    <3>2. /\ (due + 1) * CyclesPerTbTick = T + CyclesPerTbTick /\ T \in Nat
          /\ z \in Nat /\ c.cycleAccum \in Nat
      BY <1>1, ClockFields
    <3>3. m = n + CyclesPerStep /\ n \in Nat
      BY <1>1, <2>2, OneStepLess
    <3>4. z + c.cycleAccum + p = total
      BY <2>2
    <3> HIDE DEF T, z, n, m
    <3>5. z + c.cycleAccum + (p + k) < T
      BY <1>1, <1>2, <3>1, <3>2, <3>3, <3>4, StepConstants
    <3> QED
      BY <3>5 DEF T, z
  <2>4. TbNow(c, p + k) \in Nat /\ TbNow(c, p + k) < due
    BY <1>1, <1>4, <2>3, TbNowBelow
  <2>5. SyncClock(c, p + k).tb = TbNow(c, p + k)
    BY <1>4, SyncTb
  <2>6. ~(SyncClock(c, p + k).tb >= due)
    BY <1>1, <2>4, <2>5
  <2>7. OneAtATime!Service(SyncClock(c, p + k).tb, t)
    BY <2>1, <2>2, <2>6 DEF OneAtATime!Service
  <2> QED
    BY <1>5, <2>1, <2>7, SameClock DEF OneAtATime!Retire
<1> QED
  BY <1>7, <1>8

\* An instruction is delivered the same way with the owed cycles applied.
LEMMA ClockAfterSync ==
  ASSUME NEW i, NEW c, NEW n
  PROVE  /\ Syncs(i) => SyncClock(ClockAfter(i, c), 0) = ClockAfter(i, c)
         /\ ~Syncs(i) => /\ ClockAfter(i, c) = c
                         /\ ClockAfter(i, SyncClock(c, n)) = SyncClock(c, n)
BY DEF Syncs, ClockAfter, SyncClock

\* An instruction on any path, with no interrupt waiting, is one of StepLoop.
LEMMA ExecRowIsStep ==
  ASSUME CyclesPerTbTick <= CyclesPerStep, LoopInv, left > 0, ~napping,
         ~Waiting(clk), NEW i \in Insns, NEW words, ExecRow(i, words)
  PROVE  OneAtATime!Execute(i)
<1> DEFINE S == SyncClock(clk, pendCycles)
           c == IF Syncs(i) THEN S ELSE clk
           p == IF Syncs(i) THEN 0 ELSE pendCycles
           d == ClockAfter(i, c)
           k == CostOf(i)
           now == IF Syncs(i) THEN c.tb ELSE TbNow(clk, pendCycles)
           w == IF LeavesLine(i) THEN 0 ELSE words
<1>1. /\ clk \in Clock /\ pendCycles \in Nat /\ left \in Nat /\ ~halted
      /\ clk.tb * CyclesPerTbTick + clk.cycleAccum + pendCycles = total
      /\ S.decPending = clk.decPending
  BY IInvNoMissed
     DEF LoopInv, IInv, TypeOK, ClockConservation, BatchAlive, NoMissedDecrementer
<1>2. S \in Clock
  BY <1>1, SyncFacts
<1>3. /\ Retire(d, p + k, Breaks(i), TouchesDevice(i), w)
      /\ ee' = EeAfter(i, ee) /\ napping' = NapAfter(i)
      /\ pmPending' = PmAfter(i, pmPending)
      /\ seen' = SeenAfter(i, now, seen)
      /\ halted' = (i.kind = "halt")
  BY DEF ExecRow
<1>4. k \in Nat /\ k <= CyclesPerStep /\ p \in Nat /\ p <= pendCycles
  BY <1>1, StepConstants DEF CostOf
<1>5. c \in Clock
  BY <1>1, <1>2
<1>6. d \in Clock
  <2> HIDE DEF c
  <2> QED
    BY <1>5, ClockAfterFacts
<1>7. ~Breaks(i) => /\ ~TouchesDevice(i)
                    /\ d.tb * CyclesPerTbTick + d.cycleAccum + p = total
  <2> SUFFICES ASSUME ~Breaks(i)
               PROVE  /\ ~TouchesDevice(i)
                      /\ d.tb * CyclesPerTbTick + d.cycleAccum + p = total
    OBVIOUS
  <2>1. d = c
    <3> HIDE DEF c
    <3> QED
      BY <1>5, ClockAfterFacts
  <2>2. ~TouchesDevice(i)
    BY DEF Breaks, TouchesDevice
  <2>3. CASE Syncs(i)
    <3>1. c = S /\ p = 0
      BY <2>3
    <3>2. S.tb * CyclesPerTbTick + S.cycleAccum = total
      BY <1>1, SyncFacts
    <3>3. S.tb * CyclesPerTbTick \in Nat /\ S.cycleAccum \in Nat
      BY <1>2, ClockFields
    <3> HIDE DEF c, d, S, p
    <3> QED
      BY <2>1, <2>2, <3>1, <3>2, <3>3
  <2>4. CASE ~Syncs(i)
    <3>1. c = clk /\ p = pendCycles
      BY <2>4
    <3> HIDE DEF c, d, p
    <3> QED
      BY <1>1, <2>1, <2>2, <3>1
  <2> QED
    BY <2>3, <2>4
<1>8. SyncClock(d, p) = ClockAfter(i, S)
  <2>1. CASE Syncs(i)
    BY <2>1, ClockAfterSync
  <2>2. CASE ~Syncs(i)
    BY <2>2, ClockAfterSync
  <2> QED
    BY <2>1, <2>2
<1>9. Breaks(i) \in BOOLEAN /\ TouchesDevice(i) \in BOOLEAN
  BY DEF Breaks, TouchesDevice
<1>10. OneAtATime!Retire(SyncClock(d, p), k, TouchesDevice(i))
  <2> HIDE DEF d, p, k, w
  <2> QED
    BY <1>3, <1>4, <1>6, <1>7, <1>9, RetireIsStep
<1>11. now = S.tb
  <2>1. CASE Syncs(i)
    BY <2>1
  <2>2. CASE ~Syncs(i)
    <3>1. pendCycles <= DecHalf * CyclesPerTbTick
      BY <1>1, PendBound
    <3>2. S.tb = TbNow(clk, pendCycles)
      BY <1>1, <3>1, SyncTb
    <3> QED
      BY <2>2, <3>2
  <2> QED
    BY <2>1, <2>2
<1>12. ~OneAtATime!Waiting(S)
  BY <1>1 DEF Waiting, OneAtATime!Waiting
<1> HIDE DEF c, p, d, k, now, w
<1>13. OneAtATime!Retire(OneAtATime!ClockAfter(i, S), OneAtATime!CostOf(i),
                         OneAtATime!TouchesDevice(i))
  BY <1>8, <1>10, SameClock, SameInsns DEF k
<1>14. /\ ee' = OneAtATime!EeAfter(i, ee) /\ napping' = OneAtATime!NapAfter(i)
       /\ pmPending' = OneAtATime!PmAfter(i, pmPending)
       /\ seen' = OneAtATime!SeenAfter(i, S.tb, seen)
  BY <1>3, <1>11, SameInsns
<1> QED
  BY <1>1, <1>3, <1>12, <1>13, <1>14 DEF OneAtATime!Execute

\* A sleeping step is StepLoop's Sleep(1).
LEMMA NapStepIsSleep ==
  ASSUME CyclesPerTbTick <= CyclesPerStep, LoopInv, NapStep
  PROVE  OneAtATime!Sleep(1)
<1> DEFINE S == SyncClock(clk, pendCycles)
<1>1. /\ clk \in Clock /\ pendCycles \in Nat /\ left > 0 /\ ~halted
      /\ clk.tb * CyclesPerTbTick + clk.cycleAccum + pendCycles = total
      /\ S.decPending = clk.decPending
  BY IInvNoMissed
     DEF NapStep, LoopInv, IInv, TypeOK, ClockConservation, BatchAlive,
         NoMissedDecrementer
<1>2. /\ Retire(clk, pendCycles + CyclesPerStep, FALSE, FALSE, 0)
      /\ napping /\ ~Waiting(clk)
      /\ UNCHANGED <<napping, ee, pmPending, seen, halted>>
  BY DEF NapStep
<1>3. OneAtATime!Retire(S, CyclesPerStep, FALSE)
  <2>1. CyclesPerStep \in Nat /\ CyclesPerStep <= CyclesPerStep
        /\ pendCycles <= pendCycles
    BY <1>1, StepConstants
  <2> QED
    BY <1>1, <1>2, <2>1, RetireIsStep
<1>4. S \in Clock
  BY <1>1, SyncFacts
<1>5. Tick(S, 0) = S
  <2>1. 0 <= DecHalf * CyclesPerTbTick
    BY StepConstants
  <2>2. SyncClock(S, 0) = Tick(S, 0)
    BY <1>4, <2>1, SyncIsTick
  <2> QED
    BY <2>2 DEF SyncClock
<1>6. ~OneAtATime!Waiting(S)
  BY <1>1, <1>2 DEF Waiting, OneAtATime!Waiting
<1> HIDE DEF S
<1>7. \A k \in 0 .. (1 - 1) :
        LET c == OneAtATime!Tick(S, k * CyclesPerStep)
        IN  ~OneAtATime!Waiting(c) /\ (k > 0 => c.tb < due)
  <2> SUFFICES ASSUME NEW k \in 0 .. (1 - 1)
               PROVE  /\ ~OneAtATime!Waiting(OneAtATime!Tick(S, k * CyclesPerStep))
                      /\ k > 0 => OneAtATime!Tick(S, k * CyclesPerStep).tb < due
    OBVIOUS
  <2>1. k = 0 /\ ~(k > 0)
    OBVIOUS
  <2>2. k * CyclesPerStep = 0
    BY <2>1, StepConstants
  <2>3. OneAtATime!Tick(S, k * CyclesPerStep) = S
    BY <1>5, <2>2, SameClock
  <2> QED
    BY <1>6, <2>1, <2>3
<1>8. 1 * CyclesPerStep = CyclesPerStep
  BY StepConstants
<1> QED
  BY <1>1, <1>2, <1>3, <1>7, <1>8, SameClock DEF OneAtATime!Sleep, S

\* Taking an interrupt inside a batch is taking it at a StepLoop boundary.
LEMMA TakeIsTake ==
  ASSUME CyclesPerTbTick <= CyclesPerStep, LoopInv, TakeInterrupt
  PROVE  OneAtATime!TakeInterrupt
<1> DEFINE S == SyncClock(clk, pendCycles)
           c == IF extIrqLine THEN clk ELSE [clk EXCEPT !.decPending = FALSE]
<1>1. /\ clk \in Clock /\ pendCycles \in Nat /\ left \in Nat /\ left > 0
      /\ ~halted /\ extIrqLine \in BOOLEAN /\ pmPending \in BOOLEAN
      /\ clk.tb * CyclesPerTbTick + clk.cycleAccum + pendCycles = total
      /\ S.decPending = clk.decPending /\ clk.decPending \in BOOLEAN
  BY IInvNoMissed, ClockFields
     DEF TakeInterrupt, LoopInv, IInv, TypeOK, ClockConservation, BatchAlive,
         NoMissedDecrementer
<1>2. /\ Retire(c, pendCycles + ExtraCycles, FALSE, FALSE, 0)
      /\ napping' = FALSE /\ ee' = FALSE /\ Waiting(clk)
      /\ pmPending' = (pmPending /\ (extIrqLine \/ clk.decPending))
      /\ UNCHANGED <<seen, halted>>
  BY DEF TakeInterrupt
<1>3. /\ c \in Clock /\ c.tb = clk.tb /\ c.cycleAccum = clk.cycleAccum
  BY <1>1 DEF Clock
<1>4. OneAtATime!Retire(SyncClock(c, pendCycles), ExtraCycles, FALSE)
  <2>1. /\ ExtraCycles \in Nat /\ ExtraCycles <= CyclesPerStep
        /\ pendCycles <= pendCycles
        /\ c.tb * CyclesPerTbTick + c.cycleAccum + pendCycles = total
    BY <1>1, <1>3, StepConstants
  <2> HIDE DEF c
  <2> QED
    BY <1>1, <1>2, <1>3, <2>1, RetireIsStep
<1>5. OneAtATime!Waiting(S)
  BY <1>1, <1>2 DEF Waiting, OneAtATime!Waiting
<1>6. Short(clk, pendCycles) /\ pendCycles <= DecHalf * CyclesPerTbTick
  <2>1. Short(clk, pendCycles + (left - 1) * CyclesPerStep)
    BY <1>1 DEF LoopInv, IInv, BatchShort
  <2>2. /\ (left - 1) * CyclesPerStep \in Nat /\ clk.cycleAccum \in Nat
        /\ (clk.dec + 1) * CyclesPerTbTick \in Nat
    BY <1>1, StepConstants, ClockFields
  <2> QED
    BY <1>1, <2>1, <2>2, PendBound DEF Short
<1>7. CASE extIrqLine
  <2>1. c = clk /\ pmPending' = pmPending
    BY <1>1, <1>2, <1>7
  <2>2. OneAtATime!Retire(S, ExtraCycles, FALSE)
    BY <1>4, <2>1
  <2> QED
    BY <1>1, <1>2, <1>5, <1>7, <2>1, <2>2 DEF OneAtATime!TakeInterrupt
<1>8. CASE ~extIrqLine /\ clk.decPending
  <2>1. c = [clk EXCEPT !.decPending = FALSE] /\ pmPending' = pmPending
    BY <1>1, <1>2, <1>8
  <2>2. SyncClock(c, pendCycles) = [S EXCEPT !.decPending = FALSE]
    BY <1>1, <1>6, <2>1, SyncCleared
  <2>3. OneAtATime!Retire([S EXCEPT !.decPending = FALSE], ExtraCycles, FALSE)
    BY <1>4, <2>2
  <2> QED
    BY <1>1, <1>2, <1>5, <1>8, <2>1, <2>3 DEF OneAtATime!TakeInterrupt
<1>9. CASE ~extIrqLine /\ ~clk.decPending
  <2>1. clk = [clk EXCEPT !.decPending = clk.decPending]
    BY <1>1 DEF Clock
  <2>2. clk.decPending = FALSE
    BY <1>1, <1>9
  <2>3. c = clk
    BY <1>9, <2>1, <2>2
  <2>4. pmPending' = FALSE
    BY <1>2, <1>9
  <2>5. OneAtATime!Retire(S, ExtraCycles, FALSE)
    BY <1>4, <2>3
  <2> QED
    BY <1>1, <1>2, <1>5, <1>9, <2>4, <2>5 DEF OneAtATime!TakeInterrupt
<1> QED
  BY <1>7, <1>8, <1>9

\* napSkip stays within the budget, stepsUntilDec and the device bound.
LEMMA NapSkipFacts ==
  ASSUME IInv, NapSkipSteps > 0
  PROVE  /\ NapSkipSteps \in Nat /\ NapSkipSteps <= budget
         /\ NapSkipSteps <= StepsUntilDec(clk, CyclesPerStep)
         /\ NapSkipSteps <= StepsUntilDevice
         /\ ~Waiting(clk) /\ due > clk.tb
<1> DEFINE D == StepsUntilDec(clk, CyclesPerStep)
           V == StepsUntilDevice
           s == Smaller(Smaller(budget, D), V)
<1>1. clk \in Clock /\ clk.tb \in Nat /\ due \in Nat /\ budget \in Nat
  BY ClockFields DEF IInv, TypeOK
<1>2. NapSkipSteps = s /\ ~Waiting(clk) /\ ~(due <= clk.tb)
  BY DEF NapSkipSteps
<1>3. V \in Nat
  <2>1. (due - clk.tb) * CyclesPerTbTick \in Nat
    BY <1>1, <1>2, StepConstants
  <2> QED
    BY <2>1, StepConstants, DivSplit DEF StepsUntilDevice
<1>4. D \in Nat
  BY <1>1, StepsUntilDecNat
<1> HIDE DEF D, V
<1>5. s \in Nat /\ s <= budget /\ s <= D /\ s <= V
  BY <1>1, <1>3, <1>4 DEF Smaller
<1> QED
  BY <1>1, <1>2, <1>5 DEF D, V

\* A nap skip is a run of sleeping steps none of which could have been
\* anything else: StepLoop's Sleep.
LEMMA NapSkipIsSleep ==
  ASSUME CyclesPerTbTick <= CyclesPerStep, LoopInv, NapSkip
  PROVE  OneAtATime!Sleep(NapSkipSteps)
<1> DEFINE n == NapSkipSteps
           H == DecHalf * CyclesPerTbTick
<1>1. /\ clk \in Clock /\ pendCycles = 0 /\ left = 0 /\ due \in Nat
      /\ budget \in Nat /\ budget <= MaxBudget /\ total \in Nat /\ IInv
      /\ SyncClock(clk, pendCycles) = clk
  BY DEF NapSkip, LoopInv, IInv, TypeOK, SyncClock
<1>2. /\ clk' = ClockAdvanceCycles(clk, n * CyclesPerStep)
      /\ ~halted /\ napping /\ n > 0
      /\ ServiceDevices(clk'.tb, FALSE)
      /\ UNCHANGED <<pendCycles, napping, ee, pmPending, seen, halted>>
  BY DEF NapSkip
<1>3. /\ n \in Nat /\ n <= budget /\ n <= StepsUntilDec(clk, CyclesPerStep)
      /\ n <= StepsUntilDevice /\ ~Waiting(clk) /\ due > clk.tb
  BY <1>1, <1>2, NapSkipFacts
<1> HIDE DEF n
<1>4. n \in Nat /\ 1 <= n /\ n <= MaxBudget
  BY <1>1, <1>2, <1>3, StepConstants
<1>5. n * CyclesPerStep \in Nat /\ n * CyclesPerStep <= H /\ H \in Nat
  <2>1. /\ n * CyclesPerStep <= MaxBudget * CyclesPerStep
        /\ n * CyclesPerStep \in Nat /\ MaxBudget * CyclesPerStep \in Nat
        /\ H \in Nat
    BY <1>4, StepConstants
  <2> QED
    BY <2>1, BatchFitsDecrementer
<1>6. Short(clk, (n - 1) * CyclesPerStep)
  BY <1>1, <1>3, <1>4, StepsUntilDecShort
<1>7. total + n * CyclesPerStep < (due + 1) * CyclesPerTbTick
  BY <1>1, <1>3, DeviceBound
<1>8. clk' = Tick(clk, n * CyclesPerStep)
  BY <1>1, <1>2, <1>5, SyncIsTick
<1>9. SyncClock(clk', pendCycles') = clk'
  BY <1>1, <1>2 DEF SyncClock
<1>10. OneAtATime!Service(clk'.tb, FALSE)
  BY <1>2, ServiceIsService
<1>11. OneAtATime!Retire(clk, n * CyclesPerStep, FALSE)
  BY <1>8, <1>9, <1>10, SameClock DEF OneAtATime!Retire
<1>12. ASSUME NEW k \in 0 .. (n - 1)
       PROVE  /\ ~OneAtATime!Waiting(Tick(clk, k * CyclesPerStep))
              /\ k > 0 => Tick(clk, k * CyclesPerStep).tb < due
  <2> DEFINE a == k * CyclesPerStep
             b == (n - 1 - k) * CyclesPerStep
             T == due * CyclesPerTbTick
  <2>1. k \in Nat /\ n - 1 - k \in Nat
    BY <1>4
  <2>2. /\ a \in Nat /\ b \in Nat /\ (n - 1) * CyclesPerStep = a + b
        /\ n * CyclesPerStep = a + b + CyclesPerStep
    BY <1>4, <2>1, StepConstants
  <2>3. Short(clk, a + b)
    BY <1>6, <2>2
  <2>4. a <= H
    <3> HIDE DEF a, b
    <3> QED
      BY <1>5, <2>2, StepConstants
  <2>5. Tick(clk, a).decPending = clk.decPending
    <3> HIDE DEF a, b
    <3> QED
      BY <1>1, <2>2, <2>3, TickShort
  <2>6. ~OneAtATime!Waiting(Tick(clk, a))
    <3> HIDE DEF a
    <3> QED
      BY <1>3, <2>5 DEF Waiting, OneAtATime!Waiting
  <2>7. Tick(clk, a).tb = TbNow(clk, a)
    <3>1. SyncClock(clk, a) = Tick(clk, a)
      BY <1>1, <2>2, <2>4, SyncIsTick
    <3>2. SyncClock(clk, a).tb = TbNow(clk, a)
      BY <1>1, <2>2, <2>4, SyncTb
    <3> QED
      BY <3>1, <3>2
  <2>8. clk.tb * CyclesPerTbTick + clk.cycleAccum + a < T
    <3>1. (due + 1) * CyclesPerTbTick = T + CyclesPerTbTick /\ T \in Nat
      BY <1>1, StepConstants
    <3>2. clk.tb * CyclesPerTbTick \in Nat /\ clk.cycleAccum \in Nat
      BY <1>1, ClockFields
    <3>3. clk.tb * CyclesPerTbTick + clk.cycleAccum = total
      BY <1>1, <3>2 DEF IInv, ClockConservation
    <3> HIDE DEF a, b, T
    <3> QED
      BY <1>1, <1>7, <2>2, <3>1, <3>2, <3>3, StepConstants
  <2>9. TbNow(clk, a) < due
    <3> HIDE DEF a
    <3> QED
      BY <1>1, <2>2, <2>8, TbNowBelow
  <2> HIDE DEF a
  <2>10. Tick(clk, a).tb < due
    BY <2>7, <2>9
  <2> QED
    BY <2>6, <2>10 DEF a
<1>13. \A k \in 0 .. (n - 1) :
         LET c == OneAtATime!Tick(clk, k * OneAtATime!CyclesPerStep)
         IN  ~OneAtATime!Waiting(c) /\ (k > 0 => c.tb < due)
  BY <1>12, SameClock
<1>14. OneAtATime!Retire(clk, n * OneAtATime!CyclesPerStep, FALSE)
  BY <1>11, SameClock
<1>15. OneAtATime!Sleep(n)
  BY <1>1, <1>2, <1>13, <1>14 DEF OneAtATime!Sleep
<1> QED
  BY <1>15 DEF n

\* Every step of the run loop that runs no instruction late is, with the owed
\* cycles applied, a step of StepLoop or none.
LEMMA NextIsStep ==
  ASSUME CyclesPerTbTick <= CyclesPerStep, LoopInv, [Next]_vars, late' <= late
  PROVE  [OneAtATime!Next]_(OneAtATime!vars)
<1>1. /\ late \in Nat /\ budget \in Nat /\ budget <= MaxBudget
      /\ line \in 0 .. (LineWords - 1) /\ IInv
  BY DEF LoopInv, IInv, TypeOK
<1>2. ASSUME UNCHANGED <<clk, pendCycles, napping, ee, extIrqLine, pmPending,
                         due, seen, halted>>
      PROVE  UNCHANGED OneAtATime!vars
  BY <1>2 DEF OneAtATime!vars
<1>3. CASE OpmRun
  BY <1>2, <1>3 DEF OpmRun
<1>4. CASE StartBatch
  BY <1>2, <1>4 DEF StartBatch
<1>5. CASE NapSkip
  <2>1. NapSkipSteps \in 1 .. MaxBudget
    <3>1. NapSkipSteps > 0
      BY <1>5 DEF NapSkip
    <3>2. NapSkipSteps \in Nat /\ NapSkipSteps <= budget
      BY <1>1, <3>1, NapSkipFacts
    <3> QED
      BY <1>1, <3>1, <3>2, StepConstants
  <2>2. OneAtATime!Sleep(NapSkipSteps)
    BY <1>5, NapSkipIsSleep
  <2> QED
    BY <2>1, <2>2 DEF OneAtATime!Next
<1>6. CASE TakeInterrupt
  BY <1>6, TakeIsTake DEF OneAtATime!Next
<1>7. CASE NapStep
  <2>1. OneAtATime!Sleep(1) /\ 1 \in 1 .. MaxBudget
    BY <1>7, NapStepIsSleep, StepConstants
  <2> QED
    BY <2>1 DEF OneAtATime!Next
<1>8. ASSUME NEW i \in Insns, NEW words, left > 0, ~napping, ExecRow(i, words)
      PROVE  OneAtATime!Next
  <2>1. ~Waiting(clk)
    <3> SUFFICES ASSUME Waiting(clk) PROVE FALSE
      OBVIOUS
    <3>1. late' = late + 1
      BY <1>8 DEF ExecRow
    <3> QED
      BY <1>1, <3>1
  <2>2. OneAtATime!Execute(i)
    BY <1>8, <2>1, ExecRowIsStep
  <2> QED
    BY <2>2 DEF OneAtATime!Next
<1>9. ASSUME NEW i \in Insns, SlowStep(i) PROVE OneAtATime!Next
  BY <1>8, <1>9 DEF SlowStep
<1>10. ASSUME NEW i \in Insns, EnterLine(i) PROVE OneAtATime!Next
  BY <1>8, <1>10 DEF EnterLine
<1>11. ASSUME NEW i \in Insns, LineStep(i) PROVE OneAtATime!Next
  <2>1. left > 0 /\ ~napping /\ ExecRow(i, line - 1)
    BY <1>11 DEF LineStep, LoopInv, LineAwake
  <2> QED
    BY <1>8, <2>1
<1>12. CASE UNCHANGED vars
  BY <1>2, <1>12 DEF vars
<1> QED
  BY <1>3, <1>4, <1>5, <1>6, <1>7, <1>9, <1>10, <1>11, <1>12 DEF Next

\* The run loop starts where StepLoop may start.
LEMMA InitIsInit == Init => OneAtATime!Init
<1> SUFFICES ASSUME Init PROVE OneAtATime!Init
  OBVIOUS
<1>1. SyncClock(clk, pendCycles) = clk
  BY DEF Init, SyncClock
<1>2. clk \in Clock /\ due \in Nat /\ seen \in Reading
  BY InitIInv DEF IInv, TypeOK
<1>3. OneAtATime!Reading = Reading
  BY DEF OneAtATime!Reading, Reading
<1> QED
  BY <1>1, <1>2, <1>3, SameClock DEF Init, OneAtATime!Init

\* pace.hpp, "why it is exact and not an approximation": under the same
\* condition on the clock the batching loop, with its owed cycles applied,
\* implements the machine that looks at the clock and the devices after every
\* instruction.
THEOREM BatchingIsExact ==
  ASSUME CyclesPerTbTick <= CyclesPerStep
  PROVE  Spec => ExactlyOneAtATime
<1>1. LoopInv /\ [Next]_vars
        => [late' <= late => [OneAtATime!Next]_(OneAtATime!vars)]_vars
  BY NextIsStep
<1> QED
  BY <1>1, InitIsInit, InitLoop, NextLoop, PTL DEF Spec, ExactlyOneAtATime
=============================================================================
