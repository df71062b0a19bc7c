----------------------------- MODULE HostPacer ------------------------------
(***************************************************************************)
(* HostPacer (machine/include/opm/hostclock.hpp): the guest's timebase     *)
(* driven by the host clock.  The pacer works from a fixed origin, moves   *)
(* the clock through Cpu::tick, forgives a long stall, and gives up its    *)
(* origin when somebody else has moved the timebase.                       *)
(*                                                                         *)
(* Host time is in nanoseconds and only ever grows (steady_clock).         *)
(***************************************************************************)
EXTENDS Timebase

CONSTANTS
  NsPerTick,   \* host nanoseconds per timebase tick (40)
  CatchupTb,   \* most ticks handed over by one sync (1,250,000)
  Elapses,     \* how long the host may take between two steps
  TbWrites,    \* values the guest, a reset or a snapshot gives the timebase
  StepCycles,  \* cycles of one instruction-paced stretch
  MaxNow       \* bound: the host time at which the run ends

ASSUME PacerConstants ==
  /\ NsPerTick \in Nat \ {0} /\ CatchupTb \in Nat \ {0}
  /\ Elapses \subseteq Nat \ {0}
  /\ TbWrites \subseteq Nat
  /\ StepCycles \in Nat /\ MaxNow \in Nat

VARIABLES
  now,                     \* the host's steady clock
  clk,                     \* the guest's clock
  realtime,                \* OpmMachine::realtime
  base, tbBase, lastTb,    \* the pacer's origin, and what it last left
  fresh,                   \* history: no step since the last sync
  h0, t0,                  \* history: when, and to what, TB was last set by
                           \* somebody else
  moved, slipped           \* history: set since the last sync; time forgiven
                           \* since h0

pacer == <<base, tbBase, lastTb>>
history == <<h0, t0, moved, slipped>>
vars == <<now, clk, realtime, pacer, fresh, history>>

\* opm_create: a new machine, instruction-paced until told otherwise.
Init ==
  /\ now = 0
  /\ clk = [tb |-> 0, dec |-> DecModulus - 1, cycleAccum |-> 0,
            decPending |-> FALSE]
  /\ realtime = FALSE
  /\ base = 0 /\ tbBase = 0 /\ lastTb = 0
  /\ fresh = FALSE
  /\ h0 = 0 /\ t0 = 0 /\ moved = FALSE /\ slipped = FALSE

\* Host time passes, whatever this process is doing.
Elapse(ns) ==
  /\ now + ns <= MaxNow
  /\ now' = now + ns /\ fresh' = FALSE
  /\ UNCHANGED <<clk, realtime, pacer, history>>

\* opm_set_realtime, HostPacer::anchor: the origin is where the clock is.
SetRealtime(on) ==
  /\ realtime' = on
  /\ base' = now /\ tbBase' = clk.tb /\ lastTb' = clk.tb
  /\ h0' = now /\ t0' = clk.tb /\ moved' = FALSE /\ slipped' = FALSE
  /\ fresh' = FALSE
  /\ UNCHANGED <<now, clk>>

\* mtspr TBL/TBU, a reset or a restored snapshot.  A guest's write ends its
\* batch, so under real time a sync comes before the next one.
MoveTb(v) ==
  /\ v # clk.tb /\ (realtime => ~moved)
  /\ clk' = WriteTb(clk, v)
  /\ t0' = v /\ moved' = TRUE /\ fresh' = FALSE
  /\ UNCHANGED <<now, realtime, pacer, h0, slipped>>

\* With real time off the clock is made of instructions.
InstructionPaced ==
  /\ ~realtime /\ clk.tb < MaxNow \div NsPerTick
  /\ clk' = Tick(clk, StepCycles)
  /\ fresh' = FALSE
  /\ UNCHANGED <<now, realtime, pacer, history>>

\* The timebase the host clock calls for.
Want == tbBase + ((now - base) \div NsPerTick)

\* Mutant: the pacer never notices that the clock was moved.
RebaseNever ==
  /\ clk.tb # lastTb
  /\ lastTb' = clk.tb
  /\ UNCHANGED <<clk, base, tbBase>>

\* HostPacer::sync.  The clock is not where the pacer left it: its value is
\* the new origin, and no time has passed against it yet.
Rebase ==
  /\ clk.tb # lastTb
  /\ base' = now /\ tbBase' = clk.tb /\ lastTb' = clk.tb
  /\ UNCHANGED clk

\* The host has not advanced a whole tick.
NothingDue ==
  /\ clk.tb = lastTb /\ Want <= clk.tb
  /\ UNCHANGED <<clk, pacer>>

\* Hand over everything that is due, through Cpu::tick; the origin stays.
HandOver ==
  /\ clk.tb = lastTb /\ Want > clk.tb /\ Want - clk.tb <= CatchupTb
  /\ clk' = Tick(clk, (Want - clk.tb) * CyclesPerTbTick)
  /\ lastTb' = clk'.tb
  /\ UNCHANGED <<base, tbBase>>

\* Mutant: the time handed over is added to the origin twice.
SlipOriginAhead ==
  /\ clk.tb = lastTb /\ Want > clk.tb /\ Want - clk.tb > CatchupTb
  /\ clk' = Tick(clk, CatchupTb * CyclesPerTbTick)
  /\ lastTb' = clk'.tb /\ base' = now + CatchupTb * NsPerTick
  /\ tbBase' = clk.tb + CatchupTb

\* The host stalled: hand over the cap and forgive the rest.
Slip ==
  /\ clk.tb = lastTb /\ Want > clk.tb /\ Want - clk.tb > CatchupTb
  /\ clk' = Tick(clk, CatchupTb * CyclesPerTbTick)
  /\ lastTb' = clk'.tb /\ base' = now /\ tbBase' = clk.tb + CatchupTb

\* The history's view of a sync: the first one after somebody else moved the
\* timebase is when host time starts to count again.
NoteSync(forgave) ==
  /\ h0' = IF moved THEN now ELSE h0
  /\ moved' = FALSE
  /\ slipped' = (forgave \/ (slipped /\ ~moved))
  /\ fresh' = TRUE
  /\ UNCHANGED <<now, realtime, t0>>

Sync ==
  /\ realtime
  /\ \/ (Rebase \/ NothingDue \/ HandOver) /\ NoteSync(FALSE)
     \/ Slip /\ NoteSync(TRUE)

Next ==
  \/ \E ns \in Elapses : Elapse(ns)
  \/ \E on \in BOOLEAN : SetRealtime(on)
  \/ \E v \in TbWrites : MoveTb(v)
  \/ InstructionPaced
  \/ Sync

Spec == Init /\ [][Next]_vars
-----------------------------------------------------------------------------
\* Type invariant.
TypeOK ==
  /\ now \in Nat /\ clk \in Clock /\ realtime \in BOOLEAN
  /\ base \in 0 .. now /\ tbBase \in Nat /\ lastTb \in Nat
  /\ fresh \in BOOLEAN /\ moved \in BOOLEAN /\ slipped \in BOOLEAN
  /\ h0 \in 0 .. now /\ t0 \in Nat

\* A guest second is a real second: at every sync the timebase has advanced by
\* exactly the host time since somebody else last set it, with no rounding
\* error carried from sample to sample and however the guest moved it; by no
\* more than that once a stall has been forgiven.
PacedByHost ==
  fresh => LET real == t0 + ((now - h0) \div NsPerTick)
           IN  IF slipped THEN clk.tb <= real ELSE clk.tb = real

\* Why PacedByHost holds: while the pacer owns the clock its origin is the one
\* the last outside write set, or, after a stall, one that gave time away.
PacerInv ==
  realtime =>
    IF moved
    THEN clk.tb # lastTb /\ t0 = clk.tb
    ELSE /\ clk.tb = lastTb /\ lastTb <= Want
         /\ h0 <= base
         /\ IF slipped THEN tbBase <= t0 + ((base - h0) \div NsPerTick)
                       ELSE base = h0 /\ tbBase = t0

IInv == TypeOK /\ PacerInv /\ PacedByHost
-----------------------------------------------------------------------------
(* A guest second is a real second, for every value of the constants. *)

\* Whole ticks of two stretches never exceed the whole ticks of their sum.
LEMMA DivSuper ==
  ASSUME NEW a \in Nat, NEW b \in Nat, NEW k \in Nat \ {0}
  PROVE  (a \div k) + (b \div k) <= (a + b) \div k
<1> DEFINE p == a \div k
           q == b \div k
           s == (a + b) \div k
<1>1. /\ p \in Nat /\ a >= p * k
      /\ q \in Nat /\ b >= q * k
  BY DivSplit
<1>2. /\ s \in Nat /\ a + b < s * k + k
  <2>1. a + b \in Nat
    OBVIOUS
  <2>2. /\ s \in Nat /\ (a + b) % k \in 0 .. (k - 1)
        /\ a + b = s * k + ((a + b) % k)
    BY <2>1, DivSplit
  <2>3. s * k \in Nat
    BY <2>2
  <2> QED
    BY <2>2, <2>3
<1>3. SUFFICES ASSUME p + q >= s + 1 PROVE FALSE
  BY <1>1, <1>2
<1> HIDE DEF p, q, s
<1>4. (p + q) * k >= (s + 1) * k
  BY <1>1, <1>2, <1>3
<1>5. (p + q) * k = p * k + q * k /\ (s + 1) * k = s * k + k
  BY <1>1, <1>2
<1>6. p * k \in Nat /\ q * k \in Nat /\ s * k \in Nat
  BY <1>1, <1>2
<1> QED
  BY <1>1, <1>2, <1>4, <1>5, <1>6

\* tick() of whole ticks moves the timebase by exactly that many: the fraction
\* already accumulated neither adds a tick nor is lost.
LEMMA TickWholeTicks ==
  ASSUME NEW c \in Clock, NEW n \in Nat \ {0}
  PROVE  /\ Tick(c, n * CyclesPerTbTick) \in Clock
         /\ Tick(c, n * CyclesPerTbTick).tb = c.tb + n
<1> DEFINE m == n * CyclesPerTbTick
<1>1. /\ m \in Nat /\ m >= CyclesPerTbTick
      /\ c.cycleAccum \in Nat /\ c.cycleAccum < CyclesPerTbTick
      /\ c.tb \in Nat /\ CyclesPerTbTick \in Nat \ {0}
  BY ClockFields
<1>2. Tick(c, m) \in Clock
  BY <1>1, TickFacts
<1>3. PICK q \in Nat, r \in 0 .. (CyclesPerTbTick - 1) :
        /\ Tick(c, m) = TickWhole(c, q, r)
        /\ c.cycleAccum + m = q * CyclesPerTbTick + r
  BY <1>1, TickCases
<1>4. q = n
  <2>1. q * CyclesPerTbTick \in Nat
    BY <1>1
  <2>2. ASSUME q >= n + 1 PROVE FALSE
    <3>1. q * CyclesPerTbTick >= (n + 1) * CyclesPerTbTick
      BY <1>1, <2>2
    <3>2. (n + 1) * CyclesPerTbTick = m + CyclesPerTbTick
      BY <1>1
    <3> QED
      BY <1>1, <1>3, <2>1, <3>1, <3>2
  <2>3. ASSUME n >= q + 1 PROVE FALSE
    <3>1. n * CyclesPerTbTick >= (q + 1) * CyclesPerTbTick
      BY <1>1, <2>3
    <3>2. (q + 1) * CyclesPerTbTick = q * CyclesPerTbTick + CyclesPerTbTick
      BY <1>1
    <3> QED
      BY <1>1, <1>3, <2>1, <3>1, <3>2
  <2> QED
    BY <2>2, <2>3
<1>5. TickWhole(c, q, r).tb = c.tb + q
  BY DEF TickWhole
<1> QED
  BY <1>2, <1>3, <1>4, <1>5

\* The target of a sync is a timebase value.
LEMMA WantNat ==
  ASSUME TypeOK
  PROVE  /\ (now - base) \div NsPerTick \in Nat
         /\ Want \in Nat
<1>1. now - base \in Nat /\ NsPerTick \in Nat \ {0}
  BY PacerConstants DEF TypeOK
<1>2. (now - base) \div NsPerTick \in Nat
  BY <1>1, DivSplit
<1> QED
  BY <1>2 DEF Want, TypeOK

\* What the host clock calls for is never more than the real time since h0.
LEMMA WantIsReal ==
  ASSUME TypeOK, PacerInv, realtime, ~moved
  PROVE  /\ Want <= t0 + ((now - h0) \div NsPerTick)
         /\ ~slipped => Want = t0 + ((now - h0) \div NsPerTick)
<1>1. CASE ~slipped
  <2>1. base = h0 /\ tbBase = t0
    BY <1>1 DEF PacerInv
  <2> QED
    BY <2>1, WantNat DEF Want
<1>2. CASE slipped
  <2> DEFINE a == base - h0
             b == now - base
  <2>1. /\ a \in Nat /\ b \in Nat /\ a + b = now - h0
        /\ NsPerTick \in Nat \ {0}
    BY PacerConstants DEF PacerInv, TypeOK
  <2>2. (a \div NsPerTick) + (b \div NsPerTick) <= (a + b) \div NsPerTick
    BY <2>1, DivSuper
  <2>3. /\ a \div NsPerTick \in Nat /\ b \div NsPerTick \in Nat
        /\ (now - h0) \div NsPerTick \in Nat
    BY <2>1, DivSplit
  <2>4. tbBase <= t0 + (a \div NsPerTick)
    BY <1>2 DEF PacerInv
  <2>5. t0 \in Nat /\ tbBase \in Nat
    BY DEF TypeOK
  <2>6. Want = tbBase + (b \div NsPerTick)
    BY DEF Want
  <2>7. (a + b) \div NsPerTick = (now - h0) \div NsPerTick
    BY <2>1
  <2> HIDE DEF a, b
  <2> QED
    BY <1>2, <2>2, <2>3, <2>4, <2>5, <2>6, <2>7
<1> QED
  BY <1>1, <1>2

\* A new machine satisfies the invariant.
LEMMA InitIInv == Init => IInv
<1> SUFFICES ASSUME Init PROVE IInv
  OBVIOUS
<1>1. clk \in Clock
  <2>1. /\ DecModulus - 1 \in 0 .. (DecModulus - 1)
        /\ 0 \in 0 .. (CyclesPerTbTick - 1)
    BY ClockConstants DEF DecModulus
  <2> QED
    BY <2>1 DEF Init, Clock
<1>2. /\ now \in Nat /\ base \in 0 .. now /\ tbBase \in Nat
      /\ lastTb \in Nat /\ h0 \in 0 .. now /\ t0 \in Nat
  BY DEF Init
<1>3. {realtime, fresh, moved, slipped} \subseteq BOOLEAN
  BY DEF Init
<1>4. TypeOK
  BY <1>1, <1>2, <1>3 DEF TypeOK
<1> QED
  BY <1>4 DEF Init, IInv, PacerInv, PacedByHost

\* Later is never fewer ticks.
LEMMA DivMono ==
  ASSUME NEW a \in Nat, NEW b \in Nat, a <= b, NEW k \in Nat \ {0}
  PROVE  /\ a \div k \in Nat /\ b \div k \in Nat
         /\ a \div k <= b \div k
<1>1. b - a \in Nat /\ a + (b - a) = b
  OBVIOUS
<1>2. (a \div k) + ((b - a) \div k) <= (a + (b - a)) \div k
  BY <1>1, DivSuper
<1>3. a \div k \in Nat /\ (b - a) \div k \in Nat /\ b \div k \in Nat
  BY <1>1, DivSplit
<1>4. (a \div k) + ((b - a) \div k) <= b \div k
  BY <1>1, <1>2
<1> QED
  BY <1>3, <1>4

\* Host time moves the target forward and nothing else.
LEMMA ElapseIInv ==
  ASSUME IInv, NEW ns \in Elapses, Elapse(ns)
  PROVE  IInv'
<1>1. /\ ns \in Nat /\ now \in Nat /\ now' = now + ns
      /\ base \in Nat /\ base <= now /\ h0 \in Nat /\ h0 <= now
      /\ tbBase \in Nat /\ lastTb \in Nat /\ NsPerTick \in Nat \ {0}
  BY PacerConstants DEF IInv, TypeOK, Elapse
<1>2. /\ UNCHANGED <<clk, realtime, base, tbBase, lastTb, h0, t0, moved, slipped>>
      /\ fresh' = FALSE
  BY DEF Elapse, pacer, history
<1>3. TypeOK'
  <2>1. (/\ now \in Nat /\ base \in 0 .. now /\ tbBase \in Nat
         /\ lastTb \in Nat /\ h0 \in 0 .. now /\ t0 \in Nat)'
    BY <1>1, <1>2 DEF IInv, TypeOK
  <2>2. (clk \in Clock /\ {realtime, fresh, moved, slipped} \subseteq BOOLEAN)'
    BY <1>2 DEF IInv, TypeOK
  <2> QED
    BY <2>1, <2>2 DEF TypeOK
<1>4. PacedByHost'
  BY <1>2 DEF PacedByHost
<1>5. Want <= Want' /\ Want \in Nat /\ Want' \in Nat
  <2>1. /\ now - base \in Nat /\ now' - base \in Nat
        /\ now - base <= now' - base
    BY <1>1
  <2>2. /\ (now - base) \div NsPerTick \in Nat
        /\ (now' - base) \div NsPerTick \in Nat
        /\ (now - base) \div NsPerTick <= (now' - base) \div NsPerTick
    BY <1>1, <2>1, DivMono
  <2> QED
    BY <1>1, <1>2, <2>2 DEF Want
<1>6. PacerInv'
  BY <1>1, <1>2, <1>5 DEF IInv, PacerInv
<1> QED
  BY <1>3, <1>4, <1>6 DEF IInv

\* Anchoring takes the clock as it is.
LEMMA SetRealtimeIInv ==
  ASSUME IInv, NEW on \in BOOLEAN, SetRealtime(on)
  PROVE  IInv'
<1>1. /\ now \in Nat /\ clk \in Clock /\ clk.tb \in Nat
      /\ NsPerTick \in Nat \ {0}
  BY ClockFields, PacerConstants DEF IInv, TypeOK
<1>2. TypeOK'
  <2>1. (/\ now \in Nat /\ base \in 0 .. now /\ tbBase \in Nat
         /\ lastTb \in Nat /\ h0 \in 0 .. now /\ t0 \in Nat)'
    BY <1>1 DEF SetRealtime
  <2>2. (clk \in Clock /\ {realtime, fresh, moved, slipped} \subseteq BOOLEAN)'
    BY <1>1 DEF SetRealtime
  <2> QED
    BY <2>1, <2>2 DEF TypeOK
<1>3. PacedByHost'
  BY DEF SetRealtime, PacedByHost
<1>4. clk.tb <= Want'
  <2>1. now' - base' = 0 /\ 0 \div NsPerTick \in Nat
    BY <1>1, DivSplit DEF SetRealtime
  <2> QED
    BY <1>1, <2>1 DEF Want, SetRealtime
<1>5. PacerInv'
  BY <1>1, <1>4 DEF SetRealtime, PacerInv
<1> QED
  BY <1>2, <1>3, <1>5 DEF IInv

\* Somebody else's write is noticed: it differs from what the pacer left.
LEMMA MoveTbIInv ==
  ASSUME IInv, NEW v \in TbWrites, MoveTb(v)
  PROVE  IInv'
<1>1. v \in Nat /\ clk \in Clock
  BY PacerConstants DEF IInv, TypeOK
<1>2. clk' \in Clock /\ clk'.tb = v
  BY <1>1, ClockFields DEF MoveTb, WriteTb, Clock
<1>3. /\ UNCHANGED <<now, realtime, base, tbBase, lastTb, h0, slipped>>
      /\ t0' = v /\ moved' = TRUE /\ fresh' = FALSE
      /\ v # clk.tb /\ (realtime => ~moved)
  BY DEF MoveTb, pacer
<1>4. TypeOK'
  BY <1>1, <1>2, <1>3 DEF IInv, TypeOK
<1>5. PacedByHost'
  BY <1>3 DEF PacedByHost
<1>6. PacerInv'
  BY <1>2, <1>3 DEF IInv, PacerInv
<1> QED
  BY <1>4, <1>5, <1>6 DEF IInv

\* With real time off the pacer claims nothing.
LEMMA InstructionPacedIInv ==
  ASSUME IInv, InstructionPaced
  PROVE  IInv'
<1>1. clk' \in Clock
  BY TickFacts, PacerConstants DEF IInv, TypeOK, InstructionPaced
<1>2. TypeOK'
  BY <1>1 DEF IInv, TypeOK, InstructionPaced, pacer, history
<1> QED
  BY <1>2 DEF IInv, PacerInv, PacedByHost, InstructionPaced

\* What each arm of sync leaves behind: the clock moved by whole ticks through
\* tick(), exactly at the target or short of it by what was forgiven.
LEMMA SyncArms ==
  ASSUME IInv, realtime, Rebase \/ NothingDue \/ HandOver \/ Slip
  PROVE  /\ clk' \in Clock
         /\ \/ Rebase /\ moved
            \/ ~moved /\ (NothingDue \/ HandOver) /\ clk'.tb = Want
            \/ ~moved /\ Slip /\ clk'.tb = clk.tb + CatchupTb
                      /\ clk'.tb <= Want
<1>1. /\ TypeOK /\ PacerInv /\ clk \in Clock /\ clk.tb \in Nat
      /\ CatchupTb \in Nat \ {0} /\ Want \in Nat
  BY ClockFields, PacerConstants, WantNat DEF IInv, TypeOK
<1>2. clk.tb # lastTb <=> moved
  BY <1>1 DEF PacerInv
<1>3. CASE Rebase
  BY <1>1, <1>2, <1>3 DEF Rebase
<1>4. CASE NothingDue
  <2>1. ~moved /\ Want <= clk.tb /\ clk' = clk
    BY <1>2, <1>4 DEF NothingDue
  <2>2. clk.tb <= Want
    BY <1>1, <2>1 DEF PacerInv
  <2> QED
    BY <1>1, <1>4, <2>1, <2>2
<1>5. CASE HandOver
  <2>1. /\ ~moved /\ Want - clk.tb \in Nat \ {0}
        /\ clk' = Tick(clk, (Want - clk.tb) * CyclesPerTbTick)
    BY <1>1, <1>2, <1>5 DEF HandOver
  <2>2. clk' \in Clock /\ clk'.tb = clk.tb + (Want - clk.tb)
    BY <1>1, <2>1, TickWholeTicks
  <2> QED
    BY <1>1, <1>5, <2>1, <2>2
<1>6. CASE Slip
  <2>1. /\ ~moved /\ Want - clk.tb > CatchupTb
        /\ clk' = Tick(clk, CatchupTb * CyclesPerTbTick)
    BY <1>2, <1>6 DEF Slip
  <2>2. clk' \in Clock /\ clk'.tb = clk.tb + CatchupTb
    BY <1>1, <2>1, TickWholeTicks
  <2> QED
    BY <1>1, <1>6, <2>1, <2>2
<1> QED
  BY <1>3, <1>4, <1>5, <1>6

\* A sync leaves the clock where real time says, and remembers that it did.
LEMMA SyncIInv ==
  ASSUME IInv, Sync
  PROVE  IInv'
<1>1. /\ realtime /\ fresh' = TRUE /\ moved' = FALSE
      /\ UNCHANGED <<now, realtime, t0>>
      /\ h0' = IF moved THEN now ELSE h0
  BY DEF Sync, NoteSync
<1>2. /\ now \in Nat /\ t0 \in Nat /\ h0 \in Nat /\ h0 <= now
      /\ base \in Nat /\ base <= now /\ tbBase \in Nat /\ lastTb \in Nat
      /\ NsPerTick \in Nat \ {0} /\ CatchupTb \in Nat \ {0}
      /\ clk.tb \in Nat /\ Want \in Nat
      /\ TypeOK /\ PacerInv
  BY ClockFields, PacerConstants, WantNat DEF IInv, TypeOK
<1>3. 0 \div NsPerTick = 0
  <2>1. /\ 0 \div NsPerTick \in Nat /\ 0 % NsPerTick \in 0 .. (NsPerTick - 1)
        /\ 0 = (0 \div NsPerTick) * NsPerTick + (0 % NsPerTick)
    BY <1>2, DivSplit
  <2>2. SUFFICES ASSUME 0 \div NsPerTick >= 1 PROVE FALSE
    BY <2>1
  <2>3. (0 \div NsPerTick) * NsPerTick >= NsPerTick
    BY <1>2, <2>1, <2>2
  <2> QED
    BY <1>2, <2>1, <2>3
<1>4. CASE Rebase /\ moved /\ clk' \in Clock
  <2>1. /\ clk' = clk /\ base' = now /\ tbBase' = clk.tb /\ lastTb' = clk.tb
        /\ t0 = clk.tb /\ h0' = now /\ slipped' = FALSE
    <3>1. slipped' = FALSE
      <4>1. ~Slip
        BY <1>4 DEF Rebase, Slip
      <4> QED
        BY <1>4, <4>1 DEF Sync, NoteSync
    <3>2. t0 = clk.tb
      BY <1>1, <1>2, <1>4 DEF PacerInv
    <3> QED
      BY <1>1, <1>4, <3>1, <3>2 DEF Rebase
  <2>2. now' - h0' = 0 /\ now' - base' = 0
    BY <1>1, <1>2, <2>1
  <2>3. Want' = clk.tb
    BY <1>2, <1>3, <2>1, <2>2 DEF Want
  <2>4. PacerInv'
    BY <1>1, <1>2, <2>1, <2>3 DEF PacerInv
  <2>5. PacedByHost'
    BY <1>1, <1>2, <1>3, <2>1, <2>2 DEF PacedByHost
  <2>6. (/\ now \in Nat /\ base \in 0 .. now /\ tbBase \in Nat
         /\ lastTb \in Nat /\ h0 \in 0 .. now /\ t0 \in Nat)'
    BY <1>1, <1>2, <2>1
  <2>7. ({realtime, fresh, moved, slipped} \subseteq BOOLEAN)'
    BY <1>1, <2>1
  <2>8. TypeOK'
    BY <1>4, <2>6, <2>7 DEF TypeOK
  <2> QED
    BY <2>4, <2>5, <2>8 DEF IInv
<1>5. CASE ~moved /\ (NothingDue \/ HandOver) /\ clk'.tb = Want /\ clk' \in Clock
  <2>1. /\ UNCHANGED <<base, tbBase, h0>> /\ lastTb' = clk'.tb
        /\ slipped' = slipped
    <3>1. UNCHANGED <<base, tbBase>> /\ lastTb' = clk'.tb
      BY <1>5 DEF NothingDue, HandOver, pacer
    <3>2. slipped \in BOOLEAN
      BY <1>2 DEF TypeOK
    <3>3. ~Slip
      BY <1>2, <1>5 DEF NothingDue, HandOver, Slip
    <3>4. slipped' = slipped
      BY <1>5, <3>2, <3>3 DEF Sync, NoteSync
    <3> QED
      BY <1>1, <1>5, <3>1, <3>4
  <2>2. Want' = Want
    BY <1>1, <2>1 DEF Want
  <2>3. PacerInv'
    BY <1>1, <1>2, <1>5, <2>1, <2>2 DEF PacerInv
  <2>4. PacedByHost'
    BY <1>1, <1>2, <1>5, <2>1, WantIsReal DEF PacedByHost
  <2>5. (/\ now \in Nat /\ base \in 0 .. now /\ tbBase \in Nat
         /\ lastTb \in Nat /\ h0 \in 0 .. now /\ t0 \in Nat)'
    BY <1>1, <1>2, <1>5, <2>1
  <2>6. ({realtime, fresh, moved, slipped} \subseteq BOOLEAN)'
    BY <1>1, <1>2, <2>1 DEF TypeOK
  <2>7. TypeOK'
    BY <1>5, <2>5, <2>6 DEF TypeOK
  <2> QED
    BY <2>3, <2>4, <2>7 DEF IInv
<1>6. CASE /\ ~moved /\ Slip /\ clk'.tb = clk.tb + CatchupTb
           /\ clk'.tb <= Want /\ clk' \in Clock
  <2>1. /\ base' = now /\ tbBase' = clk'.tb /\ lastTb' = clk'.tb
        /\ h0' = h0 /\ slipped' = TRUE
    <3>1. slipped' = TRUE
      <4>1. ~Rebase /\ ~NothingDue /\ ~HandOver
        BY <1>2, <1>6 DEF Slip, Rebase, NothingDue, HandOver
      <4> QED
        BY <1>6, <4>1 DEF Sync, NoteSync
    <3> QED
      BY <1>1, <1>6, <3>1 DEF Slip
  <2>2. Want <= t0 + ((now - h0) \div NsPerTick)
    BY <1>1, <1>2, <1>6, WantIsReal
  <2>3. /\ now' - base' = 0 /\ now' - h0' = now - h0
        /\ base' - h0' = now - h0
    BY <1>1, <1>2, <2>1
  <2>4. Want' = clk'.tb
    BY <1>2, <1>3, <1>6, <2>1, <2>3 DEF Want
  <2>5. /\ clk'.tb \in Nat /\ (now - h0) \div NsPerTick \in Nat
        /\ clk'.tb <= t0 + ((now - h0) \div NsPerTick)
    <3>1. now - h0 \in Nat
      BY <1>2
    <3>2. (now - h0) \div NsPerTick \in Nat
      BY <1>2, <3>1, DivSplit
    <3> QED
      BY <1>2, <1>6, <2>2, <3>2
  <2>6. PacerInv'
    BY <1>1, <1>2, <2>1, <2>3, <2>4, <2>5 DEF PacerInv
  <2>7. PacedByHost'
    BY <1>1, <2>1, <2>3, <2>5 DEF PacedByHost
  <2>8. (/\ now \in Nat /\ base \in 0 .. now /\ tbBase \in Nat
         /\ lastTb \in Nat /\ h0 \in 0 .. now /\ t0 \in Nat)'
    BY <1>1, <1>2, <2>1, <2>5
  <2>9. ({realtime, fresh, moved, slipped} \subseteq BOOLEAN)'
    BY <1>1, <2>1
  <2>10. TypeOK'
    BY <1>6, <2>8, <2>9 DEF TypeOK
  <2> QED
    BY <2>6, <2>7, <2>10 DEF IInv
<1>7. Rebase \/ NothingDue \/ HandOver \/ Slip
  BY DEF Sync
<1> QED
  BY <1>1, <1>4, <1>5, <1>6, <1>7, SyncArms

\* Every step keeps the invariant.
LEMMA NextIInv == IInv /\ [Next]_vars => IInv'
<1> SUFFICES ASSUME IInv, [Next]_vars PROVE IInv'
  OBVIOUS
<1>1. CASE Next
  BY <1>1, ElapseIInv, SetRealtimeIInv, MoveTbIInv, InstructionPacedIInv,
     SyncIInv DEF Next
<1>2. CASE UNCHANGED vars
  BY <1>2 DEF vars, pacer, history, IInv, TypeOK, PacerInv, PacedByHost, Want
<1> QED
  BY <1>1, <1>2

\* The pacer's state is well formed: its origin is never in the future.
THEOREM TypeSafe == Spec => []TypeOK
<1>1. IInv => TypeOK
  BY DEF IInv
<1> QED
  BY <1>1, InitIInv, NextIInv, PTL DEF Spec

\* A guest second is a real second (HostPacer::sync), whatever the guest writes
\* to the timebase, however the host's samples fall and for any tick length:
\* the property PacedByHost holds in every state of every behaviour.
THEOREM GuestSecondIsReal == Spec => []PacedByHost
<1>1. IInv => PacedByHost
  BY DEF IInv
<1> QED
  BY <1>1, InitIInv, NextIInv, PTL DEF Spec
=============================================================================
