------------------------------- MODULE VBlank -------------------------------
(***************************************************************************)
(* The vertical blank of the Rage 128 (machine/src/r128.cpp) behind the    *)
(* device gate of the machine loop (Sawtooth::serviceDevices,              *)
(* machine/include/opm/sawtooth.hpp). The processor runs ahead of the      *)
(* devices by a batch; a register access sets the devices' clock first     *)
(* (noteNow); between accesses the devices are looked at only when the     *)
(* published deadline has come. A second copy of the display is ticked at  *)
(* every opportunity: it is what the gate has to be indistinguishable from.*)
(***************************************************************************)
EXTENDS Integers, TLAPS

CONSTANTS Period,     \* timebase ticks of a frame (vblPeriod)
          Advances,   \* ticks one instruction may take
          Jumps,      \* ticks a write of TB may move it (a set of naturals)
          MaxTb,      \* bound on the timebase
          MaxWrites   \* bound on register and TB writes

VARIABLES tb,      \* the processor's timebase
          dev,     \* the display: next, now, en, st
          ref,     \* the display of a machine without the gate
          gate,    \* gen, seen, due, irq
          unserviced,    \* instructions have run that the loop has not serviced
          armAt,   \* timebase of the last arm
          latchAt, \* timebase from which the standing request is counted
          back,    \* ticks TB was moved back since the blank was scheduled
          writes   \* register and TB writes so far

blankVars == <<tb, dev, ref, gate, unserviced, armAt, latchAt, back, writes>>

Never == 2 * MaxTb + Period    \* ~0ull: later than any deadline
-----------------------------------------------------------------------------
(* noteTb.                                                                  *)
Note(d, t) == [d EXCEPT !.now = t]

(* Mutant: the expiry is left out of the deadline. *)
NextTickBlank(d) == IF d.next = 0 THEN Never ELSE d.next

(* Mutant: a parked clock is given an expiry too. *)
NextTickParked(d) ==
  LET expiry == (d.next - Period) + (Period \div 4) + 1
  IN  IF d.st /\ expiry < d.next THEN expiry ELSE d.next

(* nextTickTb: the blank, or the expiry of the one that stands.             *)
NextTick(d) ==
  LET expiry == (d.next - Period) + (Period \div 4) + 1
  IN  CASE d.next = 0 -> Never
        [] d.next # 0 /\ d.st /\ d.next >= Period /\ expiry < d.next -> expiry
        [] d.next # 0 /\ ~(d.st /\ d.next >= Period /\ expiry < d.next) -> d.next

(* Mutant: nothing expires. *)
ExpiredNever(d, t) == d

(* tick: an unanswered request expires a quarter of a frame after it stood; *)
(* a due blank is latched once and the clock re-based, never replayed.      *)
Expired(d, t) ==
  IF d.st /\ d.next >= Period /\ t > (d.next - Period) + (Period \div 4)
  THEN [d EXCEPT !.st = FALSE] ELSE d

Tick(d, t) ==
  LET n == Note(d, t)
      e == Expired(n, t)
  IN  CASE d.next = 0 -> n
        [] d.next # 0 /\ t < d.next  -> e
        [] d.next # 0 /\ t >= d.next -> [e EXCEPT !.next = t + Period, !.st = @ \/ e.en]

(* Mutant: arming again pushes the blank a frame further out. *)
WriteCntlPush(d, arm) ==
  [d EXCEPT !.en = arm,
            !.next = IF ~arm THEN 0 ELSE IF d.next = 0 THEN d.now + Period ELSE d.next + Period]

(* write, GEN_INT_CNTL: arming schedules the first blank a whole frame out, *)
(* disarming parks the clock. Arming again while armed moves nothing.       *)
WriteCntl(d, arm) ==
  [d EXCEPT !.en = arm,
            !.next = CASE arm /\ d.next = 0  -> d.now + Period
                       [] arm /\ d.next # 0  -> d.next
                       [] ~arm               -> 0]

(* write, GEN_INT_STATUS: write one to clear.                               *)
WriteStatus(d, ack) == [d EXCEPT !.st = @ /\ ~ack]

(* irqLine: a level, while an enabled source stands latched.                *)
IrqLine(d) == d.en /\ d.st
-----------------------------------------------------------------------------
BlankInit ==
  /\ tb = 0
  /\ dev = [next |-> 0, now |-> 0, en |-> FALSE, st |-> FALSE]
  /\ ref = dev
  /\ gate = [gen |-> FALSE, due |-> 0, irq |-> FALSE]
  /\ unserviced = FALSE
  /\ armAt = 0 /\ latchAt = 0 /\ back = 0 /\ writes = 0

(* An instruction that touches no device: time passes.                      *)
Instruction ==
  \E n \in Advances :
    /\ tb + n <= MaxTb
    /\ tb' = tb + n
    /\ unserviced' = TRUE
    /\ UNCHANGED <<dev, ref, gate, armAt, latchAt, back, writes>>

(* Mutant: the devices' clock is left where the batch began. *)
NoteNowStale(d) == d

(* read and write of Sawtooth: noteNow, then the register, then the gate is *)
(* opened (devGen_).                                                        *)
NoteNow(d) == Note(d, tb)

Access(F(_)) ==
  /\ writes < MaxWrites
  /\ dev' = F(NoteNow(dev))
  /\ ref' = F(NoteNow(ref))
  /\ gate' = [gate EXCEPT !.gen = TRUE]
  /\ writes' = writes + 1
  /\ unserviced' = TRUE

Arm ==
  /\ Access(LAMBDA d : WriteCntl(d, TRUE))
  /\ armAt' = IF dev.next = 0 THEN tb ELSE armAt
  /\ latchAt' = IF dev.next = 0 THEN tb ELSE latchAt
  /\ back' = IF dev.next = 0 THEN 0 ELSE back
  /\ UNCHANGED tb

Disarm == /\ Access(LAMBDA d : WriteCntl(d, FALSE))
          /\ UNCHANGED <<tb, armAt, latchAt, back>>

Acknowledge == /\ Access(LAMBDA d : WriteStatus(d, TRUE))
               /\ UNCHANGED <<tb, armAt, latchAt, back>>

(* The guest writes the timebase (mttbl, mttbu): no device is told.         *)
WriteTb ==
  \E j \in Jumps, forward \in BOOLEAN :
    /\ writes < MaxWrites
    /\ writes' = writes + 1
    /\ IF forward THEN tb + j <= MaxTb ELSE tb >= j
    /\ tb' = IF forward THEN tb + j ELSE tb - j
    /\ back' = IF forward THEN back ELSE back + j
    /\ unserviced' = TRUE
    /\ UNCHANGED <<dev, ref, gate, armAt, latchAt>>

(* serviceDevices, the gate.                                                *)
GateClosed == ~gate.gen /\ tb < gate.due

Service ==
  /\ unserviced
  /\ unserviced' = FALSE
  /\ ref' = Tick(ref, tb)
  /\ IF GateClosed
     THEN dev' = Note(dev, tb) /\ UNCHANGED gate
     ELSE /\ dev' = Tick(Note(dev, tb), tb)
          /\ gate' = [gen |-> FALSE, due |-> NextTick(dev'), irq |-> IrqLine(dev')]
  /\ latchAt' = IF dev.next # 0 /\ dev'.next # dev.next THEN tb ELSE latchAt
  /\ back' = IF dev'.next # dev.next THEN 0 ELSE back
  /\ UNCHANGED <<tb, armAt, writes>>

BlankNext == Instruction \/ Arm \/ Disarm \/ Acknowledge \/ WriteTb \/ Service

BlankSpec == BlankInit /\ [][BlankNext]_blankVars
-----------------------------------------------------------------------------
BlankTypeOK ==
  /\ tb \in 0..MaxTb /\ dev.next \in Nat
  /\ dev.now \in 0..MaxTb /\ gate.due \in 0..Never

(* The gate cannot be noticed: after every service the display, and the     *)
(* interrupt line answered from the cache, are those of a machine that      *)
(* ticks its display at every instruction, wherever the guest moves TB      *)
(* (serviceDevices, nextTickTb).                                            *)
GateIsExact == ~unserviced => dev = ref /\ gate.irq = IrqLine(ref)

(* A request nobody services stands for no more than a quarter of a frame   *)
(* of the loop's looking, counted from the blank or from the arm that found *)
(* it standing (tick).                                                      *)
UnansweredExpires ==
  (~unserviced /\ dev.st /\ dev.next # 0) => tb <= latchAt + (Period \div 4)

(* While armed the next blank is never further away than a frame, but for   *)
(* the ticks the guest itself took back from the timebase since it was      *)
(* scheduled (tick's re-base, the absolute vblNextTb_).                     *)
BlankIsNear == dev.next # 0 => dev.next - tb <= Period + back

(* No blank is latched within a frame of the write that armed it, however   *)
(* far the batch had run ahead of the devices' clock (noteNow).             *)
FirstBlankAWholeFrame ==
  (dev'.st /\ ~dev.st) => tb >= armAt + Period

(* The three of them, and the types: what a driver that waits for the blank *)
(* relies on.                                                               *)
BlankIsOnTime == BlankTypeOK /\ GateIsExact /\ UnansweredExpires /\ BlankIsNear
-----------------------------------------------------------------------------
(* Proofs: for every frame length, every way the guest moves the timebase   *)
(* and every placing of the accesses.                                       *)

BlankConstants ==
  /\ Period \in Nat \ {0} /\ MaxTb \in Nat /\ MaxWrites \in Nat
  /\ Advances \subseteq Nat /\ Jumps \subseteq Nat

Displays == [next: Nat, now: Nat, en: BOOLEAN, st: BOOLEAN]

(* The display and its twin never differ at all; a gate that has not been   *)
(* opened knows a deadline that is not too late and the line as it is; the  *)
(* scheduled blank lies a frame after the moment requests are counted from, *)
(* which lies in the past but for what was taken back from the timebase.    *)
BlankInv ==
  /\ tb \in 0..MaxTb /\ armAt \in Nat /\ latchAt \in Nat /\ back \in Nat
  /\ unserviced \in BOOLEAN /\ writes \in Nat
  /\ dev \in Displays /\ dev.now <= MaxTb
  /\ gate \in [gen: BOOLEAN, due: 0..Never, irq: BOOLEAN]
  /\ ref = dev
  /\ ~gate.gen => gate.due <= NextTick(dev) /\ gate.irq = IrqLine(dev)
  /\ ~unserviced => ~gate.gen
  /\ dev.next # 0 => /\ dev.next = latchAt + Period
                     /\ latchAt <= tb + back
                     /\ armAt + Period <= dev.next
                     /\ dev.next <= MaxTb + Period
  /\ ~unserviced /\ dev.st /\ dev.next # 0 => tb <= latchAt + (Period \div 4)

(* A quarter of a frame is less than a frame.                               *)
LEMMA QuarterFrame ==
  ASSUME BlankConstants
  PROVE  Period \div 4 \in Nat /\ Period \div 4 < Period
  BY DEF BlankConstants

(* tick before nextTickTb does nothing but note the time.                   *)
LEMMA TickBeforeDeadline ==
  ASSUME BlankConstants, NEW d \in Displays, NEW t \in Nat, t < NextTick(d)
  PROVE  /\ Tick(d, t) = Note(d, t)
         /\ NextTick(Note(d, t)) = NextTick(d) /\ IrqLine(Note(d, t)) = IrqLine(d)
         /\ d.st /\ d.next >= Period => t <= (d.next - Period) + (Period \div 4)
         /\ d.next # 0 => t < d.next
<1> DEFINE q == Period \div 4
<1>1. Period \in Nat /\ q \in Nat /\ q < Period BY QuarterFrame DEF BlankConstants
<1> HIDE DEF q
<1>2. CASE d.next = 0
  BY <1>1, <1>2 DEF Tick, Note, NextTick, IrqLine, Displays
<1>3. CASE d.next # 0
  <2>1. t < d.next /\ (d.st /\ d.next >= Period => t <= (d.next - Period) + q)
    BY <1>1, <1>3 DEF NextTick, q, Displays
  <2>2. Expired(Note(d, t), t) = Note(d, t)
    BY <1>1, <2>1 DEF Expired, Note, q, Displays
  <2>3. Tick(d, t) = Note(d, t)
    BY <1>3, <2>1, <2>2 DEF Tick, Displays
  <2>4. NextTick(Note(d, t)) = NextTick(d) /\ IrqLine(Note(d, t)) = IrqLine(d)
    BY DEF NextTick, IrqLine, Note, Displays
  <2> QED BY <2>1, <2>3, <2>4 DEF q
<1> QED BY <1>2, <1>3

(* What tick does to a display at its deadline or at any other time.        *)
LEMMA TickShape ==
  ASSUME BlankConstants, NEW d \in Displays, NEW t \in Nat
  PROVE  /\ Tick(d, t) \in Displays
         /\ Tick(d, t).now = t
         /\ d.next = 0 => Tick(d, t).next = 0
         /\ d.next # 0 /\ t < d.next =>
              /\ Tick(d, t).next = d.next
              /\ Tick(d, t).st => d.st
              /\ Tick(d, t).st /\ d.next >= Period =>
                    t <= (d.next - Period) + (Period \div 4)
         /\ d.next # 0 /\ t >= d.next => Tick(d, t).next = t + Period
         /\ Tick(d, t).st => d.st \/ (d.next # 0 /\ t >= d.next)
<1> DEFINE q == Period \div 4
           e == Expired(Note(d, t), t)
<1>1. Period \in Nat /\ q \in Nat /\ q < Period BY QuarterFrame DEF BlankConstants
<1>2. /\ e \in Displays /\ e.now = t /\ e.next = d.next /\ (e.st => d.st)
      /\ e.st /\ d.next >= Period => t <= (d.next - Period) + q
  <2> DEFINE n == [next |-> d.next, now |-> t, en |-> d.en, st |-> d.st]
  <2>1. Note(d, t) = n BY DEF Note, Displays
  <2>2. n \in Displays BY DEF Displays
  <2>3. CASE d.st /\ d.next >= Period /\ t > (d.next - Period) + q
    <3>1. e = [n EXCEPT !.st = FALSE]
      BY <2>1, <2>3 DEF Expired
    <3>2. e = [next |-> d.next, now |-> t, en |-> d.en, st |-> FALSE]
      BY <3>1
    <3> QED BY <3>2 DEF Displays
  <2>4. CASE ~(d.st /\ d.next >= Period /\ t > (d.next - Period) + q)
    <3>1. e = n
      BY <2>1, <2>4 DEF Expired
    <3> HIDE DEF e, q
    <3> QED BY <3>1, <2>2, <2>4, <1>1 DEF Displays
  <2> QED BY <2>3, <2>4
<1> HIDE DEF q, e
<1>3. CASE d.next = 0
  BY <1>3 DEF Tick, Note, Displays
<1>4. CASE d.next # 0 /\ t < d.next
  <2>1. Tick(d, t) = e BY <1>4 DEF Tick, e, Displays
  <2> QED BY <1>2, <1>4, <2>1 DEF q, Displays
<1>5. CASE d.next # 0 /\ t >= d.next
  <2>1. Tick(d, t) = [e EXCEPT !.next = t + Period, !.st = @ \/ e.en]
    BY <1>5 DEF Tick, e, Displays
  <2>2. Tick(d, t) = [next |-> t + Period, now |-> e.now, en |-> e.en, st |-> e.st \/ e.en]
    BY <1>2, <2>1 DEF Displays
  <2> QED BY <1>1, <1>2, <1>5, <2>2 DEF Displays
<1> QED BY <1>3, <1>4, <1>5 DEF Displays

(* The display of a fresh card, not armed.                                  *)
LEMMA BlankInitially == ASSUME BlankConstants PROVE BlankInit => BlankInv
<1> SUFFICES ASSUME BlankInit PROVE BlankInv OBVIOUS
<1>1. dev = [next |-> 0, now |-> 0, en |-> FALSE, st |-> FALSE] /\ ref = dev
      /\ gate = [gen |-> FALSE, due |-> 0, irq |-> FALSE] BY DEF BlankInit
<1>2. Never \in Nat BY DEF Never, BlankConstants
<1>3. NextTick(dev) = Never BY <1>1 DEF NextTick
<1>4. dev \in Displays /\ dev.now = 0 /\ dev.next = 0 /\ IrqLine(dev) = FALSE
  BY <1>1 DEF Displays, IrqLine
<1>5. gate \in [gen: BOOLEAN, due: 0..Never, irq: BOOLEAN] /\ gate.due = 0 /\ gate.irq = FALSE
      /\ gate.gen = FALSE
  BY <1>1, <1>2
<1>6. tb = 0 /\ armAt = 0 /\ latchAt = 0 /\ back = 0 /\ writes = 0 /\ unserviced = FALSE
      /\ ref = dev
  BY DEF BlankInit
<1>7. tb \in 0..MaxTb /\ dev.now <= MaxTb /\ gate.due <= NextTick(dev)
  BY <1>2, <1>3, <1>4, <1>5, <1>6 DEF BlankConstants
<1>8. gate.irq = IrqLine(dev) BY <1>4, <1>5
<1>9. armAt \in Nat /\ latchAt \in Nat /\ back \in Nat /\ writes \in Nat BY <1>6
<1> QED BY <1>4, <1>5, <1>6, <1>7, <1>8, <1>9, Zenon DEF BlankInv

(* A register access that does not latch a blank, and schedules one by the  *)
(* processor's time or leaves the schedule alone.                           *)
LEMMA AccessStep ==
  ASSUME BlankConstants, BlankInv, UNCHANGED tb,
         dev' \in Displays, dev'.now = tb, ref' = dev', dev'.st => dev.st,
         gate' = [gate EXCEPT !.gen = TRUE], unserviced' = TRUE, writes' = writes + 1,
         \/ dev'.next = 0 /\ UNCHANGED <<armAt, latchAt, back>>
         \/ dev'.next = dev.next /\ UNCHANGED <<armAt, latchAt, back>>
         \/ dev'.next = tb + Period /\ armAt' = tb /\ latchAt' = tb /\ back' = 0
  PROVE  BlankInv' /\ FirstBlankAWholeFrame
<1>1. Period \in Nat \ {0} /\ MaxTb \in Nat BY DEF BlankConstants
<1>2. gate' \in [gen: BOOLEAN, due: 0..Never, irq: BOOLEAN] /\ gate'.gen = TRUE
  BY DEF BlankInv
<1>3. /\ tb' \in 0..MaxTb /\ armAt' \in Nat /\ latchAt' \in Nat /\ back' \in Nat
      /\ writes' \in Nat /\ dev'.now <= MaxTb
  BY <1>1 DEF BlankInv
<1>4. dev'.next # 0 => /\ dev'.next = latchAt' + Period
                      /\ latchAt' <= tb' + back'
                      /\ armAt' + Period <= dev'.next
                      /\ dev'.next <= MaxTb + Period
  BY <1>1 DEF BlankInv
<1>5. BlankInv'
  BY <1>2, <1>3, <1>4, Zenon DEF BlankInv
<1> QED BY <1>5 DEF FirstBlankAWholeFrame

(* Every step keeps the invariant, and latches no blank too early.          *)
LEMMA BlankStep ==
  ASSUME BlankConstants, BlankInv, [BlankNext]_blankVars
  PROVE  BlankInv' /\ (FirstBlankAWholeFrame \/ UNCHANGED blankVars)
<1>0. Period \in Nat \ {0} /\ MaxTb \in Nat /\ Advances \subseteq Nat /\ Jumps \subseteq Nat
  BY DEF BlankConstants
<1>1. CASE Instruction
  BY <1>0, <1>1 DEF Instruction, FirstBlankAWholeFrame, BlankInv, NextTick, IrqLine, Never, Displays
<1> DEFINE n == [next |-> dev.next, now |-> tb, en |-> dev.en, st |-> dev.st]
<1>8. NoteNow(dev) = n /\ dev \in Displays /\ tb \in Nat
  BY <1>0 DEF NoteNow, Note, Displays, BlankInv
<1>2. CASE Arm
  <2>1. dev' = WriteCntl(n, TRUE) /\ ref' = dev' /\ gate' = [gate EXCEPT !.gen = TRUE]
        /\ unserviced' = TRUE /\ writes' = writes + 1 /\ UNCHANGED tb
    BY <1>2, <1>8 DEF Arm, Access, BlankInv
  <2>2. dev' = [next |-> IF dev.next = 0 THEN tb + Period ELSE dev.next,
                now |-> tb, en |-> TRUE, st |-> dev.st]
    BY <1>8, <2>1 DEF WriteCntl
  <2>3. dev' \in Displays /\ dev'.now = tb /\ (dev'.st => dev.st)
        /\ dev'.next = IF dev.next = 0 THEN tb + Period ELSE dev.next
    BY <1>0, <1>8, <2>2 DEF Displays
  <2>4. \/ dev.next = 0 /\ armAt' = tb /\ latchAt' = tb /\ back' = 0
        \/ dev.next # 0 /\ UNCHANGED <<armAt, latchAt, back>>
    BY <1>2 DEF Arm
  <2> QED BY <2>1, <2>3, <2>4, AccessStep
<1>3. CASE Disarm
  <2>1. dev' = WriteCntl(n, FALSE) /\ ref' = dev' /\ gate' = [gate EXCEPT !.gen = TRUE]
        /\ unserviced' = TRUE /\ writes' = writes + 1 /\ UNCHANGED tb
    BY <1>3, <1>8 DEF Disarm, Access, BlankInv
  <2>2. dev' = [next |-> 0,
                now |-> tb, en |-> FALSE, st |-> dev.st]
    BY <1>8, <2>1 DEF WriteCntl
  <2>3. dev' \in Displays /\ dev'.now = tb /\ (dev'.st => dev.st)
        /\ dev'.next = 0
    BY <1>0, <1>8, <2>2 DEF Displays
  <2>4. UNCHANGED <<armAt, latchAt, back>>
    BY <1>3 DEF Disarm
  <2> QED BY <2>1, <2>3, <2>4, AccessStep
<1>4. CASE Acknowledge
  <2>1. dev' = WriteStatus(n, TRUE) /\ ref' = dev' /\ gate' = [gate EXCEPT !.gen = TRUE]
        /\ unserviced' = TRUE /\ writes' = writes + 1 /\ UNCHANGED tb
    BY <1>4, <1>8 DEF Acknowledge, Access, BlankInv
  <2>2. dev' = [next |-> dev.next,
                now |-> tb, en |-> dev.en, st |-> FALSE]
    BY <1>8, <2>1 DEF WriteStatus
  <2>3. dev' \in Displays /\ dev'.now = tb /\ (dev'.st => dev.st)
        /\ dev'.next = dev.next
    BY <1>0, <1>8, <2>2 DEF Displays
  <2>4. UNCHANGED <<armAt, latchAt, back>>
    BY <1>4 DEF Acknowledge
  <2> QED BY <2>1, <2>3, <2>4, AccessStep
<1>5. CASE WriteTb
  BY <1>0, <1>5 DEF WriteTb, FirstBlankAWholeFrame, BlankInv, NextTick, IrqLine, Never, Displays
<1>6. CASE Service
  <2>1. tb \in Nat /\ dev \in Displays /\ ref = dev BY DEF BlankInv
  <2>2. Period \div 4 \in Nat BY QuarterFrame
  <2>3. CASE GateClosed
    <3>1. tb < NextTick(dev) BY <2>3, <1>0 DEF GateClosed, BlankInv, NextTick, Never, Displays
    <3>2. /\ dev' = Note(dev, tb) /\ ref' = dev' /\ gate' = gate /\ unserviced' = FALSE
          /\ NextTick(dev') = NextTick(dev) /\ IrqLine(dev') = IrqLine(dev)
          /\ dev.st /\ dev.next >= Period => tb <= (dev.next - Period) + (Period \div 4)
      BY <1>6, <2>1, <2>3, <3>1, TickBeforeDeadline DEF Service
    <3>3. dev' \in Displays /\ dev'.next = dev.next /\ dev'.st = dev.st /\ dev'.now = tb
      BY <3>2, <2>1 DEF Note, Displays
    <3>4. UNCHANGED <<tb, armAt, writes, latchAt, back>>
      BY <1>6, <3>3 DEF Service
    <3>5. /\ tb' \in 0..MaxTb /\ armAt' \in Nat /\ writes' \in Nat /\ latchAt' \in Nat
          /\ back' \in Nat /\ dev'.now <= MaxTb
          /\ gate' \in [gen: BOOLEAN, due: 0..Never, irq: BOOLEAN] /\ ~gate'.gen
          /\ gate'.due <= NextTick(dev') /\ gate'.irq = IrqLine(dev')
      BY <1>0, <2>3, <3>2, <3>3, <3>4 DEF GateClosed, BlankInv
    <3>6. /\ dev'.next # 0 => /\ dev'.next = latchAt' + Period
                              /\ latchAt' <= tb' + back'
                              /\ armAt' + Period <= dev'.next
                              /\ dev'.next <= MaxTb + Period
          /\ dev'.st /\ dev'.next # 0 => tb' <= latchAt' + (Period \div 4)
      BY <1>0, <2>1, <2>2, <3>2, <3>3, <3>4 DEF BlankInv, Displays
    <3>7. BlankInv' BY <3>2, <3>3, <3>5, <3>6, Zenon DEF BlankInv
    <3> QED BY <3>3, <3>7 DEF FirstBlankAWholeFrame
  <2>4. CASE ~GateClosed
    <3> DEFINE noted == Note(dev, tb)
    <3>1. noted \in Displays /\ noted.next = dev.next /\ noted.st = dev.st BY <2>1 DEF Note, Displays
    <3>2. Tick(noted, tb) = Tick(dev, tb) BY <2>1 DEF Note, Tick, Displays
    <3> HIDE DEF noted
    <3>3. /\ dev' = Tick(dev, tb) /\ ref' = dev' /\ unserviced' = FALSE
          /\ gate' = [gen |-> FALSE, due |-> NextTick(dev'), irq |-> IrqLine(dev')]
          /\ latchAt' = IF dev.next # 0 /\ dev'.next # dev.next THEN tb ELSE latchAt
          /\ back' = IF dev'.next # dev.next THEN 0 ELSE back
          /\ UNCHANGED <<tb, armAt, writes>>
      BY <1>6, <2>1, <2>4, <3>2 DEF Service, noted
    <3>4. /\ dev' \in Displays /\ dev'.now = tb
          /\ dev.next = 0 => dev'.next = 0
          /\ dev.next # 0 /\ tb < dev.next =>
               /\ dev'.next = dev.next
               /\ dev'.st => dev.st
               /\ dev'.st /\ dev.next >= Period =>
                     tb <= (dev.next - Period) + (Period \div 4)
          /\ dev.next # 0 /\ tb >= dev.next => dev'.next = tb + Period
          /\ dev'.st => dev.st \/ (dev.next # 0 /\ tb >= dev.next)
      BY <2>1, <3>3, TickShape
    <3>5. /\ dev'.next # 0 => /\ dev'.next = latchAt' + Period
                              /\ latchAt' <= tb + back'
                              /\ armAt + Period <= dev'.next
                              /\ dev'.next <= MaxTb + Period
          /\ dev'.st /\ dev'.next # 0 => tb <= latchAt' + (Period \div 4)
          /\ latchAt' \in Nat /\ back' \in Nat
          /\ dev'.st /\ ~dev.st => tb >= armAt + Period
      BY <1>0, <2>1, <2>2, <3>3, <3>4 DEF BlankInv, Displays
    <3>6. NextTick(dev') \in 0..Never /\ IrqLine(dev') \in BOOLEAN
      BY <1>0, <2>2, <3>4, <3>5 DEF NextTick, Never, IrqLine, Displays
    <3>7. /\ gate' \in [gen: BOOLEAN, due: 0..Never, irq: BOOLEAN]
          /\ gate'.gen = FALSE /\ gate'.due = NextTick(dev') /\ gate'.irq = IrqLine(dev')
      BY <3>3, <3>6
    <3>8. /\ tb' \in 0..MaxTb /\ armAt' \in Nat /\ writes' \in Nat /\ dev'.now <= MaxTb
          /\ gate'.due <= NextTick(dev')
          /\ dev'.next # 0 => /\ dev'.next = latchAt' + Period
                              /\ latchAt' <= tb' + back'
                              /\ armAt' + Period <= dev'.next
                              /\ dev'.next <= MaxTb + Period
          /\ dev'.st /\ dev'.next # 0 => tb' <= latchAt' + (Period \div 4)
      BY <1>0, <3>3, <3>4, <3>5, <3>6, <3>7 DEF BlankInv
    <3>9. BlankInv' BY <3>3, <3>4, <3>5, <3>7, <3>8, Zenon DEF BlankInv
    <3> QED BY <3>5, <3>9 DEF FirstBlankAWholeFrame
  <2> QED BY <2>3, <2>4
<1>7. CASE UNCHANGED blankVars
  BY <1>7 DEF blankVars, BlankInv, NextTick, IrqLine, Never, Displays
<1> QED BY <1>1, <1>2, <1>3, <1>4, <1>5, <1>6, <1>7 DEF BlankNext

(* So the invariant holds of every state of every behaviour.                *)
LEMMA BlankInvariant == ASSUME BlankConstants PROVE BlankSpec => []BlankInv
<1>1. BlankInv /\ [BlankNext]_blankVars => BlankInv' BY BlankStep
<1> QED BY BlankInitially, <1>1, PTL DEF BlankSpec

(* serviceDevices and nextTickTb: whatever the guest does with the card and *)
(* with the timebase, a machine with the gate shows the display and the     *)
(* interrupt line of one that ticks its display after every instruction.    *)
THEOREM GateCannotBeNoticed == ASSUME BlankConstants PROVE BlankSpec => []GateIsExact
<1>1. BlankInv => GateIsExact BY DEF BlankInv, GateIsExact
<1> QED BY BlankInvariant, <1>1, PTL

(* tick: no request outlives a quarter of a frame, and no blank is further  *)
(* away than a frame but for what the guest took back from the timebase.    *)
THEOREM BlankKeepsItsFrame ==
  ASSUME BlankConstants PROVE BlankSpec => [](UnansweredExpires /\ BlankIsNear)
<1>1. BlankInv => UnansweredExpires /\ BlankIsNear
  BY DEF BlankInv, UnansweredExpires, BlankIsNear, BlankConstants, Displays
<1> QED BY BlankInvariant, <1>1, PTL

(* serviceDevices, nextTickTb and tick together: at every moment the blank  *)
(* is where a machine without the gate would have it, within a frame, and   *)
(* a request does not outlive its quarter.                                  *)
THEOREM BlankArrivesOnTime == ASSUME BlankConstants PROVE BlankSpec => []BlankIsOnTime
<1>1. BlankInv => BlankTypeOK BY DEF BlankInv, BlankTypeOK, Displays
<1> QED BY GateCannotBeNoticed, BlankKeepsItsFrame, BlankInvariant, <1>1, PTL
  DEF BlankIsOnTime

(* noteNow: the write that arms the blank sees the processor's own time, so *)
(* that no blank is latched within a frame of it.                           *)
THEOREM NoBlankWithinAFrameOfArming ==
  ASSUME BlankConstants PROVE BlankSpec => [][FirstBlankAWholeFrame]_blankVars
<1>1. BlankInv /\ [BlankNext]_blankVars => [FirstBlankAWholeFrame]_blankVars BY BlankStep
<1> QED BY BlankInvariant, <1>1, PTL DEF BlankSpec
=============================================================================
