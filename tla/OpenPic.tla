------------------------------ MODULE OpenPic -------------------------------
(***************************************************************************)
(* KeyLargo's interrupt controller (machine/src/openpic.cpp): per-source   *)
(* mask, sense and priority, device lines, pending flags, one task         *)
(* priority and one interrupt in service.                                  *)
(*                                                                         *)
(* The register file is little-endian and byte-swapped at the edge; the    *)
(* vector a source answers with stands for the source itself.  Destination *)
(* and global registers are stored and not interpreted by the code.        *)
(***************************************************************************)
EXTENDS Integers, WellFoundedInduction, TLAPS

CONSTANTS
  Sources,   \* source numbers: among equals the smallest wins
  MaxPri,    \* the highest priority (15), and the task priority at reset
  None       \* nothing in service; the spurious vector

ASSUME PicConstants ==
  /\ Sources \subseteq Nat
  /\ MaxPri \in Nat
  /\ None \notin Sources

VARIABLES
  pic,       \* the controller
  owed       \* history: an edge of this source has not been answered yet

vars == <<pic, owed>>

Pic == [masked: [Sources -> BOOLEAN], level: [Sources -> BOOLEAN],
        pri: [Sources -> 0 .. MaxPri], line: [Sources -> BOOLEAN],
        pending: [Sources -> BOOLEAN], taskPri: 0 .. MaxPri,
        inService: Sources \cup {None}]

Off == [s \in Sources |-> FALSE]

\* Construction: nothing is masked, but nothing beats the task priority.
Reset ==
  [masked |-> Off, level |-> Off, pri |-> [s \in Sources |-> 0], line |-> Off,
   pending |-> Off, taskPri |-> MaxPri, inService |-> None]
-----------------------------------------------------------------------------
(* The controller's functions. *)

\* Mutant: a masked source is not remembered.
SetLineUnmasked(p, s, up) ==
  [p EXCEPT !.line[s] = up,
            !.pending[s] = IF up THEN @ \/ (~p.line[s] /\ ~p.masked[s])
                                 ELSE @ /\ ~p.level[s]]

\* setLine: a rising line pends whatever the mask says; a level-sensitive
\* source follows its line down.
SetLine(p, s, up) ==
  [p EXCEPT !.line[s] = up,
            !.pending[s] = IF up THEN @ \/ ~p.line[s] ELSE @ /\ ~p.level[s]]

\* Mutant: unmasking does not look at the line.
WriteVpBlind(p, s, m, l, q) ==
  [p EXCEPT !.masked[s] = m, !.level[s] = l, !.pri[s] = q]

\* A write of the vector/priority register; unmasking a held line re-pends it.
WriteVp(p, s, m, l, q) ==
  [p EXCEPT !.masked[s] = m, !.level[s] = l, !.pri[s] = q,
            !.pending[s] = @ \/ (~m /\ p.line[s])]

Deliverable(p) ==
  {s \in Sources : p.pending[s] /\ ~p.masked[s] /\ p.pri[s] > p.taskPri}

\* highestPending.
HighestPending(p) ==
  IF Deliverable(p) = {} THEN None
  ELSE CHOOSE s \in Deliverable(p) : \A t \in Deliverable(p) :
         p.pri[s] > p.pri[t] \/ (p.pri[s] = p.pri[t] /\ s <= t)

\* cpuLine: nothing interrupts a handler until it says it has finished.
CpuLine(p) == p.inService = None /\ HighestPending(p) # None

\* Acknowledge source s: an edge is consumed, a level stays while it is high.
Take(p, s) ==
  [p EXCEPT !.inService = s, !.pending[s] = p.level[s] /\ p.line[s]]

\* A read of IACK; a spurious answer changes nothing.
Iack(p) ==
  LET s == HighestPending(p) IN IF s = None THEN p ELSE Take(p, s)

\* A write of EOI.
Eoi(p) == [p EXCEPT !.inService = None]
-----------------------------------------------------------------------------
(* Any devices and any guest. *)

Init == pic = Reset /\ owed = Off

Device(s, up) ==
  /\ pic' = SetLine(pic, s, up)
  /\ owed' = [owed EXCEPT ![s] = IF up THEN @ \/ ~pic.line[s]
                                       ELSE @ /\ ~pic.level[s]]

GuestVp(s, m, l, q) ==
  /\ pic' = WriteVp(pic, s, m, l, q)
  /\ UNCHANGED owed

\* Mutant: the write is not cut to the register's four bits.
GuestTaskPriWide(q) ==
  /\ pic' = [pic EXCEPT !.taskPri = q + 1]
  /\ UNCHANGED owed

GuestTaskPri(q) ==
  /\ pic' = [pic EXCEPT !.taskPri = q]
  /\ UNCHANGED owed

GuestIack ==
  /\ pic' = Iack(pic)
  /\ owed' = [s \in Sources |-> owed[s] /\ s # HighestPending(pic)]

GuestEoi ==
  /\ pic' = Eoi(pic)
  /\ UNCHANGED owed

Next ==
  \/ \E s \in Sources, up \in BOOLEAN : Device(s, up)
  \/ \E s \in Sources, m, l \in BOOLEAN, q \in 0 .. MaxPri : GuestVp(s, m, l, q)
  \/ \E q \in 0 .. MaxPri : GuestTaskPri(q)
  \/ GuestIack
  \/ GuestEoi

Spec == Init /\ [][Next]_vars
-----------------------------------------------------------------------------
\* Type invariant.
TypeOK == pic \in Pic /\ owed \in [Sources -> BOOLEAN]

\* A level-sensitive source whose line is high and which is not masked is
\* pending, however the guest masks, unmasks, reprograms and acknowledges it:
\* a level interrupt is never lost ("level re-pends while high").
HeldLevelIsPending ==
  \A s \in Sources :
    pic.level[s] /\ pic.line[s] /\ ~pic.masked[s] => pic.pending[s]

\* An edge is remembered until it is answered, even one that comes and goes
\* while the source is masked or another interrupt is in service, as the sound
\* channels' pulses do (SawtoothBus::pulse).
NoEdgeLost == \A s \in Sources : owed[s] => pic.pending[s]
-----------------------------------------------------------------------------
(* For any set of sources and any number of priorities: the controller's   *)
(* state is well formed, and it loses neither a level nor an edge.         *)

\* The inductive invariant; each property is inductive given the type.
IInv == TypeOK /\ HeldLevelIsPending /\ NoEdgeLost

\* A set of natural numbers that is not empty has a smallest element.
LEMMA Smallest ==
  ASSUME NEW T, T \subseteq Nat, T # {}
  PROVE  \E x \in T : \A y \in T : x <= y
<1>1. PICK x \in T : \A y \in T : ~(<<y, x>> \in OpToRel(<, Nat))
  BY WFMin, NatLessThanWellFounded, Zenon
<1>2. ASSUME NEW y \in T PROVE x <= y
  <2>1. ~(<<y, x>> \in {ss \in Nat \X Nat : ss[1] < ss[2]})
    BY <1>1 DEF OpToRel
  <2> QED BY <2>1
<1> QED BY <1>2

\* highestPending finds a deliverable source whenever there is one.
LEMMA HighestIsDeliverable ==
  ASSUME NEW p \in Pic, Deliverable(p) # {}
  PROVE  /\ HighestPending(p) \in Deliverable(p)
         /\ HighestPending(p) \in Sources
         /\ HighestPending(p) # None
<1> DEFINE D == Deliverable(p)
           Gaps == {MaxPri - p.pri[s] : s \in D}
<1>1. D \subseteq Sources /\ \A s \in D : p.pri[s] \in 0 .. MaxPri
  BY DEF Deliverable, Pic
<1>2. PICK g \in Gaps : \A h \in Gaps : g <= h
  <2>1. Gaps \subseteq Nat /\ Gaps # {}
    BY <1>1, PicConstants
  <2> HIDE DEF Gaps
  <2> QED BY <2>1, Smallest
<1> DEFINE Top == {s \in D : MaxPri - p.pri[s] = g}
<1>3. PICK s \in Top : \A t \in Top : s <= t
  <2>1. Top \subseteq Nat /\ Top # {}
    BY <1>1, <1>2, PicConstants
  <2> HIDE DEF Top
  <2> QED BY <2>1, Smallest
<1>4. s \in D /\ \A t \in D : \/ p.pri[s] > p.pri[t]
                              \/ p.pri[s] = p.pri[t] /\ s <= t
  <2>1. s \in D
    BY <1>3
  <2>2. ASSUME NEW t \in D
        PROVE  p.pri[s] > p.pri[t] \/ (p.pri[s] = p.pri[t] /\ s <= t)
    <3>1. g <= MaxPri - p.pri[t]
      BY <1>2
    <3>2. MaxPri - p.pri[s] = g
      BY <1>3
    <3>3. MaxPri - p.pri[t] = g => s <= t
      BY <1>3
    <3> QED BY <1>1, <2>1, <3>1, <3>2, <3>3, PicConstants
  <2> QED BY <2>1, <2>2
<1>5. HighestPending(p) \in D
  BY <1>4 DEF HighestPending
<1> QED BY <1>1, <1>5, PicConstants

\* Acknowledging keeps the invariant: the answered source stays pending only
\* while its level is high, and owes nothing any more.
LEMMA IackStep == IInv /\ GuestIack => IInv'
<1> SUFFICES ASSUME IInv, GuestIack PROVE IInv'
  OBVIOUS
<1> USE DEF IInv, TypeOK
<1>1. CASE Deliverable(pic) = {}
  <2>1. pic' = pic /\ HighestPending(pic) = None
    BY <1>1 DEF GuestIack, Iack, HighestPending
  <2>2. \A s \in Sources : owed'[s] = owed[s]
    BY <2>1, PicConstants DEF GuestIack
  <2> QED
    BY <2>1, <2>2 DEF GuestIack, HeldLevelIsPending, NoEdgeLost
<1>2. CASE Deliverable(pic) # {}
  <2> DEFINE h == HighestPending(pic)
  <2>1. h \in Sources /\ h # None
    BY <1>2, HighestIsDeliverable
  <2>2. pic' = Take(pic, h) /\ owed' = [s \in Sources |-> owed[s] /\ s # h]
    BY <2>1 DEF GuestIack, Iack
  <2> HIDE DEF h
  <2>3. TypeOK'
    BY <2>1, <2>2 DEF Take, Pic
  <2>4. HeldLevelIsPending'
    BY <2>1, <2>2 DEF Take, Pic, HeldLevelIsPending
  <2>5. NoEdgeLost'
    BY <2>1, <2>2 DEF Take, Pic, NoEdgeLost
  <2> QED BY <2>3, <2>4, <2>5
<1> QED BY <1>1, <1>2

\* Every step keeps the invariant.
LEMMA StepIInv == IInv /\ [Next]_vars => IInv'
<1> SUFFICES ASSUME IInv, [Next]_vars PROVE IInv'
  OBVIOUS
<1> USE DEF IInv, TypeOK
<1>1. ASSUME NEW s \in Sources, NEW up \in BOOLEAN, Device(s, up)
      PROVE  IInv'
  <2>1. TypeOK'
    BY <1>1 DEF Device, SetLine, Pic
  <2>2. HeldLevelIsPending'
    BY <1>1 DEF Device, SetLine, Pic, HeldLevelIsPending
  <2>3. NoEdgeLost'
    BY <1>1 DEF Device, SetLine, Pic, NoEdgeLost
  <2> QED BY <2>1, <2>2, <2>3
<1>2. ASSUME NEW s \in Sources, NEW m \in BOOLEAN, NEW l \in BOOLEAN,
             NEW q \in 0 .. MaxPri, GuestVp(s, m, l, q)
      PROVE  IInv'
  <2>1. TypeOK'
    BY <1>2 DEF GuestVp, WriteVp, Pic
  <2>2. HeldLevelIsPending'
    BY <1>2 DEF GuestVp, WriteVp, Pic, HeldLevelIsPending
  <2>3. NoEdgeLost'
    BY <1>2 DEF GuestVp, WriteVp, Pic, NoEdgeLost
  <2> QED BY <2>1, <2>2, <2>3
<1>3. ASSUME NEW q \in 0 .. MaxPri, GuestTaskPri(q) PROVE IInv'
  BY <1>3 DEF GuestTaskPri, Pic, HeldLevelIsPending, NoEdgeLost
<1>4. CASE GuestIack
  BY <1>4, IackStep
<1>5. CASE GuestEoi
  BY <1>5 DEF GuestEoi, Eoi, Pic, HeldLevelIsPending, NoEdgeLost
<1>6. CASE UNCHANGED vars
  BY <1>6 DEF vars, HeldLevelIsPending, NoEdgeLost
<1> QED BY <1>1, <1>2, <1>3, <1>4, <1>5, <1>6 DEF Next

\* All lines are low at construction.
LEMMA InitIInv == Init => IInv
  BY PicConstants
     DEF Init, IInv, TypeOK, HeldLevelIsPending, NoEdgeLost, Pic, Reset, Off

\* The controller's state is well formed under any devices and any guest.
THEOREM TypeSafe == Spec => []TypeOK
<1>1. IInv => TypeOK
  BY DEF IInv
<1> QED BY InitIInv, StepIInv, <1>1, PTL DEF Spec

\* No level interrupt is lost: setLine, the vector/priority write and iack
\* between them keep every held, unmasked level pending.
THEOREM LevelsAreKept == Spec => []HeldLevelIsPending
<1>1. IInv => HeldLevelIsPending
  BY DEF IInv
<1> QED BY InitIInv, StepIInv, <1>1, PTL DEF Spec

\* No edge is lost, masked or not, until iack answers it.
THEOREM EdgesAreKept == Spec => []NoEdgeLost
<1>1. IInv => NoEdgeLost
  BY DEF IInv
<1> QED BY InitIInv, StepIInv, <1>1, PTL DEF Spec
=============================================================================
