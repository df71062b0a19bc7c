----------------------------- MODULE GuestLoops -----------------------------
(***************************************************************************)
(* Loops of the guest that spin on what an instruction handler of          *)
(* core/src/exec_int.cpp leaves behind.  The retry loop: lwarx and stwcx.  *)
(* with the one reservation of the processor, not tied to an address; a    *)
(* task and the interrupt handler that may cut in at any instruction       *)
(* boundary each add one to a shared word, whose page may have to be       *)
(* mapped first.  The polls: mfspr and mtspr, who may reach which          *)
(* register, the thermal assist unit and the hardware flush of the L2; the *)
(* kernel searches for the die temperature by polling TIV and flushes by   *)
(* polling L2HWF, a user program tries registers in between, and a         *)
(* snapshot of a build without the unit may be resumed inside the loop.    *)
(***************************************************************************)
EXTENDS Naturals

CONSTANTS Adds,        \* increments the task makes
          Interrupts,  \* interrupts that may arrive
          Faults,      \* times the page may be found unmapped
          MaxThreshold, DieTemp, DirtyLines

(* What the constants must satisfy. *)
LoopBounds ==
  /\ Adds \in Nat /\ Interrupts \in Nat /\ Faults \in Nat
  /\ MaxThreshold \in Nat /\ DieTemp \in 0..MaxThreshold /\ DirtyLines \in Nat

VARIABLES mem,      \* the word: how many increments it holds
          resv,     \* resvValid
          pc, tmp,  \* task and handler: where each is, what it loaded
          cr0,      \* CR0[EQ] of the last stwcx., saved by the handler
          running,  \* "task" or "handler"
          made,     \* increments each believes it has made
          irqs, faults,
          thrm1,    \* [thr, tid, v, tin, tiv]
          thrm3,    \* E
          l2cr,     \* [hwf, e]
          l2,       \* [dirty, valid]: modified and valid lines of the L2
          written,  \* modified lines that reached memory
          usr,      \* XER, LR, CTR or VRSAVE, as the user last wrote it
          exc,      \* the exception the last instruction raised, or none
          drv       \* the kernel's loops: [at, lo, hi, got]

retry == <<mem, resv, pc, tmp, cr0, running, made, irqs, faults>>
kernelVars == <<thrm1, thrm3, l2cr, l2, written>>
polls == <<kernelVars, usr, exc, drv>>
vars == <<retry, polls>>
-----------------------------------------------------------------------------
Actors == {"task", "handler"}
a == running
-----------------------------------------------------------------------------
(* translate fails: a DSI, the page is mapped, the instruction starts over. *)
(* Neither a faulting lwarx nor a faulting stwcx. moves the reservation.    *)
Fault == /\ faults < Faults
         /\ pc[a] \in {"lwarx", "stwcx"}
         /\ faults' = faults + 1
         /\ UNCHANGED <<mem, resv, pc, tmp, cr0, running, made, irqs>>

(* Mutant: lwarx loads and reserves nothing. *)
ReservedNot == resv

(* h_lwarx.                                                                 *)
Reserved == TRUE

Lwarx == /\ pc[a] = "lwarx"
         /\ resv' = Reserved
         /\ tmp' = [tmp EXCEPT ![a] = mem]
         /\ pc' = [pc EXCEPT ![a] = "stwcx"]
         /\ UNCHANGED <<mem, cr0, running, made, irqs, faults>>

(* Mutant: a stwcx. that stored leaves the reservation. *)
ResvAfterKept(ok) == resv

(* h_stwcx always gives the reservation up.                                 *)
ResvAfter(ok) == FALSE

(* Mutant: a stwcx. without a reservation stores all the same. *)
SucceedsAlways == TRUE

(* The reservation alone decides, the address does not.                     *)
Succeeds == resv

Stwcx == /\ pc[a] = "stwcx"
         /\ mem' = IF Succeeds THEN tmp[a] + 1 ELSE mem
         /\ resv' = ResvAfter(Succeeds)
         /\ cr0' = [cr0 EXCEPT ![a] = Succeeds]
         /\ pc' = [pc EXCEPT ![a] = "bne"]
         /\ UNCHANGED <<tmp, running, made, irqs, faults>>

(* bne back to lwarx, or one more increment made; the handler then returns. *)
Retry == /\ pc[a] = "bne" /\ ~cr0[a]
         /\ pc' = [pc EXCEPT ![a] = "lwarx"]
         /\ UNCHANGED <<mem, resv, tmp, cr0, running, made, irqs, faults>>

Made == /\ pc[a] = "bne" /\ cr0[a]
        /\ made' = [made EXCEPT ![a] = @ + 1]
        /\ pc' = [pc EXCEPT ![a] = IF a = "task" /\ made'[a] = Adds THEN "end" ELSE "lwarx"]
        /\ running' = "task"
        /\ UNCHANGED <<mem, resv, tmp, cr0, irqs, faults>>

(* An interrupt between two instructions of the task: raiseExc leaves the   *)
(* reservation alone.                                                       *)
Interrupt == /\ running = "task" /\ irqs < Interrupts
             /\ running' = "handler" /\ irqs' = irqs + 1
             /\ UNCHANGED <<mem, resv, pc, tmp, cr0, made, faults>>

RetryInit ==
  /\ mem = 0 /\ resv \in BOOLEAN
  /\ pc = [x \in Actors |-> "lwarx"] /\ tmp = [x \in Actors |-> 0]
  /\ cr0 = [x \in Actors |-> FALSE] /\ running = "task"
  /\ made = [x \in Actors |-> 0]
  /\ irqs = 0 /\ faults = 0

RetryNext == Fault \/ Lwarx \/ Stwcx \/ Retry \/ Made \/ Interrupt

RetryProgress == Lwarx \/ Stwcx \/ Retry \/ Made
-----------------------------------------------------------------------------
(* The kinds of register an instruction can name (sprPtr): what it is, and  *)
(* for an undefined one the bit that separates privileged from illegal.     *)
Kinds == {"user", "userRead", "timebase", "supervisor", "unknownPriv", "unknown"}
Known(k) == k \notin {"unknownPriv", "unknown"}
-----------------------------------------------------------------------------
(* sprAccessFault with sprUserReadable and sprUserWritable.                 *)
AccessFault(k, user, write) ==
  CASE user /\ k = "unknown" -> "illegal"
    [] user /\ k # "unknown" /\ ~(k = "user" \/ (~write /\ k \in {"userRead", "timebase"})) -> "privileged"
    [] ~Known(k) /\ ~user -> "illegal"
    [] OTHER -> "none"

(* Mutant: TIN for the opposite side of the threshold. *)
ThrmUpdateBelow(t, e) ==
  IF ~e \/ ~t.v THEN [t EXCEPT !.tin = FALSE, !.tiv = FALSE]
  ELSE [t EXCEPT !.tin = DieTemp < t.thr, !.tiv = TRUE]

(* thrmUpdate: the comparison settles at once.                              *)
ThrmUpdate(t, e) ==
  IF ~e \/ ~t.v THEN [t EXCEPT !.tin = FALSE, !.tiv = FALSE]
  ELSE [t EXCEPT !.tin = IF t.tid THEN DieTemp < t.thr ELSE DieTemp > t.thr, !.tiv = TRUE]

(* A user program's mfspr or mtspr.                                         *)
UserAccess(k, write) ==
  /\ exc' = AccessFault(k, TRUE, write)
  /\ usr' = IF exc' = "none" /\ write THEN ~usr ELSE usr
  /\ UNCHANGED <<kernelVars, drv>>

(* mtspr THRM1: TIN and TIV of the value are ignored.                       *)
MtThrm1(thr) ==
  /\ thrm1' = ThrmUpdate([thr |-> thr, tid |-> FALSE, v |-> TRUE, tin |-> FALSE, tiv |-> FALSE], thrm3)
  /\ UNCHANGED <<thrm3, l2cr, l2, written>>

MtThrm3(e) ==
  /\ thrm3' = e
  /\ thrm1' = ThrmUpdate(thrm1, e)
  /\ UNCHANGED <<l2cr, l2, written>>

(* Mutant: reading the register does not sample it again. *)
RefreshNever(t, e) == t

(* mfspr THRM1 samples before it answers.                                   *)
Refresh(t, e) == ThrmUpdate(t, e)

(* Mutant: the flush bit is stored as written. *)
L2crStoredAsIs(v) == [hwf |-> v.hwf, e |-> v.e]

(* mtspr L2CR: L2HWF is a command, never state.                             *)
L2crStored(v) == [hwf |-> FALSE, e |-> v.e]

(* Mutant: invalidated before the modified lines are cast out. *)
L2AfterDropped(v) ==
  IF v.hwf \/ v.inv THEN <<[dirty |-> 0, valid |-> 0], written>> ELSE <<l2, written>>

(* The modified lines are cast out when the bit goes from 0 to 1, then a    *)
(* global invalidate drops the rest.                                        *)
L2After(v) ==
  LET flushed == IF v.hwf /\ ~l2cr.hwf THEN <<[dirty |-> 0, valid |-> 0], written + l2.dirty>> ELSE <<l2, written>>
  IN  IF v.inv THEN <<[dirty |-> 0, valid |-> 0], flushed[2]>> ELSE flushed

MtL2cr(v) ==
  /\ l2cr' = L2crStored(v)
  /\ l2' = L2After(v)[1] /\ written' = L2After(v)[2]
  /\ UNCHANGED <<thrm1, thrm3>>
-----------------------------------------------------------------------------
Middle == (drv.lo + drv.hi) \div 2

(* The kernel's search: arm, poll TIV, read TIN, halve.                     *)
Arm == /\ drv.at = "arm" /\ drv.lo < drv.hi
       /\ MtThrm1(Middle)
       /\ drv' = [drv EXCEPT !.at = "enable"]
       /\ exc' = "none" /\ UNCHANGED usr

Enable == /\ drv.at = "enable"
          /\ MtThrm3(TRUE)
          /\ drv' = [drv EXCEPT !.at = "poll"]
          /\ exc' = "none" /\ UNCHANGED usr

Poll == /\ drv.at = "poll"
        /\ thrm1' = Refresh(thrm1, thrm3)
        /\ drv' = CASE ~thrm1'.tiv -> drv
                    [] thrm1'.tiv /\ thrm1'.tin -> [drv EXCEPT !.at = "arm", !.lo = Middle + 1]
                    [] thrm1'.tiv /\ ~thrm1'.tin -> [drv EXCEPT !.at = "arm", !.hi = Middle]
        /\ exc' = "none" /\ UNCHANGED <<thrm3, l2cr, l2, written, usr>>

(* Found; the unit is turned off and the L2 flushed, then disabled.         *)
Flush == /\ drv.at = "arm" /\ drv.lo = drv.hi
         /\ MtL2cr([hwf |-> TRUE, e |-> TRUE, inv |-> FALSE])
         /\ drv' = [drv EXCEPT !.at = "flushing"]
         /\ exc' = "none" /\ UNCHANGED usr

PollFlush == /\ drv.at = "flushing"
             /\ drv' = IF l2cr.hwf THEN drv ELSE [drv EXCEPT !.at = "off"]
             /\ exc' = "none" /\ UNCHANGED <<kernelVars, usr>>

TurnOff == /\ drv.at = "off"
           /\ MtL2cr([hwf |-> FALSE, e |-> FALSE, inv |-> TRUE])
           /\ drv' = [drv EXCEPT !.at = "end"]
           /\ exc' = "none" /\ UNCHANGED usr

(* A snapshot of a build that kept the registers as plain storage.          *)
Resume == /\ drv.at = "poll" /\ thrm1.tiv
          /\ thrm1' = [thrm1 EXCEPT !.tiv = FALSE, !.tin = FALSE]
          /\ exc' = "none" /\ UNCHANGED <<thrm3, l2cr, l2, written, usr, drv>>

Kernel == Arm \/ Enable \/ Poll \/ Flush \/ PollFlush \/ TurnOff

PollInit ==
  /\ thrm1 = [thr |-> 0, tid |-> FALSE, v |-> FALSE, tin |-> FALSE, tiv |-> FALSE]
  /\ thrm3 = FALSE
  /\ l2cr = [hwf |-> FALSE, e |-> TRUE]
  /\ l2 \in [dirty : 0..DirtyLines, valid : {DirtyLines}]
  /\ written = DirtyLines - l2.dirty
  /\ usr = FALSE /\ exc = "none"
  /\ drv = [at |-> "arm", lo |-> 0, hi |-> MaxThreshold]

PollNext == Kernel \/ Resume \/ \E k \in Kinds, w \in BOOLEAN : UserAccess(k, w)
-----------------------------------------------------------------------------
Init == RetryInit /\ PollInit

Next == \/ RetryNext /\ UNCHANGED polls
        \/ PollNext /\ UNCHANGED retry

(* The processor executes its next instruction sooner or later.             *)
Spec == Init /\ [][Next]_vars /\ WF_retry(RetryProgress) /\ WF_polls(Kernel)
-----------------------------------------------------------------------------
TypeOK == /\ mem \in 0..(Adds + Interrupts) /\ resv \in BOOLEAN
          /\ made \in [Actors -> 0..(Adds + Interrupts)]
          /\ thrm1 \in [thr : 0..MaxThreshold, tid : BOOLEAN, v : BOOLEAN, tin : BOOLEAN, tiv : BOOLEAN]
          /\ thrm3 \in BOOLEAN /\ l2cr \in [hwf : BOOLEAN, e : BOOLEAN]
          /\ written \in 0..DirtyLines /\ exc \in {"none", "illegal", "privileged"}

(* Increments under way: the store succeeded, the loop has not seen it yet. *)
Landed == (IF pc["task"] = "bne" /\ cr0["task"] THEN 1 ELSE 0)
          + (IF pc["handler"] = "bne" /\ cr0["handler"] THEN 1 ELSE 0)

(* No increment is lost, wherever the interrupt or the page fault fell:     *)
(* the handler's own stwcx. takes the task's reservation away (h_stwcx).    *)
NoLostUpdate == mem = made["task"] + made["handler"] + Landed

(* And the retry loop ends.                                                 *)
LoopEnds == <>(pc["task"] = "end")

(* The search ends at the temperature the unit reports, whatever is resumed *)
(* inside it, and the flush ends with every modified line in memory: both   *)
(* loops of the ROM and of the OS spin on a bit only mfspr and mtspr move.  *)
LoopsEnd == <>[](drv.at = "end" /\ drv.lo = DieTemp /\ written = DirtyLines)

(* No modified line is ever dropped: it is in the L2 or in memory.          *)
NoLineDropped == written + l2.dirty = DirtyLines
=============================================================================
