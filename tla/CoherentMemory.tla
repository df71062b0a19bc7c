--------------------------- MODULE CoherentMemory ---------------------------
(***************************************************************************)
(* What the data caches, the backside L2 and the fetch lines promise       *)
(* together: one memory.  Whoever reads a block - the processor, the fetch *)
(* path or a bus master - gets the value last written to it by anyone, and *)
(* only an instruction whose purpose is to lose modified data (dcbi, or    *)
(* HID0[DCFI]) may bring an older value back.                              *)
(*                                                                         *)
(* A step answers the request it records in last, so which requests may    *)
(* change the memory, and where, is part of what is promised.              *)
(***************************************************************************)
CONSTANTS Blocks, Values

VARIABLES
  store,   \* the value of each block
  older,   \* the older values of each block that may still come back
  last     \* the last request: what was read, written or discarded

vars == <<store, older, last>>

None == <<"none">>

Init ==
  /\ store \in [Blocks -> Values]
  /\ older = [b \in Blocks |-> {store[b]}]
  /\ last = None

\* Whatever may come back is a value the block has had.
Age ==
  \A b \in Blocks : older'[b] \subseteq older[b] \cup {store[b], store'[b]}

Read(b) ==
  /\ last' = <<"read", b, store[b]>>
  /\ UNCHANGED store
  /\ Age

Write(b, v) ==
  /\ last' = <<"write", b, v>>
  /\ store' = [store EXCEPT ![b] = v]
  /\ Age

\* The discarded blocks return to an older value, and the others stay.
Discard(bs) ==
  /\ last' = <<"discard", bs>>
  /\ store' \in [Blocks -> Values]
  /\ \A b \in Blocks : IF b \in bs THEN store'[b] \in older[b]
                                   ELSE store'[b] = store[b]
  /\ Age

\* Pushes, flushes, invalidations of clean copies and changes of mode.
Keep ==
  /\ last' = None
  /\ UNCHANGED store
  /\ Age

Next ==
  \/ Keep
  \/ \E b \in Blocks : Read(b)
  \/ \E b \in Blocks, v \in Values : Write(b, v)
  \/ \E bs \in SUBSET Blocks : Discard(bs)

Spec == Init /\ [][Next]_vars
=============================================================================
