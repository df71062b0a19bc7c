------------------------------ MODULE MCMemory ------------------------------
(***************************************************************************)
(* The memory system on small instances: the cache hierarchy (Cache) and   *)
(* address translation (Mmu), two parts that are explored one at a time.   *)
(* While one runs, the other stands as it was at reset.                    *)
(***************************************************************************)
EXTENDS Cache, Mmu, TLC

CONSTANTS A, B, C

\* Three blocks of one fetch slot.
MCBlocks == {A, B, C}
MCSlot == [b \in MCBlocks |-> 1]

\* Three write-back blocks, or one write-back, one write-through and one
\* cache-inhibited.
AllCached == [b \in MCBlocks |-> "cached"]
MCAttributes ==
  {AllCached} \cup
  {w \in [MCBlocks -> {"cached", "through", "inhibited"}] :
     \A a, b \in MCBlocks : w[a] = w[b] => a = b}

\* Neither the slot nor the attributes tell the blocks apart.
MCSymmetry == Permutations(MCBlocks)
-----------------------------------------------------------------------------
(* Two pages, in two address spaces, of one TLB set. *)

MCPages == 1..2
MCTlbSetOf == [p \in MCPages |-> 0]
MCHash == [vp \in {1, 2} \X MCPages |-> (vp[1] + vp[2]) % 2]

MCNoBat == [vs |-> FALSE, vp |-> FALSE, block |-> {}, brpn |-> "block",
            pp |-> 0, wimg |-> "plain"]
MCBatValues == {MCNoBat, [MCNoBat EXCEPT !.vs = TRUE, !.block = {1}, !.pp = 2]}

MCResetSeg == [t |-> FALSE, n |-> FALSE, ks |-> FALSE, kp |-> FALSE, vsid |-> 1]
MCSegValues == {MCResetSeg, [MCResetSeg EXCEPT !.vsid = 2, !.kp = TRUE]}

Pte(vsid, page, h, rpn, pp) ==
  [v |-> TRUE, vsid |-> vsid, page |-> page, h |-> h, rpn |-> rpn, pp |-> pp,
   r |-> FALSE, c |-> FALSE, wimg |-> "plain"]
MCNoPte == [Pte(0, 0, FALSE, 0, 0) EXCEPT !.v = FALSE]
MCPteValues == {MCNoPte, Pte(1, 1, FALSE, 7, 2), Pte(1, 2, TRUE, 9, 2),
                Pte(2, 1, FALSE, 8, 1)}
MCBootTable == [g \in {0, 1} |-> [s \in {1} |->
                  IF g = 0 THEN Pte(1, 1, FALSE, 7, 2) ELSE MCNoPte]]

Mode(ir, dr, pr, le) == [ir |-> ir, dr |-> dr, pr |-> pr, le |-> le]
MCBootMsr == Mode(TRUE, TRUE, TRUE, FALSE)
MCMsrValues == {Mode(FALSE, FALSE, FALSE, FALSE), MCBootMsr,
                Mode(TRUE, TRUE, FALSE, TRUE)}

MCDabrOff == [dr |-> FALSE, dw |-> FALSE, bt |-> FALSE, at |-> {}]
MCDabrValues == {MCDabrOff, [MCDabrOff EXCEPT !.dw = TRUE, !.bt = TRUE, !.at = {1}]}

VARIABLE part

ASSUME TranslationConstants == MmuConstants
-----------------------------------------------------------------------------
CacheAtReset ==
  /\ Init /\ wimg = AllCached
  /\ mem = [b \in Blocks |-> Zero]

MmuAtReset == MmuInit /\ program = {"fetch"}

MCInit ==
  \/ part = "cache" /\ Init /\ MmuAtReset
  \/ part = "mmu" /\ MmuInit /\ CacheAtReset

MCNext ==
  \/ part = "cache" /\ Next /\ UNCHANGED <<part, mmuVars>>
  \/ part = "mmu" /\ MmuNext /\ UNCHANGED <<part, vars>>

MCSpec == MCInit /\ [][MCNext]_<<part, vars, mmuVars>>
=============================================================================
