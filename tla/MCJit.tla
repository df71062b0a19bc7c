------------------------------- MODULE MCJit -------------------------------
(***************************************************************************)
(* Two pages of two lines of two words, two fetch slots, so that the lines *)
(* of one page conflict with those of the other.                           *)
(***************************************************************************)
EXTENDS Jit

Word(op, to) == [op |-> op, to |-> to]

Alu == Word("alu", 0)
Mem == Word("mem", 0)
Fp == Word("fp", 0)
Mtmsr == Word("mtmsr", 0)
Remap == Word("remap", 0)
Br(to) == Word("br", to)

Memory(a, b, c, d) ==
    [l \in 0..3 |-> CASE l = 0 -> a [] l = 1 -> b [] l = 2 -> c [] l = 3 -> d]

(* Line 0 holds the exception handler.  The first program has two exits    *)
(* into line 1, a loop inside line 1, and turns its pages round in line 3; *)
(* the second stores and computes.                                         *)
MCPrograms ==
    {Memory(<<Br(2), Mem>>, <<Mtmsr, Br(2)>>, <<Alu, Fp>>, <<Remap, Br(0)>>),
     Memory(<<Alu, Fp>>, <<Mem, Br(0)>>, <<Br(6), Mem>>, <<Mtmsr, Br(4)>>)}

MCPatches == {<<Alu, Fp>>}

MCContents == MCPatches \cup UNION {{p[l] : l \in 0..3} : p \in MCPrograms}

MCMsrs == {[ir |-> FALSE, ee |-> FALSE, fe |-> FALSE],
           [ir |-> TRUE, ee |-> TRUE, fe |-> TRUE]}
============================================================================
