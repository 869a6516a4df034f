------------------------------- MODULE MCHeap -------------------------------
(* Heap with headers and smallest blocks of three words, as on the board.      *)
EXTENDS Heap, TLC

CONSTANTS a1, a2

MCThread == {a1, a2}
MCSizes == {1, 4, 6, 10}
Symmetry == Permutations(MCThread)
=============================================================================
