------------------------------ MODULE MCEngine ------------------------------
(* Engine on two backends, two monitor threads and two counter arrays.      *)
EXTENDS Engine, TLC

CONSTANTS p1, p2

\* The empty list (a truncated file, or no container), two lists of one
\* element, and two lists of two that differ in their order.
ScalerLists == {<<>>, <<p1>>, <<p2, p1>>}
Singles == {<<>>, <<p1>>, <<p2>>}
Reordered == {<<>>, <<p1, p2>>, <<p2, p1>>}
Symmetry == Permutations(Tid) \cup Permutations(Addr)
=============================================================================
