---------------------------- MODULE MCAcceptLoop ----------------------------
(* AcceptLoop on a few clients and descriptors.                             *)
EXTENDS AcceptLoop, TLC

Symmetry == Permutations(Client)
=============================================================================
