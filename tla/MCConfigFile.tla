---------------------------- MODULE MCConfigFile ----------------------------
(* ConfigFile with two backends.                                            *)
EXTENDS ConfigFile, TLC

CONSTANTS h1, h2

\* From no backend to two, the end of the new file contains an item.
ShortLists == {<<>>, <<h1>>, <<h2, h1>>}
Symmetry == Permutations(Node)
=============================================================================
