---------------------------- MODULE MCGraphStore ----------------------------
(* The property graph with three node IDs and one reader.                  *)
EXTENDS GraphStore, TLC

Symmetric == Permutations(NodeIDs) \cup Permutations(NodeClasses)

=============================================================================
