--------------------------- MODULE MCBlockHistory ---------------------------
(* Pages of two blocks, of which one at least is stored at an old version; *)
(* a third id is for what comes back.                                      *)
EXTENDS BlockHistory, TLC

MCPages ==
  UNION {{[b \in two |-> IF b \in old THEN 1 ELSE 2] : old \in SUBSET two \ {{}}} :
           two \in {two \in SUBSET Blocks : Cardinality(two) = 2}}
Alike == Permutations(Writers) \cup Permutations(Blocks)
=============================================================================
