---------------------------- MODULE MCPageCache ----------------------------
(***************************************************************************)
(* Small instances of PageCache: a page with one below it that links to it *)
(* and two addresses, with room for one entry and one stamp.               *)
(***************************************************************************)
EXTENDS PageCache

CONSTANTS p1, p2, k1, k2, v1, v2

MCTags == Pages \cup {GlobalTag}
MCContents == [Tags -> Nat]
MCSubtree == [p \in Pages |-> IF p = p1 THEN Pages ELSE {p}]
MCLinks == [p \in Pages |-> IF p = p1 THEN {} ELSE {p1}]
Alike == Permutations(Visitors)
MCBytes == [k \in Keys |-> IF k = k1 THEN 1 ELSE 2]
=============================================================================
