----------------------------- MODULE MCPageTree -----------------------------
(***************************************************************************)
(* Small instances of PageTree: a few pages and two transactions at a time. *)
(***************************************************************************)
EXTENDS PageTree

CONSTANTS p1, p2, p3, s1, s2, u1, u2, w1, w2

\* Pages that exist to begin with are told apart by their paths only.
Alike == Permutations(Pages) \cup Permutations(Slugs) \cup Permutations(Writers)

\* Trees of three pages see two transactions, smaller ones all of them.
Small == (\A p \in Pages : Exists(p)) => calls <= 2
=============================================================================
