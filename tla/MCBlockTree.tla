---------------------------- MODULE MCBlockTree ----------------------------
(* Pages of a section in a section, and of two sections whose texts have   *)
(* no gap left between them.                                               *)
EXTENDS EditorHistory

MCTypes == {"section", "column", "text"}
MCKind == [section |-> "section", column |-> "column", text |-> "block"]
MCTakes == {<<NoType, "section">>, <<"section", "section">>, <<"section", "text">>}
MCStarters == [section |-> <<"column">>, column |-> <<>>, text |-> <<>>]
\* 5 is the order of the ids: made later, it may be read earlier.
MCRank(i) == (i * 5) % 17

Nested ==
  (1 :> Row(Root, "section", 4, 0, 2)) @@ (2 :> Row(1, "column", 4, 1, 0)) @@
  (3 :> Row(1, "column", 8, 1, 0)) @@ (4 :> Row(2, "section", 4, 2, 0)) @@
  (5 :> Row(4, "column", 4, 3, 0))
Tight ==
  (1 :> Row(Root, "section", 0, 0, 0)) @@ (2 :> Row(1, "column", 1, 1, 0)) @@
  (3 :> Row(2, "text", 1, 2, 0)) @@ (4 :> Row(2, "text", 2, 2, 0))
MCPages == {Nested, Tight}
=============================================================================
