---------------------------- MODULE MCSaveRunner ----------------------------
(***************************************************************************)
(* Small instances of SaveRunner: one or two blocks, updates of one block   *)
(* that can be merged or of two that cannot, a deletion or an insertion.   *)
(***************************************************************************)
EXTENDS SaveRunner, TLC

CONSTANTS w1, w2, u2, d1, i2, b1, b2

MCKindOf == [a \in Acts |-> IF a = d1 THEN "delete" ELSE IF a = i2 THEN "insert" ELSE "update"]
MCBlockOf == [a \in Acts |-> IF a \in {u2, i2} THEN b2 ELSE b1]
\* Both are updates of b1, so they can be exchanged.
Alike == Permutations({w1, w2})
=============================================================================
