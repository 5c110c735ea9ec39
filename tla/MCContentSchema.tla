-------------------------- MODULE MCContentSchema ---------------------------
(* One entry with fields, and one that it refers to, of two types; a third   *)
(* key for a type to be renamed to, and a second field.                      *)
EXTENDS ContentSchema, TLC

CONSTANTS A, B, e1, e2, w1, w2, kA, kB, kC

MCTypeOf == (e1 :> A) @@ (e2 :> B)
MCTypeKey0 == (A :> kA) @@ (B :> kB)
Alike == Permutations(Workers)
=============================================================================
