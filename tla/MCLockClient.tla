---------------------------- MODULE MCLockClient ----------------------------
(***************************************************************************)
(* A small instance of LockClient: two accounts with a tab each.           *)
(***************************************************************************)
EXTENDS LockClient

CONSTANTS u1, u2, t1, t2

MCUserOf == [t \in Tabs |-> IF t = t2 THEN u2 ELSE u1]
=============================================================================
