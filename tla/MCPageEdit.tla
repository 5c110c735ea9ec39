----------------------------- MODULE MCPageEdit -----------------------------
(* Two accounts, one of them with a second tab.                              *)
EXTENDS PageEdit, TLC

CONSTANTS ada, ben, t1, t2, t3

MCUsers == {ada, ben}
MCTabs == {t1, t2, t3}
MCUserOf == (t1 :> ada) @@ (t2 :> ben) @@ (t3 :> ben)
=============================================================================
