----------------------------- MODULE MCPageLock -----------------------------
(* Two accounts with a tab each; an editor's permissions are a part of a      *)
(* publisher's, and a role may also be gone.                          *)
EXTENDS PageLock, TLC

CONSTANTS ada, ben, t1, t2, editor, publisher, edit, publish

MCUsers == {ada, ben}
MCTabs == {t1, t2}
MCUserOf == (t1 :> ada) @@ (t2 :> ben)
MCRoles == {editor, publisher}
MCGrants ==
  (editor :> {edit}) @@ (publisher :> {edit, publish}) @@ (NoRole :> {})
=============================================================================
