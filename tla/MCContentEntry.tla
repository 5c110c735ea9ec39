--------------------------- MODULE MCContentEntry ---------------------------
(* Two locales and two accounts; content types with and without drafts, of *)
(* every setting of their revisions, and a singleton.                      *)
EXTENDS ContentEntry, TLC

MCLocales == <<"nl", "fr">>
Of(drafts, revisions, singleton) ==
  [drafts |-> drafts, revisions |-> revisions, singleton |-> singleton]
MCSettings ==
  {Of(TRUE, "on_publish", FALSE), Of(TRUE, "on_every_save", FALSE),
   Of(FALSE, "off", FALSE), Of(TRUE, "on_publish", TRUE)}
Alike == Permutations(Writers)
=============================================================================
