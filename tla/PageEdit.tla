------------------------------ MODULE PageEdit ------------------------------
(***************************************************************************)
(* How the editor's server opens a page and applies batches of edits to it *)
(* under the page's lock: openPage and readTree (editor/src/server/api/    *)
(* session.ts), editPage and applyBlockEdit (edit.ts, pages/src/edit-      *)
(* batch.ts), and the column upgrade that rewrites an old tree on open and *)
(* at boot (pages/src/columns.ts).  The lock is EditLock's promise; who is   *)
(* permitted what is left open, so any request may be refused.             *)
(*                                                                         *)
(* An open is several requests to the database: it tries the lock, then    *)
(* upgrades the tree, then reads the version, then reads the tree.  Each   *)
(* is a step, and anything may happen in between.                          *)
(***************************************************************************)
EXTENDS EditLock

VARIABLES
  content,    \* how many writes the page's block tree has received
  legacy,     \* the stored tree still has sections without columns
  view,       \* per tab: how far its open got, its base version, and how many
              \* of the tree's writes it has seen
  displaced   \* history: tabs whose account lost the lock to a takeover since
              \* they last read the page

treeVars == <<content, legacy>>
editVars == <<content, legacy, view, displaced>>
pageVars == <<rowVars, editVars>>

\* "upgrade", "version" and "tree" name the step an open is about to take.
Phases == {"closed", "upgrade", "version", "tree", "open"}

ClosedView == [phase |-> "closed", base |-> 0, seen |-> 0]

EditTypeOK ==
  /\ content \in Nat
  /\ legacy \in BOOLEAN
  /\ view \in [Tabs -> [phase : Phases, base : Nat, seen : Nat]]
  /\ displaced \in SUBSET Tabs

EditInit ==
  /\ RowInit
  /\ content = 0
  /\ legacy \in BOOLEAN
  /\ view = [t \in Tabs |-> ClosedView]
  /\ displaced = {}

-----------------------------------------------------------------------------
(* Lock requests around the page.                                          *)

\* The reading tabs of the account that a takeover by u displaces.
LosersTo(u) ==
  {t \in Tabs : /\ UserOf[t] = lockedBy /\ lockedBy # u
                /\ view[t].phase \in {"tree", "open"}}

TakeOverLock(t) ==
  /\ TakeOver(UserOf[t])
  /\ displaced' = displaced \cup LosersTo(UserOf[t])
  /\ UNCHANGED <<treeVars, view>>

OtherLockStep(t) ==
  /\ Acquire(UserOf[t]) \/ Renew(UserOf[t]) \/ Release(UserOf[t])
  /\ UNCHANGED editVars

SettingsOrTime == (Tick \/ SetLocking) /\ UNCHANGED editVars

-----------------------------------------------------------------------------
(* Opening and reading.                                                    *)

\* Being refused the lock, because someone else holds it or because locking
\* is off, does not stop the open.
OpenPage(t) ==
  /\ view[t].phase = "closed"
  /\ view' = [view EXCEPT ![t].phase = "upgrade"]
  /\ IF Acquirable(UserOf[t]) THEN HoldLock(UserOf[t]) ELSE UNCHANGED lockVars
  /\ UNCHANGED <<enabled, version, treeVars, displaced>>

\* A write to the tree bumps the page's version.
WriteTreeUnversioned ==
  version < MaxVersion /\ version' = version /\ content' = content + 1
WriteTree ==
  version < MaxVersion /\ version' = version + 1 /\ content' = content + 1

\* upgradeSectionColumns on behalf of u (NoUser: the boot-time upgrade).
UpgradeIgnoringLock(u) == legacy /\ WriteTree /\ legacy' = FALSE
UpgradeSectionColumns(u) ==
  legacy /\ Writable(u) /\ WriteTree /\ legacy' = FALSE

BootUpgrade ==
  /\ UpgradeSectionColumns(NoUser)
  /\ UNCHANGED <<enabled, lockVars, view, displaced>>

OpenUpgrade(t) ==
  /\ view[t].phase = "upgrade"
  /\ view' = [view EXCEPT ![t].phase = "version"]
  /\ \/ UpgradeSectionColumns(UserOf[t])
     \/ ~(legacy /\ Writable(UserOf[t])) /\ UNCHANGED <<version, treeVars>>
  /\ UNCHANGED <<enabled, lockVars, displaced>>

\* getPage reads the version, and only then does readBlockTree read the tree.
NextReadTreeFirst(t) ==
  IF view[t].phase = "tree"
  THEN [view EXCEPT ![t].phase = "open", ![t].base = version]
  ELSE [view EXCEPT ![t].phase = "tree", ![t].seen = content]
NextRead(t) ==
  IF view[t].phase = "tree"
  THEN [view EXCEPT ![t].phase = "open", ![t].seen = content]
  ELSE [view EXCEPT ![t].phase = "tree", ![t].base = version]

\* An open's first read, and that of a later readTree of an open page.
ReadVersion(t) ==
  /\ view[t].phase \in {"version", "open"}
  /\ view' = NextRead(t)
  /\ displaced' = displaced \ {t}
  /\ UNCHANGED <<rowVars, treeVars>>

ReadTree(t) ==
  /\ view[t].phase = "tree"
  /\ view' = NextRead(t)
  /\ UNCHANGED <<rowVars, treeVars, displaced>>

Leave(t) ==
  /\ view[t].phase = "open"
  /\ view' = [view EXCEPT ![t] = ClosedView]
  /\ displaced' = displaced \ {t}
  /\ UNCHANGED <<rowVars, treeVars>>

-----------------------------------------------------------------------------
(* Editing.                                                                *)

\* applyBlockEdit refuses any other base version with StalePageVersionError.
BaseCurrent(t) == view[t].base = version

\* applyBlockEdit and its answer.  The tree the answer carries is read after
\* the commit and may be newer; what the tab has seen for certain is its own
\* write on top of what it knew.  A lost answer leaves the view as it was.
EditPage(t) ==
  /\ view[t].phase = "open"
  /\ BaseCurrent(t)
  /\ Writable(UserOf[t])
  /\ WriteTree
  /\ \/ view' = [view EXCEPT ![t].base = version + 1, ![t].seen = @ + 1]
     \/ UNCHANGED view
  /\ UNCHANGED <<enabled, lockVars, legacy, displaced>>

-----------------------------------------------------------------------------
TabStep(t) ==
  \/ OtherLockStep(t)
  \/ TakeOverLock(t)
  \/ OpenPage(t)
  \/ OpenUpgrade(t)
  \/ ReadVersion(t)
  \/ ReadTree(t)
  \/ EditPage(t)
  \/ Leave(t)

EditNext ==
  \/ SettingsOrTime
  \/ BootUpgrade
  \/ \E t \in Tabs : TabStep(t)

EditSpec == EditInit /\ [][EditNext]_pageVars

-----------------------------------------------------------------------------
(* Properties.                                                             *)

\* A tab whose account was displaced by a takeover writes nothing more until
\* it has read the page again, even if the lock is free, lapsed, switched off
\* or its own once more (rule D-42: the takeover's version bump fences it).
DisplacedTabFenced ==
  [][\A t \in Tabs : EditPage(t) => t \notin displaced]_pageVars

\* No lost update: an accepted batch was built on a tree that already held
\* every earlier write to the page, although the tab's version and tree are
\* read by separate queries and other writers run in between.
EditBuiltOnWholeTree ==
  [][\A t \in Tabs : EditPage(t) => view[t].seen = content]_pageVars

\* While locking is on, nobody but the live holder changes the page under it:
\* no other tab's batch, no open's column upgrade, no boot-time upgrade.
LiveLockShieldsPage ==
  [][(enabled /\ Live /\ content' # content)
       => \E t \in Tabs : /\ UserOf[t] = lockedBy
                          /\ EditPage(t) \/ OpenUpgrade(t)]_pageVars

-----------------------------------------------------------------------------
(* The inductive strengthening behind them.                                *)

\* A tab's base version never runs ahead of the tree it has read.
ViewBehindPage ==
  \A t \in Tabs :
    /\ view[t].phase \in {"tree", "open"} => view[t].base <= version
    /\ (view[t].phase = "open" /\ view[t].base = version)
         => view[t].seen = content

\* A displaced tab's base version is out of date.
DisplacedBehind ==
  \A t \in displaced :
    view[t].phase \in {"tree", "open"} => view[t].base < version

EditIndInv == RowTypeOK /\ EditTypeOK /\ ViewBehindPage /\ DisplacedBehind
=============================================================================
