--------------------------- MODULE EditLock_proofs ---------------------------
(***************************************************************************)
(* Proofs about the lock of a page and those who work under it.            *)
(*                                                                         *)
(* PageLock: its inductive invariant, the rule that a live holder is       *)
(* displaced only by someone who outranks its current role, and that it    *)
(* implements the permission-free EditLock.                                *)
(*                                                                         *)
(* PageEdit: its inductive invariant, that no accepted batch overwrites    *)
(* work its author has not seen, and that a tab displaced by a takeover    *)
(* writes nothing more until it has read the page again.                   *)
(*                                                                         *)
(* LockClient, for any accounts, tabs, TTL and number of beats that may    *)
(* fail: what editor tabs do to the lock row EditLock allows, and when     *)
(* requests end within their heartbeat interval, the countdown is honest   *)
(* and a displaced tab stops editing in time.                              *)
(***************************************************************************)
EXTENDS PageLock, PageEdit, LockClient, TLAPS

-----------------------------------------------------------------------------
(* PageLock.                                                               *)

\* Every transaction on the row keeps it well typed.
LEMMA RowStepTyped ==
  ASSUME EditLockAssumption, RowTypeOK, RowNext \/ UNCHANGED rowVars
  PROVE  RowTypeOK'
BY DEF EditLockAssumption, RowTypeOK, RowNext, Tick, SetLocking, Acquire,
       Renew, Release, TakeOver, HoldLock, FencingVersion, lockVars, rowVars

\* Whatever a step of PageLock does to the row, EditLock allows.
LEMMA StepIsRowStep ==
  ASSUME EditLockAssumption, Next \/ UNCHANGED vars
  PROVE  RowNext \/ UNCHANGED rowVars
BY DEF EditLockAssumption, Next, vars, WorldStep, LockStep, TimePasses,
       ChangeRole, SetPageEditLocking, Permitted, AcquirePageLock,
       RenewPageLock, ReleasePageLock, TakeOverRead, TakeOverCompare,
       TakeOverCommit, TakeOverFail, RowNext

\* The initial states satisfy the inductive invariant.
LEMMA InitIndInv == ASSUME EditLockAssumption, RolesAssumption, Init
                    PROVE  IndInv
BY DEF EditLockAssumption, RolesAssumption, Init, RowInit, IndInv, TypeOK,
       RowTypeOK, RequestCompared, LiveHadHolder, Contested, NoRequest,
       Requests, AnyRole

\* Every step preserves it.  Only a comparison can establish a new "compared"
\* request, and the permissions of a role are constants, so a request that
\* compared well stays compared well whatever roles become.
LEMMA NextIndInv == ASSUME EditLockAssumption, RolesAssumption,
                           IndInv, Next \/ UNCHANGED vars
                    PROVE  IndInv'
<1> DEFINE Takeovers ==
      takeover \in [Tabs -> Requests] /\ RequestCompared /\ LiveHadHolder
<1>1. RowTypeOK'
  BY RowStepTyped, StepIsRowStep DEF IndInv, TypeOK
<1>2. role' \in [Users -> AnyRole]
  BY DEF IndInv, TypeOK, Next, vars, WorldStep, LockStep, TimePasses,
         ChangeRole, SetPageEditLocking, Permitted, AcquirePageLock,
         RenewPageLock, ReleasePageLock, TakeOverRead, TakeOverCompare,
         TakeOverCommit, TakeOverFail
<1>3. Takeovers'
  <2> USE DEF IndInv, TypeOK, RowTypeOK, RequestCompared, LiveHadHolder,
             Contested, Requests
  <2>1. CASE UNCHANGED takeover
    BY <2>1
  <2>2. ASSUME NEW t \in Tabs, TakeOverRead(t)
        PROVE  Takeovers'
    BY <2>2, EditLockAssumption, RolesAssumption
       DEF TakeOverRead, EditLockAssumption, RolesAssumption, AnyRole, Live
  <2>3. ASSUME NEW t \in Tabs, TakeOverCompare(t)
        PROVE  Takeovers'
    <3>1. ComparedRole(t) \in AnyRole
      BY DEF ComparedRole, AnyRole
    <3>2. Contested(t) => Includes(takeover[t].actorRole, ComparedRole(t))
      BY <2>3 DEF TakeOverCompare, Outranks, ComparedRole
    <3>3. QED
      BY <2>3, <3>1, <3>2 DEF TakeOverCompare
  <2>4. ASSUME NEW t \in Tabs, takeover' = [takeover EXCEPT ![t] = NoRequest]
        PROVE  Takeovers'
    BY <2>4 DEF NoRequest, AnyRole
  <2>5. QED
    BY <2>1, <2>2, <2>3, <2>4
       DEF Next, vars, WorldStep, LockStep, TimePasses, ChangeRole,
           SetPageEditLocking, Permitted, AcquirePageLock, RenewPageLock,
           ReleasePageLock, TakeOverCommit, TakeOverFail
<1>4. QED
  BY <1>1, <1>2, <1>3 DEF IndInv, TypeOK

\* The lock row, the roles and the takeover requests stay well typed, and every
\* request that is ready to displace a live holder has compared permissions
\* with the role it recorded (takeOverPageLock's pre-check).
THEOREM LockInvariant == Spec => []IndInv
<1> USE EditLockAssumption, RolesAssumption
<1>1. Init => IndInv
  BY InitIndInv
<1>2. IndInv /\ [Next]_vars => IndInv'
  BY NextIndInv
<1>3. QED
  BY <1>1, <1>2, PTL DEF Spec

\* Rule D-44 for any users, roles, permissions, number of tabs and TTL: whoever
\* displaces a live holder outranks the role that holder has at that moment.
THEOREM OnlyOutrankingDisplaces == Spec => LiveHolderOutranked
<1> USE EditLockAssumption, RolesAssumption
<1> DEFINE Displaced ==
      \A h \in Users : \A t \in Tabs :
        (lockedBy = h /\ Live /\ lockedBy' = UserOf[t] /\ UserOf[t] # h)
          => \E s \in Tabs : /\ UserOf[s] = UserOf[t]
                             /\ takeover[s].stage = "compared"
                             /\ Includes(takeover[s].actorRole, role[h])
<1>1. IndInv /\ [Next]_vars => [Displaced]_vars
  <2> SUFFICES ASSUME IndInv, Next,
                      NEW h \in Users, NEW t \in Tabs,
                      lockedBy = h, Live, lockedBy' = UserOf[t], UserOf[t] # h
               PROVE  \E s \in Tabs : /\ UserOf[s] = UserOf[t]
                                      /\ takeover[s].stage = "compared"
                                      /\ Includes(takeover[s].actorRole, role[h])
    OBVIOUS
  <2>1. PICK s \in Tabs : TakeOverCommit(s)
    BY DEF EditLockAssumption, Next, WorldStep, LockStep, TimePasses,
           ChangeRole, SetPageEditLocking, SetLocking, Tick, Permitted,
           AcquirePageLock, RenewPageLock, ReleasePageLock, TakeOverRead,
           TakeOverCompare, TakeOverFail, Acquire, Renew, Release, Acquirable,
           LiveForOther, HoldLock, rowVars, lockVars
  <2>2. UserOf[s] = UserOf[t] /\ takeover[s].stage = "compared"
    BY <2>1 DEF TakeOverCommit, TakeOver, HoldLock
  <2>3. takeover[s].holder = h /\ Contested(s) /\ role[h] = takeover[s].holderRole
    BY <2>1, <2>2 DEF TakeOverCommit, StateChanged, HolderChanged,
       ComparisonOutdated, ComparisonSkipped, LiveForOther, Contested,
       IndInv, TypeOK, Requests
  <2>4. Includes(takeover[s].actorRole, role[h])
    BY <2>2, <2>3 DEF IndInv, RequestCompared
  <2>5. QED
    BY <2>2, <2>4
<1>2. QED
  BY <1>1, LockInvariant, PTL DEF Spec, LiveHolderOutranked

\* What PageEdit relies on: with roles, permissions and the two-phase takeover,
\* the row still behaves as EditLock says.
THEOREM PageLockImplementsEditLock == Spec => RowSpec
<1> USE EditLockAssumption
<1>1. Init => RowInit
  BY DEF Init
<1>2. [Next]_vars => [RowNext]_rowVars
  BY StepIsRowStep
<1>3. QED
  BY <1>1, <1>2, PTL DEF Spec, RowSpec

-----------------------------------------------------------------------------
(* PageEdit.                                                               *)

\* No tab has read anything yet.
LEMMA InitEditIndInv ==
  ASSUME EditLockAssumption, EditInit
  PROVE  EditIndInv
BY DEF EditLockAssumption, EditInit, RowInit, EditIndInv, RowTypeOK,
       EditTypeOK, ViewBehindPage, DisplacedBehind, ClosedView, Phases

\* A step that leaves the tree and the views alone and does not turn the
\* page's version back keeps every view behind the page, because the tabs
\* whose base version was current stay so only if the version stays.
LEMMA LockOnlyStep ==
  ASSUME EditLockAssumption, EditIndInv, RowTypeOK',
         UNCHANGED <<treeVars, view>>,
         version' >= version,
         displaced' = displaced \/ (version' > version /\ displaced' \in SUBSET Tabs)
  PROVE  EditIndInv'
<1> USE DEF EditIndInv, EditTypeOK, RowTypeOK, treeVars
<1>1. EditTypeOK'
  OBVIOUS
<1>2. ViewBehindPage'
  BY DEF ViewBehindPage
<1>3. DisplacedBehind'
  BY DEF DisplacedBehind, ViewBehindPage
<1>4. QED
  BY <1>1, <1>2, <1>3

\* A write by anyone leaves every tab that does not see it behind the page.
LEMMA WriteStep ==
  ASSUME EditLockAssumption, EditIndInv, WriteTree, legacy' \in BOOLEAN,
         UNCHANGED <<enabled, lockVars, displaced>>,
         view' \in [Tabs -> [phase : Phases, base : Nat, seen : Nat]],
         \A t \in Tabs : view'[t] = view[t] \/ view'[t].phase = "version"
  PROVE  EditIndInv'
<1> USE DEF EditIndInv, EditTypeOK, RowTypeOK, WriteTree, lockVars
<1>1. RowTypeOK' /\ EditTypeOK' /\ version' = version + 1
  OBVIOUS
<1>2. \A t \in Tabs : view[t].base \in Nat
  OBVIOUS
<1>3. ViewBehindPage'
  BY <1>1, <1>2 DEF ViewBehindPage
<1>4. DisplacedBehind'
  BY <1>1, <1>2 DEF DisplacedBehind
<1>5. QED
  BY <1>1, <1>3, <1>4

\* Every step preserves the invariant.
LEMMA NextEditIndInv ==
  ASSUME EditLockAssumption, EditIndInv, EditNext \/ UNCHANGED pageVars
  PROVE  EditIndInv'
<1> USE EditLockAssumption DEF EditLockAssumption
<1>1. CASE UNCHANGED pageVars
  BY <1>1 DEF pageVars, rowVars, editVars, EditIndInv, RowTypeOK, EditTypeOK,
              ViewBehindPage, DisplacedBehind
<1>2. CASE SettingsOrTime
  <2>1. RowTypeOK' /\ version' = version
    BY <1>2 DEF SettingsOrTime, Tick, SetLocking, EditIndInv, RowTypeOK, lockVars
  <2>2. QED
    BY <1>2, <2>1, LockOnlyStep
       DEF SettingsOrTime, editVars, treeVars, EditIndInv, RowTypeOK
<1>3. CASE BootUpgrade
  BY <1>3, WriteStep
     DEF BootUpgrade, UpgradeSectionColumns, EditIndInv, EditTypeOK
<1>4. ASSUME NEW t \in Tabs, TabStep(t)
      PROVE  EditIndInv'
  <2> USE DEF EditIndInv, RowTypeOK
  <2>1. CASE OtherLockStep(t)
    <3>1. RowTypeOK' /\ version' = version
      BY <2>1 DEF OtherLockStep, Acquire, Renew, Release, HoldLock
    <3>2. QED
      BY <2>1, <3>1, LockOnlyStep DEF OtherLockStep, editVars, treeVars
  <2>2. CASE TakeOverLock(t)
    <3>1. RowTypeOK' /\ version' = version + 1
      BY <2>2 DEF TakeOverLock, TakeOver, HoldLock, FencingVersion
    <3>2. displaced' \in SUBSET Tabs
      BY <2>2 DEF TakeOverLock, LosersTo, EditTypeOK
    <3>3. QED
      BY <2>2, <3>1, <3>2, LockOnlyStep DEF TakeOverLock, treeVars
  <2> USE DEF EditTypeOK, Phases, ViewBehindPage, DisplacedBehind
  <2>3. CASE OpenPage(t)
    BY <2>3 DEF OpenPage, HoldLock, lockVars, treeVars
  <2>4. CASE OpenUpgrade(t)
    <3>1. /\ view' = [view EXCEPT ![t].phase = "version"]
          /\ UNCHANGED <<enabled, lockVars, displaced>>
      BY <2>4 DEF OpenUpgrade
    <3>2. CASE UpgradeSectionColumns(UserOf[t])
      <4>1. view' \in [Tabs -> [phase : Phases, base : Nat, seen : Nat]]
        BY <3>1
      <4>2. \A s \in Tabs : view'[s] = view[s] \/ view'[s].phase = "version"
        BY <3>1
      <4>3. QED
        BY <3>1, <3>2, <4>1, <4>2, WriteStep DEF UpgradeSectionColumns
    <3>3. CASE UNCHANGED <<version, treeVars>>
      BY <3>1, <3>3 DEF lockVars, treeVars
    <3>4. QED
      BY <2>4, <3>2, <3>3 DEF OpenUpgrade
  <2>5. CASE ReadVersion(t)
    <3>1. view' = [view EXCEPT ![t].phase = "tree", ![t].base = version]
      BY <2>5 DEF ReadVersion, NextRead
    <3>2. /\ view'[t].phase = "tree" /\ view'[t].base = version
          /\ \A s \in Tabs : s # t => view'[s] = view[s]
          /\ view' \in [Tabs -> [phase : Phases, base : Nat, seen : Nat]]
      BY <3>1
    <3>3. UNCHANGED <<rowVars, treeVars>> /\ displaced' = displaced \ {t}
      BY <2>5 DEF ReadVersion
    <3>4. QED
      BY <3>2, <3>3 DEF rowVars, treeVars
  <2>6. CASE ReadTree(t)
    BY <2>6 DEF ReadTree, NextRead, rowVars, treeVars
  <2>7. CASE EditPage(t)
    BY <2>7 DEF EditPage, BaseCurrent, WriteTree, lockVars
  <2>8. CASE Leave(t)
    BY <2>8 DEF Leave, ClosedView, rowVars, treeVars
  <2>9. QED
    BY <1>4, <2>1, <2>2, <2>3, <2>4, <2>5, <2>6, <2>7, <2>8 DEF TabStep
<1>5. QED
  BY <1>1, <1>2, <1>3, <1>4 DEF EditNext

\* Every open tab's base version is at most the page's, and one whose base
\* version is the page's has seen the whole tree.
THEOREM EditInvariant == EditSpec => []EditIndInv
<1> USE EditLockAssumption
<1>1. EditInit => EditIndInv
  BY InitEditIndInv
<1>2. EditIndInv /\ [EditNext]_pageVars => EditIndInv'
  BY NextEditIndInv
<1>3. QED
  BY <1>1, <1>2, PTL DEF EditSpec

\* No lost update, for any number of tabs, users, opens, upgrades and
\* takeovers: an accepted batch was built on a tree with every earlier write.
THEOREM NoLostUpdate == EditSpec => EditBuiltOnWholeTree
<1>1. EditIndInv => \A t \in Tabs : EditPage(t) => view[t].seen = content
  BY DEF EditIndInv, ViewBehindPage, EditPage, BaseCurrent
<1>2. QED
  BY <1>1, EditInvariant, PTL DEF EditBuiltOnWholeTree

\* Rule D-42: after a takeover the previous holder's tabs are fenced off until
\* they read the page again, whatever has become of the lock since.
THEOREM TakeoverFences == EditSpec => DisplacedTabFenced
<1>1. EditIndInv => \A t \in Tabs : EditPage(t) => t \notin displaced
  BY DEF EditIndInv, RowTypeOK, EditTypeOK, DisplacedBehind, EditPage, BaseCurrent
<1>2. QED
  BY <1>1, EditInvariant, PTL DEF DisplacedTabFenced

\* Under a live lock only the holder writes the tree: not another tab, and no
\* upgrade of the section columns, that of an open or that of the boot (columns.ts).
THEOREM LiveLockHolds == EditSpec => LiveLockShieldsPage
<1>1. ASSUME EditIndInv, [EditNext]_pageVars, enabled, Live, content' # content
      PROVE  \E t \in Tabs : UserOf[t] = lockedBy /\ (EditPage(t) \/ OpenUpgrade(t))
  <2>1. content \in Nat /\ NoUser \notin Users /\ UserOf \in [Tabs -> Users] /\ lockedBy # NoUser
    BY <1>1, EditLockAssumption DEF EditIndInv, EditTypeOK, Live
  <2>2. \A u : Writable(u) => u = lockedBy
    BY <1>1 DEF Writable, LiveForOther
  <2>3. ~ BootUpgrade
    BY <2>1, <2>2 DEF BootUpgrade, UpgradeSectionColumns
  <2>4. ~ SettingsOrTime /\ ~ UNCHANGED pageVars
    BY <1>1 DEF SettingsOrTime, editVars, treeVars, pageVars
  <2>5. PICK t \in Tabs : TabStep(t)
    BY <1>1, <2>3, <2>4 DEF EditNext
  <2>6. EditPage(t) \/ OpenUpgrade(t)
    BY <1>1, <2>5 DEF TabStep, OtherLockStep, TakeOverLock, OpenPage, ReadVersion, ReadTree, Leave,
          editVars, treeVars
  <2>7. Writable(UserOf[t])
    BY <1>1, <2>6 DEF EditPage, OpenUpgrade, UpgradeSectionColumns, treeVars
  <2> QED
    BY <2>2, <2>6, <2>7
<1>2. EditIndInv /\ [EditNext]_pageVars =>
        ((enabled /\ Live /\ content' # content)
           => \E t \in Tabs : /\ UserOf[t] = lockedBy
                              /\ EditPage(t) \/ OpenUpgrade(t))
  BY <1>1
<1>3. QED
  BY <1>2, EditInvariant, PTL DEF LiveLockShieldsPage, EditSpec

-----------------------------------------------------------------------------
(* LockClient.                                                             *)

BeatSteps == {"renew", "acquire", "view", "again", "againView", "refused"}
OpenSteps == {"open", "openView"}

Types == /\ RowTypeOK /\ tab \in [Tabs -> TabState] /\ releases \subseteq Tabs
         /\ lockedOut \in [Tabs -> 0..MaxMisses + 2] /\ switched \in BOOLEAN

\* What a tab waits for goes with what it is: only a tab that edits beats, and only one that opens has no
\* release on its way.
Shaped ==
  \A t \in Tabs :
    /\ tab[t].runs => tab[t].status \in {"editing", "locked"}
    /\ tab[t].pc \in BeatSteps => Beats(t)
    /\ tab[t].pc = "poll" => tab[t].status = "locked"
    /\ tab[t].pc \in OpenSteps => tab[t].status \in {"opening", "locked"}
    /\ tab[t].status = "opening" => t \notin releases

\* With locking off from the start no one is ever locked out, beats or holds the lock.
OffMeansFree ==
  ~switched /\ ~enabled =>
    /\ lockedBy = NoUser /\ releases = {}
    /\ \A t \in Tabs : tab[t].status # "locked" /\ ~Beats(t)

\* Between what a request did to the lock and its answer no time passes.
AnswersAtOnce ==
  \A t \in Tabs : ~switched /\ tab[t].pc \in {"view", "againView", "openView"} /\ lockedBy = UserOf[t] => age = 0

\* A tab that beats, or that may be shown again before its release arrives, counts from no later than the
\* lock does.
CountsFromLock ==
  \A t \in Tabs :
    ~switched /\ (Beats(t) \/ t \in releases) /\ lockedBy = UserOf[t] => age <= tab[t].sinceRenew

\* A displaced tab has missed a beat for each interval but the one under way.
MissesCount ==
  \A t \in Tabs :
    /\ lockedOut[t] > 0 => Beats(t)
    /\ lockedOut[t] <= tab[t].misses + 1
    /\ tab[t].pc \notin BeatSteps /\ ~tab[t].due => lockedOut[t] <= tab[t].misses

IInv == Types /\ Shaped /\ OffMeansFree /\ AnswersAtOnce /\ CountsFromLock /\ MissesCount

USE EditLockAssumption, LockClientAssumption

-----------------------------------------------------------------------------
(* One tab's step.                                                         *)

\* The row stays, or the lock is taken, renewed or released; it is taken with locking off only after a switch.
RowMoves ==
  /\ RowTypeOK' /\ enabled' = enabled
  /\ UNCHANGED lockVars \/ (age' = 0 /\ (switched \/ enabled \/ lockedBy' = NoUser))

BeatsAs(s) == s.status = "editing" /\ s.runs

\* What IInv asks of the tab t as it becomes s, with the row and the releases as they become.
Fits(t, s) ==
  /\ s.runs => s.status \in {"editing", "locked"}
  /\ s.pc \in BeatSteps => BeatsAs(s)
  /\ s.pc = "poll" => s.status = "locked"
  /\ s.pc \in OpenSteps => s.status \in {"opening", "locked"}
  /\ s.status = "opening" => t \notin releases'
  /\ ~switched /\ ~enabled => t \notin releases' /\ s.status # "locked" /\ ~BeatsAs(s)
  /\ ~switched /\ s.pc \in {"view", "againView", "openView"} /\ lockedBy' = UserOf[t] => age' = 0
  /\ ~switched /\ (BeatsAs(s) \/ t \in releases') /\ lockedBy' = UserOf[t] => age' <= s.sinceRenew
  /\ BeatsAs(s) /\ enabled /\ LiveForOther(UserOf[t])' =>
       /\ lockedOut[t] <= s.misses + 1
       /\ s.pc \notin BeatSteps /\ ~s.due => lockedOut[t] <= s.misses

LEMMA CountingFalls ==
  ASSUME IInv, Counting
  PROVE  /\ lockedOut' \in [Tabs -> 0..MaxMisses + 2]
         /\ \A t \in Tabs : lockedOut'[t] <= lockedOut[t] /\ (lockedOut'[t] > 0 => LockedOutNow(t)')
<1>1. lockedOut \in [Tabs -> 0..MaxMisses + 2]
  BY DEF IInv, Types
<1>2. \A t \in Tabs : lockedOut'[t] = IF ~LockedOutNow(t)' THEN 0 ELSE lockedOut[t]
  BY <1>1 DEF Counting, Count
<1>3. lockedOut' = [t \in Tabs |-> lockedOut'[t]]
  BY DEF Counting
<1> QED BY <1>1, <1>2, <1>3

LEMMA TabTakesStep ==
  ASSUME IInv, NEW t \in Tabs, NEW s \in TabState, tab' = [tab EXCEPT ![t] = s], RowMoves,
         releases' \subseteq Tabs, releases' \ {t} = releases \ {t}, Counting, UNCHANGED switched, Fits(t, s)
  PROVE  IInv'
<1>1. /\ tab \in [Tabs -> TabState] /\ tab'[t] = s /\ \A x \in Tabs \ {t} : tab'[x] = tab[x]
      /\ \A x \in Tabs \ {t} : x \in releases' <=> x \in releases
  BY DEF IInv, Types
<1>2. Types'
  BY <1>1, CountingFalls DEF IInv, Types, RowMoves
<1>3. Shaped'
  BY <1>1 DEF IInv, Shaped, Fits, BeatsAs, Beats
<1>4. OffMeansFree'
  <2>1. ~switched /\ ~enabled => lockedBy' = NoUser
    BY DEF IInv, OffMeansFree, RowMoves, lockVars
  <2>2. ~switched /\ ~enabled => releases' = {}
    BY <1>1 DEF IInv, OffMeansFree, Fits
  <2>3. ~switched /\ ~enabled => \A x \in Tabs : tab'[x].status # "locked" /\ ~Beats(x)'
    BY <1>1 DEF IInv, OffMeansFree, Fits, BeatsAs, Beats
  <2> QED BY <2>1, <2>2, <2>3 DEF OffMeansFree, RowMoves
<1>5. AnswersAtOnce'
  BY <1>1 DEF IInv, AnswersAtOnce, Fits, RowMoves, lockVars
<1>6. CountsFromLock'
  <2>1. ASSUME NEW x \in Tabs \ {t}, ~switched, Beats(x)' \/ x \in releases', lockedBy' = UserOf[x]
        PROVE  age' <= tab'[x].sinceRenew
    <3>1. Beats(x) \/ x \in releases
      BY <1>1, <2>1 DEF Beats
    <3>2. tab[x].sinceRenew \in Nat /\ tab'[x] = tab[x]
      BY <1>1 DEF TabState
    <3> QED BY <2>1, <3>1, <3>2 DEF IInv, CountsFromLock, RowMoves, lockVars
  <2> QED BY <1>1, <2>1 DEF CountsFromLock, Fits, BeatsAs, Beats
<1>7. MissesCount'
  <2>1. \A x \in Tabs : /\ lockedOut[x] \in Nat /\ lockedOut'[x] \in Nat /\ lockedOut'[x] <= lockedOut[x]
                        /\ lockedOut'[x] > 0 => LockedOutNow(x)'
                        /\ tab'[x].misses \in Nat
    BY <1>2, CountingFalls DEF IInv, Types, TabState
  <2>2. \A x \in Tabs : lockedOut'[x] > 0 => Beats(x)'
    BY <2>1 DEF LockedOutNow
  <2>3. ASSUME NEW x \in Tabs \ {t}
        PROVE  /\ lockedOut'[x] <= tab'[x].misses + 1
               /\ tab'[x].pc \notin BeatSteps /\ ~tab'[x].due => lockedOut'[x] <= tab'[x].misses
    BY <1>1, <2>1 DEF IInv, MissesCount
  <2>4. /\ lockedOut'[t] <= s.misses + 1
        /\ s.pc \notin BeatSteps /\ ~s.due => lockedOut'[t] <= s.misses
    <3>1. CASE lockedOut'[t] > 0
      <4>1. BeatsAs(s) /\ enabled /\ LiveForOther(UserOf[t])'
        BY <1>1, <2>1, <3>1 DEF LockedOutNow, Beats, BeatsAs, RowMoves
      <4> QED BY <1>1, <2>1, <4>1 DEF Fits
    <3>2. CASE ~(lockedOut'[t] > 0)
      BY <1>1, <2>1, <3>2
    <3> QED BY <3>1, <3>2
  <2> QED BY <1>1, <2>2, <2>3, <2>4 DEF MissesCount
<1> QED BY <1>2, <1>3, <1>4, <1>5, <1>6, <1>7 DEF IInv

\* What holds of a tab before its step.
LEMMA Before ==
  ASSUME IInv, NEW t \in Tabs
  PROVE  /\ tab[t] \in TabState /\ UserOf[t] \in Users /\ lockedOut[t] \in Nat /\ age \in Nat /\ releases \subseteq Tabs
         /\ tab[t].runs => tab[t].status \in {"editing", "locked"}
         /\ tab[t].pc \in BeatSteps => Beats(t)
         /\ tab[t].pc = "poll" => tab[t].status = "locked"
         /\ tab[t].pc \in OpenSteps => tab[t].status \in {"opening", "locked"}
         /\ tab[t].status = "opening" => t \notin releases
         /\ ~switched /\ ~enabled => lockedBy = NoUser /\ releases = {} /\ tab[t].status # "locked" /\ ~Beats(t)
         /\ ~switched /\ tab[t].pc \in {"view", "againView", "openView"} /\ lockedBy = UserOf[t] => age = 0
         /\ ~switched /\ (Beats(t) \/ t \in releases) /\ lockedBy = UserOf[t] => age <= tab[t].sinceRenew
         /\ lockedOut[t] > 0 => Beats(t)
         /\ lockedOut[t] <= tab[t].misses + 1
         /\ tab[t].pc \notin BeatSteps /\ ~tab[t].due => lockedOut[t] <= tab[t].misses
<1>1. /\ tab[t] \in TabState /\ UserOf[t] \in Users /\ lockedOut[t] \in Nat /\ age \in Nat /\ releases \subseteq Tabs
  BY DEF IInv, Types, RowTypeOK
<1>2. /\ tab[t].runs => tab[t].status \in {"editing", "locked"}
      /\ tab[t].pc \in BeatSteps => Beats(t)
      /\ tab[t].pc = "poll" => tab[t].status = "locked"
      /\ tab[t].pc \in OpenSteps => tab[t].status \in {"opening", "locked"}
      /\ tab[t].status = "opening" => t \notin releases
  BY DEF IInv, Shaped
<1>3. ~switched /\ ~enabled => lockedBy = NoUser /\ releases = {} /\ tab[t].status # "locked" /\ ~Beats(t)
  BY DEF IInv, OffMeansFree
<1>4. /\ ~switched /\ tab[t].pc \in {"view", "againView", "openView"} /\ lockedBy = UserOf[t] => age = 0
      /\ ~switched /\ (Beats(t) \/ t \in releases) /\ lockedBy = UserOf[t] => age <= tab[t].sinceRenew
  BY DEF IInv, AnswersAtOnce, CountsFromLock
<1>5. /\ lockedOut[t] > 0 => Beats(t)
      /\ lockedOut[t] <= tab[t].misses + 1
      /\ tab[t].pc \notin BeatSteps /\ ~tab[t].due => lockedOut[t] <= tab[t].misses
  BY DEF IInv, MissesCount
<1> QED BY <1>1, <1>2, <1>3, <1>4, <1>5

\* The row's own steps, by a tab's account.
LEMMA RowStays == ASSUME IInv, UNCHANGED rowVars PROVE RowMoves
BY DEF IInv, Types, RowTypeOK, RowMoves, rowVars, lockVars

LEMMA RowTaken ==
  ASSUME IInv, NEW t \in Tabs,
         Acquire(UserOf[t]) \/ Renew(UserOf[t]) \/ Release(UserOf[t]) \/ (TakeOver(UserOf[t]) /\ (switched \/ enabled))
  PROVE  RowMoves /\ age' = 0 /\ enabled' = enabled
<1>1. Renew(UserOf[t]) => switched \/ enabled
  BY Before DEF Renew
<1> QED BY <1>1, Before DEF IInv, Types, RowTypeOK, RowMoves, lockVars, Acquire, Acquirable, Renew, Release,
                            TakeOver, HoldLock, FencingVersion

\* A step of a tab alone, which neither the row nor the releases take part in.
LEMMA AloneStep ==
  ASSUME IInv, NEW t \in Tabs, NEW s \in TabState, Become(t, s), UNCHANGED rowVars, Counting, UNCHANGED switched,
         Fits(t, s)
  PROVE  IInv'
BY Before, RowStays, TabTakesStep DEF Become

LEMMA BeatInv ==
  ASSUME IInv, NEW t \in Tabs, Counting, UNCHANGED switched, Beat(t) \/ BeatFails(t)
  PROVE  IInv'
<1> DEFINE beat == [tab[t] EXCEPT !.pc = "renew", !.due = FALSE]
<1> USE Before DEF TabState, BeatSteps, OpenSteps, Fits, BeatsAs, Beats
<1>1. CASE Beat(t)
  <2>1. beat \in TabState
    OBVIOUS
  <2>2. Fits(t, beat)
    BY <1>1 DEF Beat, Become, rowVars
  <2> QED BY <1>1, <2>1, <2>2, AloneStep DEF Beat
<1>2. CASE BeatFails(t)
  <2>1. Missed(tab[t]) \in TabState
    <3>1. (IF tab[t].misses < MaxMisses THEN tab[t].misses + 1 ELSE tab[t].misses) \in 0..MaxMisses
      OBVIOUS
    <3> QED BY <3>1 DEF Missed
  <2>2. Fits(t, Missed(tab[t]))
    BY <1>2 DEF BeatFails, Missed, Become, rowVars
  <2> QED BY <1>2, <2>1, <2>2, AloneStep DEF BeatFails
<1> QED BY <1>1, <1>2

\* The server's part of a beat.
LEMMA ServeInv ==
  ASSUME IInv, NEW t \in Tabs, Counting, UNCHANGED switched, ServeRenew(t) \/ ServeAcquire(t)
  PROVE  IInv'
<1> USE Before DEF TabState, BeatSteps, OpenSteps, Fits, BeatsAs, Beats
<1>1. ASSUME NEW pc \in BeatSteps, tab[t].pc \in BeatSteps, Wait(t, pc), RowMoves, enabled' = enabled,
             age' = 0 \/ UNCHANGED rowVars, pc \in {"view", "againView"} => age' = 0
      PROVE  IInv'
  <2> DEFINE s == [tab[t] EXCEPT !.pc = pc]
  <2>1. s \in TabState
    OBVIOUS
  <2>2. releases' = releases /\ tab' = [tab EXCEPT ![t] = s]
    BY <1>1 DEF Wait, Become
  <2>3. /\ s.pc = pc /\ s.status = tab[t].status /\ s.runs = tab[t].runs /\ s.due = tab[t].due
        /\ s.misses = tab[t].misses /\ s.sinceRenew = tab[t].sinceRenew
    OBVIOUS
  <2> HIDE DEF s
  <2>4. Fits(t, s)
    BY <1>1, <2>2, <2>3 DEF rowVars
  <2> QED BY <1>1, <2>1, <2>2, <2>4, TabTakesStep
<1>2. CASE ServeRenew(t)
  BY <1>1, <1>2, RowStays, RowTaken DEF ServeRenew, rowVars
<1>3. CASE ServeAcquire(t)
  BY <1>1, <1>3, RowStays, RowTaken DEF ServeAcquire, rowVars
<1> QED BY <1>2, <1>3

\* A beat that worked ends with a lock that is the account's, that is free, or by which the tab is told of
\* the one who has it.
LEMMA AnswerInv ==
  ASSUME IInv, NEW t \in Tabs, Counting, UNCHANGED switched, AnswerRenew(t) \/ AnswerRefused(t)
  PROVE  IInv'
<1> USE Before DEF TabState, BeatSteps, OpenSteps, Fits, BeatsAs, Beats
<1>0. UNCHANGED rowVars /\ tab[t].pc \in BeatSteps
  BY DEF AnswerRenew, AnswerRefused
<1>1. ViewOf(UserOf[t]) # "other" => ~(enabled /\ LiveForOther(UserOf[t]))
  BY DEF ViewOf, LiveForOther, Live
<1>2. ViewOf(UserOf[t]) = "other" => enabled
  BY DEF ViewOf
<1>3. CASE Wait(t, "again") /\ tab[t].pc = "view"
  <2> DEFINE s == [tab[t] EXCEPT !.pc = "again"]
  <2>1. s \in TabState /\ Become(t, s)
    BY <1>3 DEF Wait
  <2>2. Fits(t, s)
    BY <1>0, <1>3, <2>1 DEF rowVars, Become
  <2> HIDE DEF s
  <2> QED BY <1>0, <2>1, <2>2, AloneStep
<1>4. CASE tab[t].pc \in {"view", "againView"} /\ Become(t, Renewed(t, ViewOf(UserOf[t])))
  <2> DEFINE s == Renewed(t, ViewOf(UserOf[t]))
  <2>1. CASE ViewOf(UserOf[t]) = "other"
    <3>1. s = [tab[t] EXCEPT !.pc = "idle", !.misses = 0, !.sinceRenew = 0, !.status = "locked", !.runs = TRUE,
                             !.due = FALSE]
      BY <1>0, <2>1 DEF Renewed, Told
    <3>2. s \in TabState
      <4>1. 0 \in 0..MaxMisses /\ 0 \in 0..TTL
        OBVIOUS
      <4>2. tab[t] \in TabState
        OBVIOUS
      <4> QED BY <3>1, <4>1, <4>2
    <3>3. /\ s.pc = "idle" /\ s.status = "locked" /\ s.sinceRenew = 0
      BY <3>1
    <3> HIDE DEF s
    <3>4. ~switched /\ lockedBy' = UserOf[t] => age' = 0
      BY <1>0, <1>4 DEF rowVars
    <3>5. Fits(t, s)
      BY <1>0, <1>2, <1>4, <2>1, <3>2, <3>3, <3>4 DEF rowVars, Become
    <3> QED BY <1>0, <1>4, <3>2, <3>5, AloneStep DEF s
  <2>2. CASE ViewOf(UserOf[t]) # "other"
    <3>1. s = [tab[t] EXCEPT !.pc = "idle", !.misses = 0, !.sinceRenew = 0]
      BY <2>2 DEF Renewed, Told
    <3>2. s \in TabState
      <4>1. 0 \in 0..MaxMisses /\ 0 \in 0..TTL
        OBVIOUS
      <4>2. tab[t] \in TabState
        OBVIOUS
      <4> QED BY <3>1, <4>1, <4>2
    <3>3. /\ s.pc = "idle" /\ s.status = tab[t].status /\ s.runs = tab[t].runs /\ s.sinceRenew = 0
      BY <3>1
    <3> HIDE DEF s
    <3>4. ~switched /\ lockedBy' = UserOf[t] => age' = 0
      BY <1>0, <1>4 DEF rowVars
    <3>5. ~(enabled /\ LiveForOther(UserOf[t])')
      BY <1>0, <1>1, <2>2 DEF rowVars, LiveForOther, Live
    <3>6. Fits(t, s)
      BY <1>0, <1>4, <3>2, <3>3, <3>4, <3>5 DEF rowVars, Become
    <3> QED BY <1>0, <1>4, <3>2, <3>6, AloneStep DEF s
  <2> QED BY <2>1, <2>2
<1>5. CASE Become(t, LostTo([tab[t] EXCEPT !.pc = "idle"], ViewOf(UserOf[t])))
  <2> DEFINE s == LostTo([tab[t] EXCEPT !.pc = "idle"], ViewOf(UserOf[t]))
  <2>1. s = [tab[t] EXCEPT !.pc = "idle", !.due = FALSE,
                           !.runs = ViewOf(UserOf[t]) = "other",
                           !.status = IF ViewOf(UserOf[t]) = "other" THEN "locked" ELSE "editing"]
    BY <1>0 DEF LostTo, Told
  <2>2. s \in TabState
    BY <2>1
  <2>3. /\ s.pc = "idle" /\ s.sinceRenew = tab[t].sinceRenew
        /\ s.status = IF ViewOf(UserOf[t]) = "other" THEN "locked" ELSE "editing"
        /\ s.runs => ViewOf(UserOf[t]) = "other"
    BY <2>1
  <2> HIDE DEF s
  <2>4. Fits(t, s)
    BY <1>0, <1>2, <1>5, <2>2, <2>3 DEF rowVars, Become
  <2> QED BY <1>0, <1>5, <2>2, <2>4, AloneStep DEF s
<1> QED BY <1>3, <1>4, <1>5 DEF AnswerRenew, AnswerRefused

\* Opening: what it finds is the lock it took, or someone else's.
LEMMA OpenInv ==
  ASSUME IInv, NEW t \in Tabs, Counting, UNCHANGED switched,
         OpenTab(t) \/ ServeOpen(t) \/ AnswerOpen(t) \/ OpenFails(t)
  PROVE  IInv'
<1> USE Before DEF TabState, BeatSteps, OpenSteps, Fits, BeatsAs, Beats
<1>0. 0 \in 0..MaxMisses /\ 0 \in 0..TTL
  OBVIOUS
<1>1. CASE OpenTab(t)
  <2> DEFINE s == [tab[t] EXCEPT !.status = "opening", !.pc = "open"]
  <2>1. s \in TabState
    OBVIOUS
  <2>2. Fits(t, s)
    BY <1>1 DEF OpenTab, Become, rowVars
  <2> QED BY <1>1, <2>1, <2>2, AloneStep DEF OpenTab
<1>2. CASE ServeOpen(t)
  <2> DEFINE s == [tab[t] EXCEPT !.pc = "openView"]
  <2>1. s \in TabState /\ tab' = [tab EXCEPT ![t] = s] /\ releases' = releases
    BY <1>2 DEF ServeOpen, Wait, Become
  <2>2. /\ s.pc = "openView" /\ s.status = tab[t].status /\ s.runs = tab[t].runs /\ s.due = tab[t].due
        /\ s.misses = tab[t].misses /\ s.sinceRenew = tab[t].sinceRenew
    OBVIOUS
  <2>3. RowMoves /\ enabled' = enabled /\ (age' = 0 \/ (UNCHANGED lockVars /\ ~Acquirable(UserOf[t])))
    BY <1>2, RowStays, RowTaken DEF ServeOpen, rowVars, lockVars
  <2>4. UNCHANGED lockVars /\ ~Acquirable(UserOf[t]) => ~enabled \/ lockedBy # UserOf[t]
    BY DEF Acquirable, LiveForOther
  <2>5. tab[t].pc = "open"
    BY <1>2 DEF ServeOpen
  <2> HIDE DEF s
  <2>6. Fits(t, s)
    BY <2>1, <2>2, <2>3, <2>4, <2>5 DEF lockVars
  <2> QED BY <2>1, <2>3, <2>6, TabTakesStep
<1>3. CASE AnswerOpen(t)
  <2> DEFINE shown == ViewOf(UserOf[t])
             s == [status |-> IF shown = "other" THEN "locked" ELSE "editing", runs |-> shown # "free", pc |-> "idle",
                   due |-> FALSE, misses |-> 0, sinceRenew |-> 0]
  <2>1. s \in TabState
    BY <1>0
  <2>2. tab[t].pc = "openView" /\ Become(t, s) /\ UNCHANGED rowVars
    BY <1>3 DEF AnswerOpen
  <2>3. shown # "free" => enabled
    BY DEF ViewOf
  <2>4. ~switched /\ lockedBy' = UserOf[t] => age' = 0
    BY <2>2 DEF rowVars
  <2> HIDE DEF shown
  <2>5. Fits(t, s)
    BY <2>1, <2>2, <2>3, <2>4 DEF rowVars, Become
  <2> QED BY <2>1, <2>2, <2>5, AloneStep
<1>4. CASE OpenFails(t)
  <2>1. tab[t].pc \in OpenSteps /\ tab[t].misses < MaxMisses /\ UNCHANGED rowVars
    BY <1>4 DEF OpenFails
  <2>2. CASE Become(t, WatchAgain(tab[t])) /\ tab[t].status = "locked"
    <3> DEFINE s == WatchAgain(tab[t])
    <3>1. s \in TabState
      <4>1. tab[t].misses + 1 \in 0..MaxMisses
        BY <2>1
      <4> QED BY <4>1 DEF WatchAgain
    <3>2. Fits(t, s)
      BY <2>1, <2>2 DEF WatchAgain, rowVars, Become
    <3> QED BY <2>1, <2>2, <3>1, <3>2, AloneStep
  <2>3. CASE Become(t, Closed) /\ tab[t].status = "opening"
    <3>1. Closed \in TabState
      BY <1>0 DEF Closed
    <3>2. Fits(t, Closed)
      BY <2>1, <2>3 DEF Closed, rowVars, Become
    <3> QED BY <2>1, <2>3, <3>1, <3>2, AloneStep
  <2> QED BY <1>4, <2>1, <2>2, <2>3 DEF OpenFails
<1> QED BY <1>1, <1>2, <1>3, <1>4

\* Watching a page that is locked, and taking it over.
LEMMA WatchInv ==
  ASSUME IInv, NEW t \in Tabs, Counting, UNCHANGED switched,
         Poll(t) \/ AnswerPoll(t) \/ PollFails(t) \/ PressTakeOver(t)
  PROVE  IInv'
<1> USE Before DEF TabState, BeatSteps, OpenSteps, Fits, BeatsAs, Beats
<1>1. CASE Poll(t)
  <2> DEFINE s == [tab[t] EXCEPT !.pc = "poll", !.due = FALSE]
  <2>1. s \in TabState
    OBVIOUS
  <2>2. Fits(t, s)
    BY <1>1 DEF Poll, Become, rowVars
  <2> QED BY <1>1, <2>1, <2>2, AloneStep DEF Poll
<1>2. CASE AnswerPoll(t)
  <2>1. tab[t].status = "locked" /\ UNCHANGED rowVars
    BY <1>2 DEF AnswerPoll
  <2>2. CASE Wait(t, "idle")
    <3> DEFINE s == [tab[t] EXCEPT !.pc = "idle"]
    <3>1. s \in TabState /\ Become(t, s)
      BY <2>2 DEF Wait
    <3>2. Fits(t, s)
      BY <2>1, <3>1 DEF Become, rowVars
    <3> QED BY <2>1, <3>1, <3>2, AloneStep
  <2>3. CASE Become(t, [tab[t] EXCEPT !.pc = "open", !.runs = FALSE, !.due = FALSE])
    <3> DEFINE s == [tab[t] EXCEPT !.pc = "open", !.runs = FALSE, !.due = FALSE]
    <3>1. s \in TabState /\ Become(t, s)
      BY <2>3
    <3>2. Fits(t, s)
      BY <2>1, <3>1 DEF Become, rowVars
    <3> QED BY <2>1, <3>1, <3>2, AloneStep
  <2> QED BY <1>2, <2>2, <2>3 DEF AnswerPoll
<1>3. CASE PollFails(t)
  <2> DEFINE s == [tab[t] EXCEPT !.pc = "idle", !.misses = @ + 1]
  <2>1. s \in TabState
    <3>1. tab[t].misses + 1 \in 0..MaxMisses
      BY <1>3 DEF PollFails
    <3> QED BY <3>1
  <2>2. Fits(t, s)
    BY <1>3 DEF PollFails, Become, rowVars
  <2> QED BY <1>3, <2>1, <2>2, AloneStep DEF PollFails
<1>4. CASE PressTakeOver(t)
  <2> DEFINE s == [tab[t] EXCEPT !.pc = "open"]
  <2>1. /\ s \in TabState /\ tab' = [tab EXCEPT ![t] = s] /\ releases' = releases
        /\ tab[t].status = "locked" /\ TakeOver(UserOf[t])
    BY <1>4 DEF PressTakeOver, Wait, Become
  <2>2. RowMoves /\ age' = 0 /\ enabled' = enabled
    BY <2>1, RowTaken
  <2>3. Fits(t, s)
    BY <2>1, <2>2
  <2> QED BY <2>1, <2>2, <2>3, TabTakesStep
<1> QED BY <1>1, <1>2, <1>3, <1>4

\* A tab that goes, and the release it may leave behind.
LEMMA LeaveInv ==
  ASSUME IInv, NEW t \in Tabs, Counting, UNCHANGED switched,
         Hide(t) \/ ShowAgain(t) \/ ReleaseArrives(t) \/ ReleaseLost(t)
  PROVE  IInv'
<1> USE Before DEF TabState, BeatSteps, OpenSteps, Fits, BeatsAs, Beats
<1>0. 0 \in 0..MaxMisses /\ 0 \in 0..TTL
  OBVIOUS
<1>1. CASE Hide(t)
  <2> DEFINE s == Hidden(tab[t])
  <2>1. s \in TabState
    BY <1>0 DEF Hidden, Closed
  <2>2. /\ s.status = "closed" /\ s.pc = "idle" /\ ~s.runs /\ s.sinceRenew = tab[t].sinceRenew
    BY DEF Hidden, Closed
  <2>3. /\ tab' = [tab EXCEPT ![t] = s] /\ UNCHANGED rowVars
        /\ releases' = IF Beats(t) THEN releases \cup {t} ELSE releases
    BY <1>1 DEF Hide
  <2> HIDE DEF s
  <2>4. Fits(t, s)
    BY <2>2, <2>3 DEF rowVars
  <2> QED BY <2>1, <2>3, <2>4, RowStays, TabTakesStep
<1>2. CASE ShowAgain(t)
  <2> DEFINE s == [tab[t] EXCEPT !.status = "editing", !.runs = TRUE, !.pc = "renew"]
  <2>1. s \in TabState
    OBVIOUS
  <2>2. Fits(t, s)
    BY <1>2 DEF ShowAgain, Become, rowVars
  <2> QED BY <1>2, <2>1, <2>2, AloneStep DEF ShowAgain
<1>3. CASE ReleaseArrives(t) \/ ReleaseLost(t)
  <2>1. /\ releases' = releases \ {t} /\ UNCHANGED tab /\ RowMoves /\ enabled' = enabled
        /\ UNCHANGED rowVars \/ (lockedBy' = NoUser /\ age' = 0)
    BY <1>3, RowStays, RowTaken DEF ReleaseArrives, ReleaseLost, Release, rowVars
  <2>2. tab' = [tab EXCEPT ![t] = tab[t]]
    BY <2>1 DEF IInv, Types
  <2>3. Fits(t, tab[t])
    BY <2>1 DEF rowVars, LiveForOther, Live
  <2>4. releases' \subseteq Tabs /\ releases' \ {t} = releases \ {t} /\ tab[t] \in TabState
    BY <2>1
  <2> HIDE DEF TabState, Fits
  <2> QED BY <2>1, <2>2, <2>3, <2>4, TabTakesStep
<1> QED BY <1>1, <1>2, <1>3

-----------------------------------------------------------------------------
\* An interval goes by only when nothing is asked: the counters of the lock and of the tabs keep step, and
\* a tab that edits on has missed the beat before.
LEMMA PassInv ==
  ASSUME IInv, Punctual, Pass
  PROVE  IInv'
<1>1. ASSUME NEW t \in Tabs
      PROVE  /\ tab[t].pc = "idle" /\ ~tab[t].due
             /\ tab'[t] = [tab[t] EXCEPT !.due = tab[t].due \/ tab[t].runs,
                             !.sinceRenew = IF tab[t].sinceRenew < TTL THEN tab[t].sinceRenew + 1 ELSE tab[t].sinceRenew]
  BY <1>1 DEF Pass
<1>2. /\ age \in 0..TTL /\ age' = (IF lockedBy # NoUser /\ age < TTL THEN age + 1 ELSE age)
      /\ UNCHANGED <<enabled, lockedBy, version, releases, switched>>
  BY DEF Pass, IInv, Types, RowTypeOK
<1>3. ASSUME NEW t \in Tabs
      PROVE  /\ tab'[t] \in TabState /\ tab'[t].status = tab[t].status /\ tab'[t].runs = tab[t].runs
             /\ tab'[t].pc = "idle" /\ tab'[t].misses = tab[t].misses /\ tab[t].misses \in 0..MaxMisses
             /\ tab'[t].due = tab[t].runs
             /\ tab'[t].sinceRenew = IF tab[t].sinceRenew < TTL THEN tab[t].sinceRenew + 1 ELSE tab[t].sinceRenew
             /\ tab[t].sinceRenew \in 0..TTL
  <2> DEFINE d == tab[t].due \/ tab[t].runs
             n == IF tab[t].sinceRenew < TTL THEN tab[t].sinceRenew + 1 ELSE tab[t].sinceRenew
  <2>1. tab[t] \in TabState
    BY DEF IInv, Types
  <2>2. tab'[t] = [tab[t] EXCEPT !.due = d, !.sinceRenew = n]
    BY <1>1
  <2>3. n \in 0..TTL
    BY <2>1 DEF TabState
  <2>4. tab[t].due = FALSE /\ tab[t].runs \in BOOLEAN
    BY <1>1, <2>1 DEF TabState
  <2>5. d \in BOOLEAN /\ d = tab[t].runs
    BY <2>4
  <2> HIDE DEF d, n
  <2>6. tab'[t] \in TabState
    BY <2>1, <2>2, <2>3, <2>5 DEF TabState
  <2>7. /\ tab'[t].status = tab[t].status /\ tab'[t].runs = tab[t].runs /\ tab'[t].pc = tab[t].pc
        /\ tab'[t].misses = tab[t].misses /\ tab'[t].due = d /\ tab'[t].sinceRenew = n
    BY <2>1, <2>2 DEF TabState
  <2> QED BY <1>1, <2>1, <2>5, <2>6, <2>7 DEF TabState, n
<1>4. \A t \in Tabs : /\ lockedOut'[t] = Count(t, 1)
                      /\ lockedOut[t] \in Nat /\ lockedOut[t] <= tab[t].misses
  <2>1. lockedOut' = [t \in Tabs |-> Count(t, 1)]
    BY DEF Pass
  <2>2. \A t \in Tabs : lockedOut[t] \in Nat
    BY DEF IInv, Types
  <2>3. \A t \in Tabs : lockedOut[t] <= tab[t].misses
    BY <1>1 DEF IInv, MissesCount, BeatSteps
  <2> HIDE DEF Count
  <2> QED BY <2>1, <2>2, <2>3
<1>5. \A t \in Tabs : /\ lockedOut'[t] \in 0..MaxMisses + 1 /\ lockedOut'[t] <= tab[t].misses + 1
                      /\ lockedOut'[t] > 0 => Beats(t)
  <2> TAKE t \in Tabs
  <2>1. CASE ~LockedOutNow(t)'
    BY <1>3, <1>4, <2>1 DEF Count
  <2>2. CASE LockedOutNow(t)'
    <3>1. Count(t, 1) = lockedOut[t] + 1
      BY <1>3, <1>4, <2>2 DEF Count
    <3>2. Beats(t)
      BY <1>3, <2>2 DEF LockedOutNow, Beats
    <3> QED BY <1>3, <1>4, <3>1, <3>2
  <2> QED BY <2>1, <2>2
<1>6. Types'
  <2>1. tab' \in [Tabs -> TabState]
    BY <1>3 DEF Pass
  <2>2. lockedOut' \in [Tabs -> 0..MaxMisses + 2]
    <3>1. lockedOut' = [t \in Tabs |-> lockedOut'[t]]
      BY DEF Pass
    <3> QED BY <1>5, <3>1
  <2> QED BY <1>2, <2>1, <2>2 DEF IInv, Types, RowTypeOK
<1>7. Shaped' /\ OffMeansFree'
  BY <1>1, <1>2, <1>3 DEF IInv, Shaped, OffMeansFree, Beats, BeatSteps, OpenSteps
<1>8. AnswersAtOnce'
  BY <1>3 DEF AnswersAtOnce
<1>9. CountsFromLock'
  <2> SUFFICES ASSUME NEW t \in Tabs, ~switched', Beats(t)' \/ t \in releases', lockedBy' = UserOf[t]
               PROVE  age' <= tab'[t].sinceRenew
    BY DEF CountsFromLock
  <2>1. age <= tab[t].sinceRenew
    BY <1>2, <1>3 DEF IInv, CountsFromLock, Beats
  <2> QED BY <1>2, <1>3, <2>1
<1>10. MissesCount'
  <2> SUFFICES ASSUME NEW t \in Tabs
               PROVE  /\ lockedOut'[t] > 0 => Beats(t)'
                      /\ lockedOut'[t] <= tab'[t].misses + 1
                      /\ tab'[t].pc \notin BeatSteps /\ ~tab'[t].due => lockedOut'[t] <= tab'[t].misses
    BY DEF MissesCount
  <2>1. lockedOut'[t] > 0 => Beats(t)'
    BY <1>3, <1>5 DEF Beats
  <2>2. ~tab'[t].due => lockedOut'[t] = 0
    BY <1>3, <1>5 DEF Beats
  <2> QED BY <1>3, <1>5, <2>1, <2>2
<1> QED BY <1>6, <1>7, <1>8, <1>9, <1>10 DEF IInv

LEMMA NextClient == ASSUME Punctual PROVE IInv /\ [ClientNext]_clientVars => IInv'
<1> SUFFICES ASSUME IInv, [ClientNext]_clientVars PROVE IInv'
  OBVIOUS
<1>1. CASE Pass
  BY <1>1, PassInv
<1>2. CASE Switch
  <2>1. /\ UNCHANGED <<tab, releases, lockVars, version>> /\ enabled' \in BOOLEAN /\ Counting /\ switched' = TRUE
    BY <1>2 DEF Switch, SetLocking
  <2>2. Types'
    BY <2>1, CountingFalls DEF IInv, Types, RowTypeOK, lockVars
  <2>3. Shaped' /\ OffMeansFree' /\ AnswersAtOnce' /\ CountsFromLock'
    BY <2>1 DEF IInv, Shaped, OffMeansFree, AnswersAtOnce, CountsFromLock, Beats
  <2>4. MissesCount'
    <3>1. \A t \in Tabs : /\ lockedOut[t] \in Nat /\ lockedOut'[t] \in Nat /\ lockedOut'[t] <= lockedOut[t]
                          /\ lockedOut'[t] > 0 => Beats(t)'
                          /\ tab[t].misses \in Nat
      BY <2>1, <2>2, CountingFalls DEF IInv, Types, LockedOutNow, TabState
    <3> QED BY <2>1, <3>1 DEF IInv, MissesCount
  <2> QED BY <2>2, <2>3, <2>4 DEF IInv
<1>3. ASSUME NEW t \in Tabs, Move(t), Counting, UNCHANGED switched PROVE IInv'
  BY <1>3, BeatInv, ServeInv, AnswerInv, OpenInv, WatchInv, LeaveInv DEF Move, Serve, Fail
<1>4. CASE UNCHANGED clientVars
  BY <1>4 DEF clientVars, rowVars, IInv, Types, RowTypeOK, Shaped, OffMeansFree, AnswersAtOnce, CountsFromLock, MissesCount,
              Beats
<1> QED BY <1>1, <1>2, <1>3, <1>4 DEF ClientNext

LEMMA InitClient == ClientInit => IInv
<1> SUFFICES ASSUME ClientInit PROVE IInv
  OBVIOUS
<1>1. 0 \in 0..MaxMisses /\ 0 \in 0..TTL /\ 0 \in 0..MaxMisses + 2
  OBVIOUS
<1>2. Closed \in TabState
  BY <1>1 DEF Closed, TabState
<1>3. Types
  BY <1>1, <1>2 DEF ClientInit, RowInit, Types, RowTypeOK
<1>4. \A t \in Tabs : /\ tab[t] = Closed /\ lockedOut[t] = 0
                      /\ tab[t].status = "closed" /\ ~tab[t].runs /\ tab[t].pc = "idle" /\ tab[t].misses = 0
  BY DEF ClientInit, Closed
<1> QED BY <1>3, <1>4 DEF ClientInit, RowInit, IInv, Shaped, OffMeansFree, AnswersAtOnce, CountsFromLock,
                          MissesCount, Beats, BeatSteps, OpenSteps

\* When requests end within their heartbeat interval, for any tabs, TTL and number of beats that may fail: the
\* countdown shown while renewals fail never promises more time than the lock has left (as long as locking is
\* not switched), and a displaced tab edits under someone else's lock for at most the beats that may fail, and one.
THEOREM ClientHonest == ASSUME Punctual PROVE ClientSpec => []ClientInv
<1>1. IInv => ClientInv
  <2>1. IInv => ClientTypeOK
    BY DEF IInv, Types, Shaped, ClientTypeOK
  <2>2. IInv => CountdownHonest
    BY DEF IInv, CountsFromLock, CountdownHonest
  <2>3. IInv => DisplacedTabLearns
    <3> SUFFICES ASSUME IInv, NEW t \in Tabs PROVE lockedOut[t] <= MaxMisses + 1
      BY DEF DisplacedTabLearns
    <3>1. lockedOut[t] <= tab[t].misses + 1 /\ tab[t].misses \in 0..MaxMisses /\ lockedOut[t] \in Nat
      BY DEF IInv, MissesCount, Types, TabState
    <3> QED BY <3>1
  <2> QED BY <2>1, <2>2, <2>3 DEF ClientInv
<1>2. IInv /\ [ClientNext]_clientVars => IInv'
  BY NextClient
<1> QED BY <1>1, <1>2, InitClient, PTL DEF ClientSpec

-----------------------------------------------------------------------------
\* Punctual or not, whatever tabs do to the lock row, the abstract lock allows: what is proved of EditLock's
\* steps is true of the row under any number of heartbeats, watches and late releases.
THEOREM ClientsImplementEditLock == ClientSpec => RowSpec
<1>1. ClientInit => RowInit
  BY DEF ClientInit
<1>2. [ClientNext]_clientVars => [RowNext]_rowVars
  <2> SUFFICES ASSUME ClientNext PROVE RowNext \/ UNCHANGED rowVars
    BY DEF clientVars, rowVars
  <2>1. CASE Pass
    BY <2>1 DEF Pass, RowNext, Tick, rowVars
  <2>2. CASE Switch
    BY <2>2 DEF Switch, RowNext
  <2>3. ASSUME NEW t \in Tabs, Move(t) PROVE RowNext \/ UNCHANGED rowVars
    <3>1. UserOf[t] \in Users
      OBVIOUS
    <3> QED BY <2>3, <3>1 DEF Move, Serve, Fail, Beat, Poll, OpenTab, PressTakeOver, Hide, ShowAgain, ReleaseArrives,
              ReleaseLost, ServeRenew, ServeAcquire, AnswerRenew, AnswerRefused, ServeOpen, AnswerOpen,
              AnswerPoll, BeatFails, OpenFails, PollFails, RowNext
  <2> QED BY <2>1, <2>2, <2>3 DEF ClientNext
<1> QED BY <1>1, <1>2, PTL DEF ClientSpec, RowSpec
=============================================================================
