----------------------------- MODULE LockClient -----------------------------
(***************************************************************************)
(* Editor tabs that hold, lose, watch and reopen one page: the heartbeat   *)
(* and the watch of packages/editor/src/client/session/lock-client.ts, the *)
(* shell's effects that start and stop them (shell/mount.tsx), and the     *)
(* server's lock routes (server/api/session.ts) over the lock row of       *)
(* EditLock.                                                               *)
(*                                                                         *)
(* A route is one or two transactions and then a read of the lock: other   *)
(* tabs' transactions come between.  One tick is a heartbeat interval, so  *)
(* TTL is PAGE_EDIT_LOCK_TTL_SECONDS / PAGE_EDIT_LOCK_HEARTBEAT_SECONDS.   *)
(* With Punctual, a beat and what it asks of the server end within their   *)
(* interval; without it a tab may be throttled or slow for any time.       *)
(***************************************************************************)
EXTENDS EditLock

CONSTANTS
  Punctual,     \* whether requests end within a heartbeat interval
  MaxMisses     \* bound: heartbeats in a row that may fail

ASSUME LockClientAssumption ==
  Punctual \in BOOLEAN /\ MaxMisses \in Nat

VARIABLES
  tab,          \* each tab's store and lock client
  releases,     \* tabs whose keepalive release is on its way
  lockedOut,    \* intervals a beating tab has edited under someone else's lock
  switched      \* locking has been switched on or off (bound: once)

clientVars == <<rowVars, tab, releases, lockedOut, switched>>

\* store.status; whether the heartbeat (of a tab that edits) or the watch (of one
\* that is locked out) runs; what the tab waits for; whether its
\* timer has fired; heartbeats missed in a row; intervals since lastRenewAt.
TabState ==
  [status : {"closed", "opening", "editing", "locked"}, runs : BOOLEAN,
   pc : {"idle", "renew", "acquire", "view", "again", "againView", "refused",
         "poll", "open", "openView"},
   due : BOOLEAN, misses : 0..MaxMisses, sinceRenew : 0..TTL]

Closed == [status |-> "closed", runs |-> FALSE, pc |-> "idle", due |-> FALSE,
           misses |-> 0, sinceRenew |-> 0]

ClientTypeOK ==
  /\ RowTypeOK
  /\ tab \in [Tabs -> TabState]
  /\ \A t \in Tabs : tab[t].runs => tab[t].status \in {"editing", "locked"}
  /\ releases \subseteq Tabs
  /\ lockedOut \in [Tabs -> 0..MaxMisses + 2] /\ switched \in BOOLEAN

ClientInit ==
  /\ RowInit
  /\ tab = [t \in Tabs |-> Closed]
  /\ releases = {}
  /\ lockedOut = [t \in Tabs |-> 0] /\ switched = FALSE

-----------------------------------------------------------------------------
\* readPageLockView: a lapsed lock, and any lock while locking is off, is free.
ViewOf(u) ==
  CASE ~enabled \/ ~Live -> "free"
    [] enabled /\ Live /\ lockedBy = u -> "mine"
    [] enabled /\ Live /\ lockedBy # u -> "other"

Become(t, state) == tab' = [tab EXCEPT ![t] = state] /\ UNCHANGED releases

Wait(t, pc) == Become(t, [tab[t] EXCEPT !.pc = pc])

\* What the tab's effects make of a lock view (store.setLock): another holder
\* ends editing, and with it the heartbeat; the watch begins.
Told(state, view) ==
  IF view = "other" /\ state.status = "editing"
    THEN [state EXCEPT !.status = "locked", !.runs = TRUE, !.due = FALSE]
    ELSE state

Beats(t) == tab[t].status = "editing" /\ tab[t].runs

LockedOutNow(t) ==
  Beats(t) /\ enabled /\ LiveForOther(UserOf[t])

\* Counted up to one more than the property allows.
Count(t, ticks) ==
  IF ~LockedOutNow(t)' THEN 0
  ELSE IF lockedOut[t] = MaxMisses + 2 THEN lockedOut[t] ELSE lockedOut[t] + ticks
Counting == lockedOut' = [t \in Tabs |-> Count(t, 0)]

-----------------------------------------------------------------------------
\* The heartbeat.

\* The interval timer, the tab becoming visible, "Keep editing".
Beat(t) ==
  /\ Beats(t) /\ tab[t].pc = "idle"
  /\ Become(t, [tab[t] EXCEPT !.pc = "renew", !.due = FALSE])
  /\ UNCHANGED rowVars

\* POST lock/renew, first transaction: renewPageLock.
ServeRenew(t) ==
  /\ tab[t].pc = "renew"
  /\ \/ Renew(UserOf[t]) /\ Wait(t, "view")
     \/ lockedBy # UserOf[t] /\ UNCHANGED rowVars /\ Wait(t, "acquire")

\* Its second, or that of POST lock/acquire: acquirePageLock.
ServeAcquire(t) ==
  /\ tab[t].pc \in {"acquire", "again"}
  /\ \/ Acquire(UserOf[t])
        /\ Wait(t, IF tab[t].pc = "acquire" THEN "view" ELSE "againView")
     \/ enabled /\ LiveForOther(UserOf[t]) /\ UNCHANGED rowVars /\ Wait(t, "refused")

\* The heartbeat worked, and onLock hears what the lock looks like now.
Renewed(t, view) ==
  Told([tab[t] EXCEPT !.pc = "idle", !.misses = 0, !.sinceRenew = 0], view)

AnswerRenew(t) ==
  /\ \/ /\ tab[t].pc = "view"
        /\ IF enabled /\ ViewOf(UserOf[t]) = "free"
             THEN Wait(t, "again")
             ELSE Become(t, Renewed(t, ViewOf(UserOf[t])))
     \/ /\ tab[t].pc = "againView"
        /\ Become(t, Renewed(t, ViewOf(UserOf[t])))
  /\ UNCHANGED rowVars

\* 423: the heartbeat stops and onLost hears the lock as it is read again.
LostTo(state, view) == Told([state EXCEPT !.runs = FALSE, !.due = FALSE], view)

AnswerRefused(t) ==
  /\ tab[t].pc = "refused"
  /\ Become(t, LostTo([tab[t] EXCEPT !.pc = "idle"], ViewOf(UserOf[t])))
  /\ UNCHANGED rowVars

\* No answer, or one that says nothing: tried again on the next beat.  A 423
\* whose lock cannot be read ends the same way.
MissedButCounted(state) ==
  [state EXCEPT !.pc = "idle", !.sinceRenew = 0,
                !.misses = IF @ < MaxMisses THEN @ + 1 ELSE @]
Missed(state) ==
  [state EXCEPT !.pc = "idle", !.misses = IF @ < MaxMisses THEN @ + 1 ELSE @]

BeatFails(t) ==
  /\ tab[t].pc \in {"renew", "acquire", "view", "again", "againView", "refused"}
  /\ tab[t].misses < MaxMisses \/ ~enabled
  /\ Become(t, Missed(tab[t]))
  /\ UNCHANGED rowVars

-----------------------------------------------------------------------------
\* Opening, watching, taking over.

OpenTab(t) ==
  /\ tab[t].status = "closed" /\ t \notin releases
  /\ Become(t, [tab[t] EXCEPT !.status = "opening", !.pc = "open"])
  /\ UNCHANGED rowVars

\* openPage, its lock first: refused or switched off, the page opens anyway.
ServeOpen(t) ==
  /\ tab[t].pc = "open"
  /\ \/ Acquire(UserOf[t])
     \/ ~Acquirable(UserOf[t]) /\ UNCHANGED rowVars
  /\ Wait(t, "openView")

\* openPage, its lock view last; openedState, and the effect that follows it.
AnswerOpen(t) ==
  /\ tab[t].pc = "openView"
  /\ LET view == ViewOf(UserOf[t])
     IN Become(t, [status |-> IF view = "other" THEN "locked" ELSE "editing",
                   runs |-> view # "free", pc |-> "idle", due |-> FALSE,
                   misses |-> 0, sinceRenew |-> 0])
  /\ UNCHANGED rowVars

\* A page that was only waiting for its holder keeps waiting: a new watch round.
NotWatching(state) == [state EXCEPT !.pc = "idle", !.misses = @ + 1]
WatchAgain(state) == [state EXCEPT !.pc = "idle", !.misses = @ + 1, !.runs = TRUE]

OpenFails(t) ==
  /\ tab[t].pc \in {"open", "openView"} /\ tab[t].misses < MaxMisses
  /\ Become(t, IF tab[t].status = "locked"
                 THEN WatchAgain(tab[t]) ELSE Closed)
  /\ UNCHANGED rowVars

Poll(t) ==
  /\ tab[t].status = "locked" /\ tab[t].runs /\ tab[t].due /\ tab[t].pc = "idle"
  /\ Become(t, [tab[t] EXCEPT !.pc = "poll", !.due = FALSE])
  /\ UNCHANGED rowVars

\* isFreeToOpen: anything but another holder.  Then the watch ends.
AnswerPoll(t) ==
  /\ tab[t].pc = "poll"
  /\ IF ViewOf(UserOf[t]) = "other"
       THEN Wait(t, "idle")
       ELSE Become(t, [tab[t] EXCEPT !.pc = "open", !.runs = FALSE, !.due = FALSE])
  /\ UNCHANGED rowVars

PollFails(t) ==
  /\ tab[t].pc = "poll" /\ tab[t].misses < MaxMisses
  /\ Become(t, [tab[t] EXCEPT !.pc = "idle", !.misses = @ + 1])
  /\ UNCHANGED rowVars

\* The takeover button of the locked banner; PageLock says who may.
PressTakeOver(t) ==
  /\ tab[t].status = "locked" /\ tab[t].pc = "idle"
  /\ TakeOver(UserOf[t])
  /\ Wait(t, "open")

-----------------------------------------------------------------------------
\* pagehide: a tab that beats releases the lock with a request that outlives it.
Hidden(state) == [Closed EXCEPT !.sinceRenew = state.sinceRenew]

Hide(t) ==
  /\ tab[t].status \in {"editing", "locked"}
  /\ tab' = [tab EXCEPT ![t] = Hidden(tab[t])]
  /\ releases' = IF Beats(t) THEN releases \cup {t} ELSE releases
  /\ UNCHANGED rowVars

\* Restored from the back/forward cache: the tab still edits, and renews.
ShowAgain(t) ==
  /\ t \in releases /\ tab[t].status = "closed"
  /\ Become(t, [tab[t] EXCEPT !.status = "editing", !.runs = TRUE, !.pc = "renew"])
  /\ UNCHANGED rowVars

\* releasePageLock asks for the account, not the tab, and does nothing when
\* the account does not hold the lock.
ReleaseArrives(t) ==
  /\ t \in releases /\ releases' = releases \ {t}
  /\ \/ Release(UserOf[t])
     \/ lockedBy # UserOf[t] /\ UNCHANGED rowVars
  /\ UNCHANGED tab

ReleaseLost(t) ==
  /\ t \in releases /\ releases' = releases \ {t}
  /\ UNCHANGED <<rowVars, tab>>

-----------------------------------------------------------------------------
\* One heartbeat interval goes by: the lock ages and every timer fires.
Pass ==
  /\ Punctual => \A t \in Tabs : tab[t].pc = "idle" /\ ~tab[t].due
  /\ age' = IF lockedBy # NoUser /\ age < TTL THEN age + 1 ELSE age
  /\ tab' = [t \in Tabs |-> 
       [tab[t] EXCEPT !.due = @ \/ tab[t].runs,
                      !.sinceRenew = IF @ < TTL THEN @ + 1 ELSE @]]
  /\ UNCHANGED <<enabled, lockedBy, version, releases, switched>>
  /\ lockedOut' = [t \in Tabs |-> Count(t, 1)]

\* An administrator switches locking on or off.
Switch ==
  /\ ~switched /\ switched' = TRUE
  /\ SetLocking /\ enabled' # enabled
  /\ UNCHANGED <<tab, releases>> /\ Counting

Serve(t) ==
  \/ ServeRenew(t) \/ ServeAcquire(t) \/ AnswerRenew(t) \/ AnswerRefused(t)
  \/ ServeOpen(t) \/ AnswerOpen(t) \/ AnswerPoll(t)

Fail(t) == BeatFails(t) \/ OpenFails(t) \/ PollFails(t)

Move(t) ==
  \/ Beat(t) \/ Poll(t) \/ Serve(t) \/ Fail(t)
  \/ OpenTab(t) \/ PressTakeOver(t) \/ Hide(t) \/ ShowAgain(t)
  \/ ReleaseArrives(t) \/ ReleaseLost(t)

ClientNext ==
  \/ Pass
  \/ Switch
  \/ \E t \in Tabs : Move(t) /\ Counting /\ UNCHANGED switched

\* Timers that fired are served, requests end, and time passes however many
\* requests are made in an interval (hence SF: with Punctual each one holds up
\* Pass for a moment).
Fairness ==
  /\ SF_clientVars(Pass)
  /\ \A t \in Tabs :
       /\ WF_clientVars(tab[t].due /\ (Beat(t) \/ Poll(t)) /\ Counting /\ UNCHANGED switched)
       /\ WF_clientVars((Serve(t) \/ Fail(t)) /\ Counting /\ UNCHANGED switched)

ClientSpec == ClientInit /\ [][ClientNext]_clientVars
FairSpec == ClientSpec /\ Fairness

-----------------------------------------------------------------------------
\* Properties.

\* The countdown shown while renewals fail, which runs from the last one that
\* worked, never promises more time than the lock has left, when requests are
\* punctual and locking is not switched meanwhile.
CountdownHonest ==
  \A t \in Tabs :
    ~switched /\ Beats(t) /\ lockedBy = UserOf[t] => age <= tab[t].sinceRenew

\* A tab that beats does not edit under someone else's lock for longer than
\* the beats that may fail, and one.
DisplacedTabLearns == \A t \in Tabs : lockedOut[t] <= MaxMisses + 1

\* A tab that waits for a page does not wait for a page that stays free.
FreePageReopens ==
  \A t \in Tabs : []<>(tab[t].status # "locked" \/ LiveForOther(UserOf[t]))

\* The states of the tabs, the counters within their bounds, the countdown, and
\* how long a displaced tab edits on.
ClientInv == ClientTypeOK /\ CountdownHonest /\ DisplacedTabLearns
=============================================================================
