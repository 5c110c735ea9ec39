------------------------------ MODULE EditLock ------------------------------
(***************************************************************************)
(* What the page edit lock promises the rest of the editor, whatever roles *)
(* and permissions decide who may ask for it (packages/pages/src/locks.ts).*)
(* The lock is taken by anyone only when no one else's is live, renewed    *)
(* and released by its holder only, and wrested from a live holder only    *)
(* together with a bump of the page's version.  PageLock, with the roles   *)
(* and the two-phase takeover, implements this module; PageEdit builds on  *)
(* it.                                                                     *)
(*                                                                         *)
(* Every transaction that touches the page row takes it FOR UPDATE as its  *)
(* first step and writes it last, so a transaction is one action.  A       *)
(* refused request changes nothing and is not an action.                   *)
(*                                                                         *)
(* Time is the age of the lock in ticks: isPageLockLive looks at nothing   *)
(* but now - lockedAt, so ages above TTL are all the same age.             *)
(***************************************************************************)
EXTENDS Integers

CONSTANTS
  Users, NoUser,      \* accounts, and the null of locked_by
  Tabs, UserOf,       \* open editor tabs and the account each is signed in to
  TTL,                \* PAGE_EDIT_LOCK_TTL_SECONDS, in ticks
  MaxVersion          \* bound: page.version stops here

ASSUME EditLockAssumption ==
  /\ NoUser \notin Users
  /\ UserOf \in [Tabs -> Users]
  /\ TTL \in Nat \ {0}
  /\ MaxVersion \in Nat

VARIABLES
  enabled,    \* page_engine_settings.page_edit_locking
  lockedBy,   \* pages.locked_by
  age,        \* ticks since pages.locked_at, at most TTL
  version     \* pages.version

lockVars == <<lockedBy, age>>
rowVars == <<enabled, lockedBy, age, version>>

RowTypeOK ==
  /\ enabled \in BOOLEAN
  /\ lockedBy \in Users \cup {NoUser}
  /\ age \in 0..TTL
  /\ version \in Nat

RowInit ==
  /\ enabled \in BOOLEAN
  /\ lockedBy = NoUser /\ age = 0
  /\ version = 1

-----------------------------------------------------------------------------
\* isPageLockLive: strictly less than the TTL, and never for a null holder.
Live == lockedBy # NoUser /\ age < TTL

LiveForOther(u) == Live /\ lockedBy # u

\* assertPageWritable: a no-op while locking is off.
Writable(u) == enabled => ~LiveForOther(u)

\* acquirePageLock: not while locking is off, not over someone's live lock.
Acquirable(u) == enabled /\ ~LiveForOther(u)

HoldLock(u) == lockedBy' = u /\ age' = 0

\* The previous holder's base version is to be refused as stale from here on.
UnfencedVersion == version
FencingVersion == version + 1

Tick ==
  /\ lockedBy # NoUser /\ age < TTL
  /\ age' = age + 1
  /\ UNCHANGED <<enabled, lockedBy, version>>

SetLocking ==
  /\ enabled' \in BOOLEAN
  /\ UNCHANGED <<lockVars, version>>

Acquire(u) ==
  /\ Acquirable(u)
  /\ HoldLock(u)
  /\ UNCHANGED <<enabled, version>>

\* Renews a lapsed lock too, and does not look at the toggle.
Renew(u) ==
  /\ lockedBy = u
  /\ age' = 0
  /\ UNCHANGED <<enabled, lockedBy, version>>

Release(u) ==
  /\ lockedBy = u
  /\ lockedBy' = NoUser /\ age' = 0
  /\ UNCHANGED <<enabled, version>>

\* A takeover: of a live lock, of a lapsed one, or of none; on or off.
TakeOver(u) ==
  /\ version < MaxVersion
  /\ HoldLock(u)
  /\ version' = FencingVersion
  /\ UNCHANGED enabled

RowNext ==
  \/ Tick
  \/ SetLocking
  \/ \E u \in Users : Acquire(u) \/ Renew(u) \/ Release(u) \/ TakeOver(u)

\* All that the rest of the editor may rely on: whoever asks, and whatever roles
\* allow it, the row moves only by these steps (locks.ts, settings.ts).
RowSpec == RowInit /\ [][RowNext]_rowVars
=============================================================================
