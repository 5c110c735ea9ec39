------------------------------ MODULE PageLock ------------------------------
(***************************************************************************)
(* The edit lock of one page locale row with the permissions that govern   *)
(* it (packages/pages/src/locks.ts, settings.ts).  EditLock has the row    *)
(* and what a transaction does to it; here is who may do it, and the       *)
(* takeover as it is: a pre-check outside any transaction, which compares  *)
(* permissions, and a transaction that has to notice when the pre-check's  *)
(* answer no longer holds.  Roles change at any time in between.           *)
(***************************************************************************)
EXTENDS EditLock

CONSTANTS
  Roles, NoRole,      \* stored role keys; NoRole: deleted user or orphaned role
  Grants,             \* the resolver: the permissions of each role
  EditPerm,           \* pages:edit
  SettingsPerm        \* pages:publish, which gates the toggle

AnyRole == Roles \cup {NoRole}

ASSUME RolesAssumption ==
  /\ NoRole \notin Roles
  /\ DOMAIN Grants = AnyRole
  /\ Grants[NoRole] = {}

VARIABLES
  role,       \* "user".role_key of each account
  takeover    \* per tab: the takeover request between pre-check and transaction

vars == <<rowVars, role, takeover>>

NoRequest == [stage |-> "none", actorRole |-> NoRole, holder |-> NoUser,
              wasLive |-> FALSE, holderRole |-> NoRole]

\* A request has read the row, or has also compared permissions.
Requests == [stage : {"none", "read", "compared"}, actorRole : AnyRole,
             holder : Users \cup {NoUser}, wasLive : BOOLEAN,
             holderRole : AnyRole]

TypeOK ==
  /\ RowTypeOK
  /\ role \in [Users -> AnyRole]
  /\ takeover \in [Tabs -> Requests]

Init ==
  /\ RowInit
  /\ role \in [Users -> Roles]
  /\ takeover = [t \in Tabs |-> NoRequest]

-----------------------------------------------------------------------------
MayEdit(u) == EditPerm \in Grants[role[u]]

\* permissionsIncludeAll
Includes(actorRole, holderRole) == Grants[holderRole] \subseteq Grants[actorRole]

TimePasses == Tick /\ UNCHANGED <<role, takeover>>

\* A user's role is changed, the role is dropped from the code's role map, or
\* the user is deleted: all of it is a different answer to readUserRoleKey.
ChangeRole(u, r) ==
  /\ r # role[u]
  /\ role' = [role EXCEPT ![u] = r]
  /\ UNCHANGED <<rowVars, takeover>>

SetPageEditLocking(u) ==
  /\ SettingsPerm \in Grants[role[u]]
  /\ SetLocking
  /\ UNCHANGED <<role, takeover>>

-----------------------------------------------------------------------------
(* The lock operations.                                                    *)

Permitted(u, A) == MayEdit(u) /\ A /\ UNCHANGED <<role, takeover>>

AcquirePageLock(t) == Permitted(UserOf[t], Acquire(UserOf[t]))
RenewPageLock(t) == Permitted(UserOf[t], Renew(UserOf[t]))
ReleasePageLock(t) == Permitted(UserOf[t], Release(UserOf[t]))

\* The row as it is when the request arrives, with the actor's role of then.
TakeOverRead(t) ==
  /\ takeover[t].stage = "none"
  /\ takeover' = [takeover EXCEPT ![t] =
       [stage |-> "read", actorRole |-> role[UserOf[t]], holder |-> lockedBy,
        wasLive |-> Live, holderRole |-> NoRole]]
  /\ UNCHANGED <<rowVars, role>>

\* Whether the row that was read asks for a comparison with the holder's role.
Contested(t) == takeover[t].wasLive /\ takeover[t].holder # UserOf[t]

\* The comparison reads the holder's role on its own, a moment later.  A
\* holder whose permissions the actor lacks is never displaced.
OutranksAny(t) == TRUE
Outranks(t) == Includes(takeover[t].actorRole, role[takeover[t].holder])

ComparedRole(t) ==
  IF Contested(t) THEN role[takeover[t].holder] ELSE NoRole

TakeOverCompare(t) ==
  /\ takeover[t].stage = "read"
  /\ Contested(t) => Outranks(t)
  /\ takeover' = [takeover EXCEPT ![t] =
       [stage |-> "compared", actorRole |-> @.actorRole, holder |-> @.holder,
        wasLive |-> @.wasLive, holderRole |-> ComparedRole(t)]]
  /\ UNCHANGED <<rowVars, role>>

\* What the transaction re-checks; any of these throws PageLockStateChangedError.
HolderChanged(t) == lockedBy # takeover[t].holder
ComparisonOutdated(t) ==
  /\ takeover[t].wasLive
  /\ LiveForOther(UserOf[t])
  /\ role[lockedBy] # takeover[t].holderRole
ComparisonSkipped(t) == LiveForOther(UserOf[t]) /\ ~takeover[t].wasLive

StateChangedButRole(t) == HolderChanged(t) \/ ComparisonSkipped(t)
StateChanged(t) ==
  HolderChanged(t) \/ ComparisonOutdated(t) \/ ComparisonSkipped(t)

TakeOverUnfenced(t) ==
  /\ takeover[t].stage = "compared" /\ ~StateChanged(t)
  /\ HoldLock(UserOf[t]) /\ UNCHANGED <<enabled, version, role>>
  /\ takeover' = [takeover EXCEPT ![t] = NoRequest]
TakeOverCommit(t) ==
  /\ takeover[t].stage = "compared"
  /\ EditPerm \in Grants[takeover[t].actorRole]
  /\ ~StateChanged(t)
  /\ TakeOver(UserOf[t])
  /\ takeover' = [takeover EXCEPT ![t] = NoRequest]
  /\ UNCHANGED role

\* The pre-check, the recorder or the transaction refuses, or the process dies.
TakeOverFail(t) ==
  /\ takeover[t].stage # "none"
  /\ takeover' = [takeover EXCEPT ![t] = NoRequest]
  /\ UNCHANGED <<rowVars, role>>

-----------------------------------------------------------------------------
LockStep(t) ==
  \/ AcquirePageLock(t)
  \/ RenewPageLock(t)
  \/ ReleasePageLock(t)
  \/ TakeOverRead(t)
  \/ TakeOverCompare(t)
  \/ TakeOverCommit(t)
  \/ TakeOverFail(t)

WorldStep ==
  \/ TimePasses
  \/ \E u \in Users, r \in AnyRole : ChangeRole(u, r)
  \/ \E u \in Users : SetPageEditLocking(u)

Next == WorldStep \/ \E t \in Tabs : LockStep(t)

Spec == Init /\ [][Next]_vars

-----------------------------------------------------------------------------
(* Properties.                                                             *)

\* A live holder loses the lock to someone else only when that person's
\* permissions, as the takeover request resolved them, include those of the
\* role the holder has at that very moment: not of a role it had earlier, and
\* never without a comparison because the lock looked lapsed at pre-check
\* time (rule D-44 of takeOverPageLock).
LiveHolderOutranked ==
  [][\A h \in Users : \A t \in Tabs :
       (lockedBy = h /\ Live /\ lockedBy' = UserOf[t] /\ UserOf[t] # h)
         => \E s \in Tabs : /\ UserOf[s] = UserOf[t]
                            /\ takeover[s].stage = "compared"
                            /\ Includes(takeover[s].actorRole, role[h])]_vars

-----------------------------------------------------------------------------
(* The inductive strengthening behind LiveHolderOutranked.                 *)

\* A pending request that displaces a live holder has compared its role.
RequestCompared ==
  \A t \in Tabs :
    (takeover[t].stage = "compared" /\ Contested(t))
      => Includes(takeover[t].actorRole, takeover[t].holderRole)

\* A live lock that a request has read had a holder.
LiveHadHolder ==
  \A t \in Tabs : takeover[t].wasLive => takeover[t].holder # NoUser

IndInv == TypeOK /\ RequestCompared /\ LiveHadHolder
=============================================================================
