------------------------------ MODULE Accounts ------------------------------
(***************************************************************************)
(* Accounts, the links by which their passwords are set, and sessions      *)
(* (packages/auth/src: first-user.ts, tokens.ts, credentials.ts,           *)
(* invite.ts, impersonation.ts; packages/core/src/runtime/bootstrap.ts).   *)
(*                                                                         *)
(* A worker runs one call at a time; each of its statements is a step,     *)
(* what a transaction wrote is visible when it commits, and it may end at  *)
(* any step.  Signing in, ending a session and minting an impersonation    *)
(* are calls of the authentication library on connections of its own.     *)
(* Who may invite or ask for a link is left open: a refused call changes   *)
(* nothing.  An expired link is refused, as when its transaction ends.     *)
(***************************************************************************)
EXTENDS Naturals, FiniteSets

CONSTANTS People, NoOne, Workers, MaxCalls

ASSUME AccountsAssumption == NoOne \notin People /\ MaxCalls \in Nat

VARIABLES
  users,     \* role, number of passwords set, and whether it was the first account
  links,     \* the outstanding single-use tokens
  sessions,
  tx,        \* what each worker is doing
  calls, last
vars == <<users, links, sessions, tx, calls, last>>

Purposes == {"set-password", "reset-password"}
Nobody == [role |-> "none", cred |-> 0, first |-> FALSE]
Registered(u) == users[u] # Nobody
Empty == \A u \in People : ~Registered(u)
Idle == [op |-> "none", pc |-> "idle", user |-> NoOne, role |-> "editor", new |-> FALSE, first |-> FALSE,
         purpose |-> "set-password", id |-> 0, cred |-> 0, by |-> NoOne, sweep |-> {}, ends |-> {}]

At(w, op, pc) == tx[w].op = op /\ tx[w].pc = pc
Becomes(w, t) == tx' = [tx EXCEPT ![w] = t]
Ends(w) == Becomes(w, Idle)
Calls(w, t) ==
  /\ tx[w] = Idle /\ calls < MaxCalls /\ calls' = calls + 1 /\ Becomes(w, t)
  /\ UNCHANGED <<users, links, sessions, last>>
Steps(w, t) == Becomes(w, t) /\ UNCHANGED <<users, links, sessions, calls, last>>

-----------------------------------------------------------------------------
(* Locks, which last as long as their transaction.                         *)

\* The advisory lock under which an account is created.
FirstFree(w) == \A v \in Workers \ {w} : ~tx[v].new
\* The advisory lock on one purpose of one account.
IssueFree(w) ==
  \A v \in Workers \ {w} : ~(tx[v].pc = "replacing" /\ tx[v].user = tx[w].user /\ tx[v].purpose = tx[w].purpose)
\* The token rows a transaction has deleted.
Taken(v) == tx[v].sweep \cup (IF tx[v].pc \in {"taken", "locked", "ended", "swept"} THEN {l \in links : l.id = tx[v].id} ELSE {})
TokensFreeIgnored(w, some) == TRUE
TokensFree(w, some) == \A v \in Workers \ {w} : some \cap Taken(v) = {}
\* The row of an account, which a session that is inserted refers to.
Setting(v, u) == tx[v].op = "complete" /\ tx[v].user = u
UserFree(u) == \A v \in Workers : ~(Setting(v, u) /\ tx[v].pc \in {"locked", "ended", "swept"})
\* A completion that has ended the sessions it saw and not yet committed.
PastEnding(u) == \E v \in Workers : Setting(v, u) /\ tx[v].pc \in {"ended", "swept"}
SessionsFree(w, some) == \A v \in Workers \ {w} : some \cap tx[v].ends = {}

-----------------------------------------------------------------------------
(* Creating accounts and issuing links.                                    *)

Bootstrap(w, u) ==
  /\ Empty
  /\ Calls(w, [Idle EXCEPT !.op = "bootstrap", !.pc = "creating", !.user = u])

InviteUser(w, u, r) == Calls(w, [Idle EXCEPT !.op = "invite", !.pc = "placing", !.user = u, !.role = r])

PurposeOf(u) == IF users[u].cred = 0 THEN "set-password" ELSE "reset-password"

\* The address has an account: it is sent a link.
Existing(w) == [tx[w] EXCEPT !.pc = "placed", !.purpose = PurposeOf(tx[w].user)]

Place(w) ==
  /\ At(w, "invite", "placing")
  /\ Steps(w, IF Registered(tx[w].user) THEN Existing(w) ELSE [tx[w] EXCEPT !.pc = "creating"])

\* The first account is the superadmin's, whatever was asked for.  A savepoint that fails gives its lock back.
CreateUserWithRole(w) ==
  LET u == tx[w].user
      created == [tx[w] EXCEPT !.pc = "placed", !.new = TRUE, !.first = Empty,
                               !.role = IF Empty THEN "superadmin" ELSE @]
  IN  /\ tx[w].pc = "creating" /\ FirstFree(w)
      /\ Steps(w, CASE tx[w].op = "bootstrap" -> IF Empty THEN created ELSE Idle
                    [] tx[w].op = "invite" /\ Registered(u) -> Existing(w)
                    [] OTHER -> created)

Placed(w) == [role |-> tx[w].role, cred |-> IF tx[w].op = "bootstrap" THEN 1 ELSE 0, first |-> tx[w].first]
UsersWith(w) == IF tx[w].new THEN [users EXCEPT ![tx[w].user] = Placed(w)] ELSE users

CommitBootstrap(w) ==
  /\ At(w, "bootstrap", "placed")
  /\ users' = UsersWith(w) /\ Ends(w) /\ UNCHANGED <<links, sessions, calls, last>>

\* resendSetPasswordLink; an address without an account gets nothing.
ResendLink(w, u) ==
  /\ Registered(u)
  /\ Calls(w, [Idle EXCEPT !.op = "resend", !.pc = "placed", !.user = u, !.purpose = PurposeOf(u)])
RequestLink(w, u) ==
  /\ Registered(u)
  /\ Calls(w, [Idle EXCEPT !.op = "request", !.pc = "placed", !.user = u, !.purpose = "reset-password"])

Earlier(w) == {l \in links : l.user = tx[w].user /\ l.purpose = tx[w].purpose}
IssueToken(w) ==
  /\ tx[w].op \in {"invite", "resend", "request"} /\ tx[w].pc = "placed"
  /\ IssueFree(w) /\ TokensFree(w, Earlier(w))
  /\ Steps(w, [tx[w] EXCEPT !.pc = "replacing", !.sweep = Earlier(w)])

\* The mail goes out after the commit; whether it arrives changes nothing here.
CommitIssue(w) ==
  LET u == tx[w].user
      l == [id |-> last + 1, user |-> u, purpose |-> tx[w].purpose, cred |-> UsersWith(w)[u].cred,
            slipped |-> PastEnding(u)]
  IN  /\ tx[w].pc = "replacing"
      /\ users' = UsersWith(w) /\ links' = (links \ tx[w].sweep) \cup {l} /\ last' = last + 1
      /\ Ends(w) /\ UNCHANGED <<sessions, calls>>

-----------------------------------------------------------------------------
(* Completing a link.                                                      *)

CompleteSetPassword(w, l) == Calls(w, [Idle EXCEPT !.op = "complete", !.pc = "presented", !.user = l.user, !.id = l.id])

Presented(w) == {l \in links : l.id = tx[w].id}
\* A link that is gone is refused; one that another transaction deletes is waited for.
ConsumeToken(w) ==
  /\ At(w, "complete", "presented") /\ TokensFree(w, Presented(w))
  /\ Steps(w, IF Presented(w) = {} THEN Idle ELSE [tx[w] EXCEPT !.pc = "taken"])

LockUser(w) ==
  /\ At(w, "complete", "taken") /\ UserFree(tx[w].user)
  /\ Steps(w, [tx[w] EXCEPT !.pc = "locked"])

SessionsOfAccountOnly(u) == {s \in sessions : s.user = u}
SessionsOf(u) == {s \in sessions : u \in {s.user, s.by}}
EndSessions(w) ==
  LET ends == SessionsOf(tx[w].user)
  IN  /\ At(w, "complete", "locked") /\ SessionsFree(w, ends)
      /\ Steps(w, [tx[w] EXCEPT !.pc = "ended", !.ends = ends])

OtherLinks(w) == {l \in links : l.user = tx[w].user /\ l.id # tx[w].id}
SweepLinks(w) ==
  /\ At(w, "complete", "ended") /\ TokensFree(w, OtherLinks(w))
  /\ Steps(w, [tx[w] EXCEPT !.pc = "swept", !.sweep = OtherLinks(w)])

CommitPassword(w) ==
  /\ At(w, "complete", "swept")
  /\ users' = [users EXCEPT ![tx[w].user].cred = @ + 1]
  /\ links' = links \ (tx[w].sweep \cup Presented(w))
  /\ sessions' = sessions \ tx[w].ends
  /\ Ends(w) /\ UNCHANGED <<calls, last>>

-----------------------------------------------------------------------------
(* Sessions and impersonation.                                             *)

SignIn(w, u) ==
  /\ users[u].cred > 0
  /\ Calls(w, [Idle EXCEPT !.op = "signIn", !.pc = "verified", !.user = u, !.cred = users[u].cred])

Opens(s) == sessions' = sessions \cup {s} /\ last' = last + 1 /\ UNCHANGED <<users, links, calls>>
OpenSession(w) ==
  LET u == tx[w].user
  IN  /\ At(w, "signIn", "verified") /\ UserFree(u) /\ Ends(w)
      /\ Opens([id |-> last + 1, user |-> u, by |-> NoOne, cred |-> tx[w].cred, byCred |-> 0,
                row |-> "none", slipped |-> tx[w].cred # users[u].cred])

EndSession(s) ==
  /\ \A v \in Workers : s \notin tx[v].ends
  /\ sessions' = sessions \ {s} /\ UNCHANGED <<users, links, tx, calls, last>>
SessionEnds == \E s \in sessions : s.by = NoOne /\ EndSession(s)
StopImpersonation == \E s \in sessions : s.by # NoOne /\ s.row # "pending" /\ EndSession(s)

Forbidden(s, u) == u = s.user \/ users[u].role = "superadmin"
StartImpersonation(w, s, u) ==
  /\ s.by = NoOne /\ Registered(u) /\ ~Forbidden(s, u)
  /\ Calls(w, [Idle EXCEPT !.op = "impersonate", !.pc = "allowed", !.user = u, !.by = s.user, !.id = s.id, !.cred = s.cred])

\* The library looks at the session that asks before it writes, in a statement of its own.
Mint(w) ==
  LET t == tx[w]
  IN  /\ At(w, "impersonate", "allowed") /\ UserFree(t.user)
      /\ Becomes(w, [t EXCEPT !.pc = "minted", !.id = last + 1])
      /\ Opens([id |-> last + 1, user |-> t.user, by |-> t.by, cred |-> users[t.user].cred, byCred |-> t.cred,
                row |-> "pending", slipped |-> PastEnding(t.by) \/ t.cred # users[t.by].cred])

Minted(w) == {s \in sessions : s.id = tx[w].id}
Settled(w, row) == {[s EXCEPT !.row = row] : s \in Minted(w)}
\* The audit row commits, or it fails and the session goes again, or the process ends in between.
Record(w, row) ==
  /\ At(w, "impersonate", "minted") /\ SessionsFree(w, Minted(w))
  /\ sessions' = (sessions \ Minted(w)) \cup Settled(w, row)
  /\ Ends(w) /\ UNCHANGED <<users, links, calls, last>>
Unrecord(w) ==
  /\ At(w, "impersonate", "minted") /\ SessionsFree(w, Minted(w))
  /\ sessions' = sessions \ Minted(w)
  /\ Ends(w) /\ UNCHANGED <<users, links, calls, last>>

\* A transaction that ends here leaves no trace.
Abort(w) == tx[w].pc \notin {"idle", "minted"} /\ Steps(w, Idle)

-----------------------------------------------------------------------------
Init ==
  /\ users = [u \in People |-> Nobody] /\ links = {} /\ sessions = {}
  /\ tx = [w \in Workers |-> Idle] /\ calls = 0 /\ last = 0

Called(w) ==
  \/ \E u \in People : Bootstrap(w, u) \/ ResendLink(w, u) \/ RequestLink(w, u) \/ SignIn(w, u)
  \/ \E u \in People, r \in {"editor", "superadmin"} : InviteUser(w, u, r)
  \/ \E l \in links : CompleteSetPassword(w, l)
  \/ \E s \in sessions, u \in People : StartImpersonation(w, s, u)
Runs(w) ==
  \/ Place(w) \/ CreateUserWithRole(w) \/ CommitBootstrap(w) \/ IssueToken(w) \/ CommitIssue(w)
  \/ ConsumeToken(w) \/ LockUser(w) \/ EndSessions(w) \/ SweepLinks(w) \/ CommitPassword(w)
  \/ OpenSession(w) \/ Mint(w) \/ Record(w, "written") \/ Record(w, "lost") \/ Unrecord(w) \/ Abort(w)

Next == (\E w \in Workers : Called(w) \/ Runs(w)) \/ SessionEnds \/ StopImpersonation
Spec == Init /\ [][Next]_vars

-----------------------------------------------------------------------------
Links == [id : Nat, user : People, purpose : Purposes, cred : Nat, slipped : BOOLEAN]
Sessions == [id : Nat, user : People, by : People \cup {NoOne}, cred : Nat, byCred : Nat,
             row : {"none", "pending", "written", "lost"}, slipped : BOOLEAN]
TypeOK ==
  /\ users \in [People -> [role : {"none", "editor", "superadmin"}, cred : Nat, first : BOOLEAN]]
  /\ links \subseteq Links /\ sessions \subseteq Sessions
  /\ calls \in 0..MaxCalls /\ last \in Nat
  /\ \A w \in Workers : tx[w].sweep \subseteq Links /\ tx[w].ends \subseteq Sessions

\* Exactly one account was the first, and it can administer: however many were created at once.
OneFirst == Empty \/ \E u \in People : users[u].role = "superadmin" /\ {p \in People : users[p].first} = {u}

\* No session outlives the password it was opened under, nor that of the account that acts through it,
\* unless it was opened while the new password was being committed.
SessionsCurrent ==
  \A s \in sessions : ~s.slipped => /\ s.cred = users[s.user].cred
                                    /\ (s.by # NoOne => s.byCred = users[s.by].cred)

\* Nobody acts as a superadmin or as themselves, and unless the process ended in between, the start of an
\* impersonation is recorded or still being recorded.
ImpersonationsAllowed ==
  \A s \in sessions : s.by # NoOne =>
    /\ s.by # s.user /\ users[s.user].role # "superadmin"
    /\ (s.row = "pending" <=> \E w \in Workers : At(w, "impersonate", "minted") /\ tx[w].id = s.id)

\* Only the latest link of a purpose works, and no link survives a password set after it was issued, unless
\* it was issued while that password was being committed.
LinksCurrent ==
  /\ \A l, m \in links : l.user = m.user /\ l.purpose = m.purpose => l = m
  /\ \A l \in links : ~l.slipped => l.cred = users[l.user].cred

\* The state of accounts, sessions and links is sound in every order of concurrent creations, password
\* changes, sign-ins, impersonations and issues.
AccountInv == TypeOK /\ OneFirst /\ SessionsCurrent /\ ImpersonationsAllowed /\ LinksCurrent

\* A link goes only when its account's password is set or a newer link replaces it (a failed attempt costs
\* nothing), and a password of an account that exists is set only by spending a link that was outstanding.
Replaced(l) == \E n \in links' \ links : n.user = l.user /\ n.purpose = l.purpose
PasswordSet(u) == users'[u].cred = users[u].cred + 1
LinksNotLost ==
  [][/\ \A l \in links \ links' : Replaced(l) \/ PasswordSet(l.user)
     /\ \A u \in People : Registered(u) /\ users'[u].cred # users[u].cred
                            => PasswordSet(u) /\ \E l \in links \ links' : l.user = u]_vars
=============================================================================
