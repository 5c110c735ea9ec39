-------------------------- MODULE Accounts_proofs --------------------------
(***************************************************************************)
(* For any people, workers and number of calls: the accounts, links and    *)
(* sessions are sound, and no link is lost.                                *)
(***************************************************************************)
EXTENDS Accounts, TLAPS

Tx ==
  [op : {"none", "bootstrap", "invite", "resend", "request", "complete", "signIn", "impersonate"},
   pc : {"idle", "creating", "placing", "placed", "replacing", "presented", "taken", "locked",
         "ended", "swept", "verified", "allowed", "minted"},
   user : People \cup {NoOne}, role : {"editor", "superadmin"}, new : BOOLEAN, first : BOOLEAN,
   purpose : Purposes, id : Nat, cred : Nat, by : People \cup {NoOne},
   sweep : SUBSET Links, ends : SUBSET Sessions]

Users == [role : {"none", "editor", "superadmin"}, cred : Nat, first : BOOLEAN]
Types ==
  /\ users \in [People -> Users]
  /\ links \in SUBSET Links /\ sessions \in SUBSET Sessions
  /\ tx \in [Workers -> Tx] /\ last \in Nat /\ calls \in 0..MaxCalls

\* What a transaction t reads and takes of the links.
PresentedBy(t) == {l \in links : l.id = t.id}
EarlierOf(t) == {l \in links : l.user = t.user /\ l.purpose = t.purpose}
OthersOf(t) == {l \in links : l.user = t.user /\ l.id # t.id}
Consuming == {"taken", "locked", "ended", "swept"}
TakenBy(t) == t.sweep \cup (IF t.pc \in Consuming THEN PresentedBy(t) ELSE {})

\* Each step of a call belongs to some operations, and each operation has its account.
OwnPhase(t) ==
  /\ t.op # "none" => t.user \in People
  /\ t.pc \in {"presented"} \cup Consuming <=> t.op = "complete"
  /\ t.pc = "idle" <=> t.op = "none"
  /\ t.pc = "creating" => t.op \in {"bootstrap", "invite"}
  /\ t.pc = "placing" => t.op = "invite"
  /\ t.pc = "placed" => t.op \in {"bootstrap", "invite", "resend", "request"}
  /\ t.pc = "replacing" => t.op \in {"invite", "resend", "request"}
  /\ t.pc = "verified" <=> t.op = "signIn"
  /\ t.pc \in {"allowed", "minted"} <=> t.op = "impersonate"
  /\ t.pc \notin {"replacing", "swept"} => t.sweep = {}
  /\ t.pc \notin {"ended", "swept"} => t.ends = {}

\* An account that is being created is not there yet, and is the first if none is.
OwnAccount(t) ==
  /\ t.new => /\ t.pc \in {"placed", "replacing"} /\ ~Registered(t.user)
              /\ t.first = Empty /\ (t.first => t.role = "superadmin")
  /\ ~t.new /\ t.pc \in {"placed", "replacing"} => Registered(t.user)
  /\ t.op = "bootstrap" /\ t.pc = "placed" => t.new
  /\ t.op \in {"complete", "signIn", "impersonate", "resend", "request"} => Registered(t.user)
  /\ t.op = "impersonate" => /\ t.by \in People /\ Registered(t.by) /\ t.by # t.user
                             /\ users[t.user].role # "superadmin"

\* The links that go at a commit are all that have to, or came past it.
OwnLinks(t) ==
  /\ t.pc = "replacing" => /\ \A l \in t.sweep : l.user = t.user /\ l.purpose = t.purpose
                           /\ EarlierOf(t) \subseteq t.sweep
  /\ t.op = "complete" => t.id <= last /\ \A l \in PresentedBy(t) : l.user = t.user
  /\ t.pc \in Consuming => PresentedBy(t) # {}
  /\ t.pc = "swept" => /\ \A l \in t.sweep : l.user = t.user
                       /\ \A l \in OthersOf(t) : l \in t.sweep \/ l.slipped

\* So are the sessions that end at it.
OwnSessions(t) ==
  /\ t.pc \in {"ended", "swept"} => \A s \in SessionsOf(t.user) : s \in t.ends \/ s.slipped
  /\ t.pc = "minted" => t.id <= last

Own(t) == OwnPhase(t) /\ OwnAccount(t) /\ OwnLinks(t) /\ OwnSessions(t)

\* What the locks keep from two workers.
Apart(t, r) ==
  /\ ~(t.new /\ r.new)
  /\ TakenBy(t) \cap TakenBy(r) = {}
  /\ t.pc = "replacing" /\ r.pc = "replacing" => t.user # r.user \/ t.purpose # r.purpose
  /\ t.pc = "minted" /\ r.pc = "minted" => t.id # r.id

Workings ==
  /\ \A w \in Workers : Own(tx[w])
  /\ \A v, w \in Workers : v # w => Apart(tx[v], tx[w])

\* An account that is not there has no role; links and sessions belong to accounts that are there.
Accounted == \A u \in People : users[u].role = "none" => users[u] = Nobody
LinksHeld ==
  /\ \A l \in links : l.id <= last /\ Registered(l.user)
  /\ \A l, m \in links : l.id = m.id => l = m
SessionsHeld ==
  /\ \A s \in sessions : s.id <= last /\ Registered(s.user) /\ (s.by # NoOne => Registered(s.by))
  /\ \A s, r \in sessions : s.id = r.id => s = r

IInv == /\ Types /\ Workings /\ Accounted /\ OneFirst /\ LinksHeld /\ LinksCurrent
        /\ SessionsHeld /\ SessionsCurrent /\ ImpersonationsAllowed

-----------------------------------------------------------------------------
(* Types.                                                                  *)

LEMMA IdleType == Idle \in Tx
BY AccountsAssumption DEF Idle, Tx, Purposes

\* What a call or a step makes of its worker keeps the types.
LEMMA BecomesType ==
  ASSUME Types, NEW w \in Workers, NEW t \in Tx, Becomes(w, t)
  PROVE  tx' \in [Workers -> Tx] /\ tx'[w] = t /\ \A v \in Workers \ {w} : tx'[v] = tx[v]
BY DEF Types, Becomes

LEMMA CallsType ==
  ASSUME Types, NEW w \in Workers, Called(w)
  PROVE  Types'
<1>1. ASSUME NEW t \in Tx, Calls(w, t) PROVE Types'
  <2>1. tx' \in [Workers -> Tx]
    BY <1>1, BecomesType DEF Calls
  <2>2. calls' \in 0..MaxCalls
    BY <1>1, AccountsAssumption DEF Types, Calls
  <2> QED BY <1>1, <2>1, <2>2 DEF Types, Calls
<1>2. ASSUME NEW u \in People, Bootstrap(w, u) \/ ResendLink(w, u) \/ RequestLink(w, u) \/ SignIn(w, u)
      PROVE  Types'
  <2>1. users[u].cred \in Nat
    BY DEF Types, Users
  <2> QED BY <1>1, <1>2, <2>1, IdleType DEF Bootstrap, ResendLink, RequestLink, SignIn, PurposeOf, Tx, Purposes
<1>3. ASSUME NEW u \in People, NEW r \in {"editor", "superadmin"}, InviteUser(w, u, r) PROVE Types'
  BY <1>1, <1>3, IdleType DEF InviteUser, Tx
<1>4. ASSUME NEW l \in links, CompleteSetPassword(w, l) PROVE Types'
  <2>1. l.user \in People /\ l.id \in Nat
    BY DEF Types, Links
  <2> QED BY <1>1, <1>4, <2>1, IdleType DEF CompleteSetPassword, Tx
<1>5. ASSUME NEW s \in sessions, NEW u \in People, StartImpersonation(w, s, u) PROVE Types'
  <2>1. s.user \in People /\ s.id \in Nat /\ s.cred \in Nat
    BY DEF Types, Sessions
  <2> QED BY <1>1, <1>5, <2>1, IdleType DEF StartImpersonation, Tx
<1> QED BY <1>2, <1>3, <1>4, <1>5 DEF Called

LEMMA RunsType ==
  ASSUME Types, NEW w \in Workers, Own(tx[w]), Runs(w)
  PROVE  Types'
<1> USE IdleType
<1>0. tx[w] \in Tx
  BY DEF Types
<1>a. Existing(w) \in Tx
  <2>1. PurposeOf(tx[w].user) \in Purposes
    BY DEF PurposeOf, Purposes
  <2> QED BY <1>0, <2>1 DEF Existing, Tx
<1>b. last + 1 \in Nat
  BY DEF Types
<1>1. ASSUME NEW t \in Tx, Steps(w, t) PROVE Types'
  <2>1. tx' \in [Workers -> Tx]
    BY <1>1, BecomesType DEF Steps
  <2> QED BY <1>1, <2>1 DEF Types, Steps
<1>2. CASE Place(w)
  <2>1. [tx[w] EXCEPT !.pc = "creating"] \in Tx
    BY <1>0 DEF Tx
  <2> QED BY <1>1, <1>2, <1>a, <2>1 DEF Place
<1>3. CASE CreateUserWithRole(w)
  <2>2. [tx[w] EXCEPT !.pc = "placed", !.new = TRUE, !.first = Empty,
                               !.role = IF Empty THEN "superadmin" ELSE @] \in Tx
    <3>1. Empty \in BOOLEAN
      BY DEF Empty
    <3> QED BY <1>0, <3>1 DEF Tx
  <2> QED BY <1>1, <1>3, <1>a, <2>2, IdleType DEF CreateUserWithRole
<1>4. CASE CommitBootstrap(w)
  BY <1>0, <1>4, BecomesType DEF CommitBootstrap, Ends, UsersWith, Placed, Types, Users, Tx
<1>5. CASE IssueToken(w)
  <2>1. [tx[w] EXCEPT !.pc = "replacing", !.sweep = Earlier(w)] \in Tx
    BY <1>0 DEF Tx, Earlier, Types
  <2> QED BY <1>1, <1>5, <2>1 DEF IssueToken
<1>6. CASE CommitIssue(w)
  <2>1. tx[w].user \in People
    BY <1>6 DEF CommitIssue, Own, OwnPhase
  <2>2. UsersWith(w) \in [People -> Users]
    BY <1>0 DEF UsersWith, Placed, Types, Users, Tx
  <2>3. [id |-> last + 1, user |-> tx[w].user, purpose |-> tx[w].purpose,
         cred |-> UsersWith(w)[tx[w].user].cred, slipped |-> PastEnding(tx[w].user)] \in Links
    <3>1. PastEnding(tx[w].user) \in BOOLEAN
      BY DEF PastEnding
    <3> QED BY <1>0, <1>b, <2>1, <2>2, <3>1 DEF Links, Users, Tx
  <2>4. links' \subseteq Links
    BY <1>6, <2>3 DEF CommitIssue, Types
  <2> QED BY <1>6, <1>b, <2>2, <2>4, BecomesType DEF CommitIssue, Ends, Types
<1>7. CASE ConsumeToken(w)
  BY <1>0, <1>1, <1>7 DEF ConsumeToken, Tx
<1>8. CASE LockUser(w)
  BY <1>0, <1>1, <1>8 DEF LockUser, Tx
<1>9. CASE EndSessions(w)
  <2>1. [tx[w] EXCEPT !.pc = "ended", !.ends = SessionsOf(tx[w].user)] \in Tx
    BY <1>0 DEF Tx, SessionsOf, Types
  <2> QED BY <1>1, <1>9, <2>1 DEF EndSessions
<1>10. CASE SweepLinks(w)
  <2>1. [tx[w] EXCEPT !.pc = "swept", !.sweep = OtherLinks(w)] \in Tx
    BY <1>0 DEF Tx, OtherLinks, Types
  <2> QED BY <1>1, <1>10, <2>1 DEF SweepLinks
<1>11. CASE CommitPassword(w)
  <2>1. users' \in [People -> Users]
    <3>1. tx[w].user \in People
      BY <1>11 DEF CommitPassword, At, Own, OwnPhase
    <3>2. users[tx[w].user] \in Users /\ users \in [People -> Users]
      BY <3>1 DEF Types
    <3>3. [users[tx[w].user] EXCEPT !.cred = @ + 1] \in Users
      BY <3>2 DEF Users
    <3> QED BY <1>11, <3>2, <3>3 DEF CommitPassword
  <2>2. tx' \in [Workers -> Tx]
    BY <1>11, BecomesType DEF CommitPassword, Ends
  <2> QED BY <1>11, <2>1, <2>2 DEF CommitPassword, Types
<1>12. CASE OpenSession(w)
  <2>1. tx[w].user \in People
    BY <1>12 DEF OpenSession, At, Own, OwnPhase
  <2>2. [id |-> last + 1, user |-> tx[w].user, by |-> NoOne, cred |-> tx[w].cred, byCred |-> 0,
         row |-> "none", slipped |-> tx[w].cred # users[tx[w].user].cred] \in Sessions
    BY <1>0, <1>b, <2>1 DEF Sessions, Tx
  <2>3. sessions' \subseteq Sessions
    BY <1>12, <2>2 DEF OpenSession, Opens, Types
  <2> QED BY <1>12, <1>b, <2>3, BecomesType DEF OpenSession, Opens, Ends, Types
<1>13. CASE Mint(w)
  <2>1. tx[w].user \in People /\ tx[w].by \in People
    BY <1>13 DEF Mint, At, Own, OwnPhase, OwnAccount
  <2>2. [id |-> last + 1, user |-> tx[w].user, by |-> tx[w].by, cred |-> users[tx[w].user].cred,
         byCred |-> tx[w].cred, row |-> "pending",
         slipped |-> PastEnding(tx[w].by) \/ tx[w].cred # users[tx[w].by].cred] \in Sessions
    BY <1>0, <1>b, <2>1 DEF Sessions, Tx, Types, Users
  <2>3. sessions' \subseteq Sessions
    BY <1>13, <2>2 DEF Mint, Opens, Types
  <2>4. [tx[w] EXCEPT !.pc = "minted", !.id = last + 1] \in Tx
    BY <1>0, <1>b DEF Tx
  <2> QED BY <1>13, <1>b, <2>3, <2>4, BecomesType DEF Mint, Opens, Types
<1>14. CASE Record(w, "written") \/ Record(w, "lost")
  <2>1. ASSUME NEW row \in {"written", "lost"}, NEW s \in Sessions PROVE [s EXCEPT !.row = row] \in Sessions
    BY DEF Sessions
  <2>2. ASSUME NEW row \in {"written", "lost"}, Record(w, row) PROVE sessions' \subseteq Sessions
    BY <2>1, <2>2 DEF Record, Settled, Minted, Types
  <2> QED BY <1>14, <2>2, BecomesType DEF Record, Ends, Types
<1>15. CASE Unrecord(w)
  BY <1>15, BecomesType DEF Unrecord, Ends, Types
<1>16. CASE Abort(w)
  BY <1>1, <1>16 DEF Abort
<1> QED BY <1>2, <1>3, <1>4, <1>5, <1>6, <1>7, <1>8, <1>9, <1>10, <1>11, <1>12, <1>13, <1>14, <1>15, <1>16 DEF Runs

-----------------------------------------------------------------------------
(* Steps that change no account, link or session.                          *)

\* Where a worker goes on within what its locks keep apart, everything holds that held.
LEMMA StepInv ==
  ASSUME IInv, NEW w \in Workers, NEW t \in Tx, Becomes(w, t), Types',
         UNCHANGED <<users, links, sessions, last>>, tx[w].pc # "minted", t.pc # "minted",
         Own(t), \A v \in Workers \ {w} : Apart(tx[v], t)
  PROVE  IInv'
<1>1. tx'[w] = t /\ \A v \in Workers \ {w} : tx'[v] = tx[v]
  BY BecomesType DEF IInv
<1>2. \A r : Own(r) => Own(r)'
  <2> TAKE r
  <2> HAVE Own(r)
  <2>1. OwnPhase(r)'
    BY DEF Own, OwnPhase
  <2>2. OwnAccount(r)'
    <3>1. Empty' = Empty
      BY DEF Empty, Registered
    <3> QED BY <3>1 DEF Own, OwnAccount, Registered
  <2>3. OwnLinks(r)'
    BY DEF Own, OwnLinks, PresentedBy, EarlierOf, OthersOf
  <2>4. OwnSessions(r)'
    BY DEF Own, OwnSessions, SessionsOf
  <2> QED BY <2>1, <2>2, <2>3, <2>4 DEF Own
<1>3. \A r, q : Apart(r, q) => Apart(r, q)' /\ Apart(q, r)
  BY DEF Apart, TakenBy, PresentedBy
<1>4. Workings'
  BY <1>1, <1>2, <1>3 DEF IInv, Workings
<1>5. ImpersonationsAllowed'
  BY <1>1 DEF IInv, ImpersonationsAllowed, At
<1> QED BY <1>4, <1>5 DEF IInv, Accounted, OneFirst, LinksHeld, LinksCurrent, SessionsHeld, SessionsCurrent,
                          Registered, Empty

\* A worker that has taken nothing is apart from the others.
Starts(t) ==
  /\ t.pc \notin Consuming \cup {"replacing", "minted"} /\ ~t.new /\ t.sweep = {}
  /\ OwnPhase(t) /\ OwnAccount(t)
  /\ t.op = "complete" => t.id <= last /\ \A l \in PresentedBy(t) : l.user = t.user

LEMMA StartInv ==
  ASSUME IInv, NEW w \in Workers, NEW t \in Tx, Becomes(w, t), Types',
         UNCHANGED <<users, links, sessions, last>>, tx[w].pc # "minted", Starts(t)
  PROVE  IInv'
<1>1. OwnLinks(t) /\ OwnSessions(t)
  BY DEF OwnLinks, OwnSessions, Consuming, Starts
<1>2. \A v \in Workers \ {w} : Apart(tx[v], t)
  BY DEF Apart, TakenBy, Starts
<1>3. OwnPhase(t) /\ OwnAccount(t) /\ t.pc # "minted"
  BY DEF Starts
<1> QED BY <1>1, <1>2, <1>3, StepInv DEF Own

LEMMA CallsInv ==
  ASSUME IInv, NEW w \in Workers, Called(w)
  PROVE  IInv'
<1>1. Types'
  BY CallsType DEF IInv
<1>2. ASSUME NEW t, Calls(w, t), Starts(t) PROVE IInv'
  <2>1. tx' \in [Workers -> Tx] /\ tx \in [Workers -> Tx]
    BY <1>1 DEF Types, IInv
  <2>2. t \in Tx
    BY <1>2, <2>1 DEF Calls, Becomes
  <2>3. tx[w].pc # "minted"
    BY <1>2 DEF Calls, Idle
  <2> QED BY <1>1, <1>2, <2>2, <2>3, StartInv DEF Calls
<1>3. ASSUME NEW u \in People, Bootstrap(w, u) PROVE IInv'
  <2>1. Starts([Idle EXCEPT !.op = "bootstrap", !.pc = "creating", !.user = u])
    BY DEF Starts, Idle, OwnPhase, OwnAccount, Consuming
  <2> QED BY <1>2, <1>3, <2>1 DEF Bootstrap
<1>4. ASSUME NEW u \in People, ResendLink(w, u) PROVE IInv'
  <2>1. Starts([Idle EXCEPT !.op = "resend", !.pc = "placed", !.user = u, !.purpose = PurposeOf(u)])
    BY <1>4 DEF ResendLink, Starts, Idle, OwnPhase, OwnAccount, Consuming
  <2> QED BY <1>2, <1>4, <2>1 DEF ResendLink
<1>5. ASSUME NEW u \in People, RequestLink(w, u) PROVE IInv'
  <2>1. Starts([Idle EXCEPT !.op = "request", !.pc = "placed", !.user = u, !.purpose = "reset-password"])
    BY <1>5 DEF RequestLink, Starts, Idle, OwnPhase, OwnAccount, Consuming
  <2> QED BY <1>2, <1>5, <2>1 DEF RequestLink
<1>6. ASSUME NEW u \in People, SignIn(w, u) PROVE IInv'
  <2>1. Registered(u)
    BY <1>6 DEF SignIn, Registered, Nobody
  <2>2. Starts([Idle EXCEPT !.op = "signIn", !.pc = "verified", !.user = u, !.cred = users[u].cred])
    BY <2>1 DEF Starts, Idle, OwnPhase, OwnAccount, Consuming
  <2> QED BY <1>2, <1>6, <2>2 DEF SignIn
<1>7. ASSUME NEW u \in People, NEW r \in {"editor", "superadmin"}, InviteUser(w, u, r) PROVE IInv'
  <2>1. Starts([Idle EXCEPT !.op = "invite", !.pc = "placing", !.user = u, !.role = r])
    BY DEF Starts, Idle, OwnPhase, OwnAccount, Consuming
  <2> QED BY <1>2, <1>7, <2>1 DEF InviteUser
<1>8. ASSUME NEW l \in links, CompleteSetPassword(w, l) PROVE IInv'
  <2>1. l.user \in People /\ Registered(l.user) /\ l.id <= last /\ \A m \in links : m.id = l.id => m = l
    BY DEF IInv, Types, Links, LinksHeld
  <2>2. Starts([Idle EXCEPT !.op = "complete", !.pc = "presented", !.user = l.user, !.id = l.id])
    BY <2>1 DEF Starts, Idle, OwnPhase, OwnAccount, Consuming, PresentedBy
  <2> QED BY <1>2, <1>8, <2>2 DEF CompleteSetPassword
<1>9. ASSUME NEW s \in sessions, NEW u \in People, StartImpersonation(w, s, u) PROVE IInv'
  <2>1. s.user \in People /\ Registered(s.user)
    BY DEF IInv, Types, Sessions, SessionsHeld
  <2>2. Starts([Idle EXCEPT !.op = "impersonate", !.pc = "allowed", !.user = u, !.by = s.user, !.id = s.id,
                            !.cred = s.cred])
    BY <1>9, <2>1 DEF StartImpersonation, Forbidden, Starts, Idle, OwnPhase, OwnAccount, Consuming
  <2> QED BY <1>2, <1>9, <2>2 DEF StartImpersonation
<1> QED BY <1>3, <1>4, <1>5, <1>6, <1>7, <1>8, <1>9 DEF Called

\* The steps of a call that neither commit nor change a session.
Works(w) ==
  \/ Place(w) \/ CreateUserWithRole(w) \/ IssueToken(w) \/ ConsumeToken(w) \/ LockUser(w)
  \/ EndSessions(w) \/ SweepLinks(w) \/ Abort(w)

LEMMA WorksInv ==
  ASSUME IInv, NEW w \in Workers, Works(w)
  PROVE  IInv'
<1> DEFINE t0 == tx[w]
<1>0. t0 \in Tx /\ Own(t0) /\ \A v \in Workers \ {w} : Apart(tx[v], t0)
  BY DEF IInv, Types, Workings
<1>1. Types'
  BY <1>0, RunsType DEF IInv, Works, Runs
<1>2. ASSUME NEW t, Steps(w, t) PROVE
        t \in Tx /\ Becomes(w, t) /\ UNCHANGED <<users, links, sessions, last>>
  <2>1. tx' \in [Workers -> Tx] /\ tx \in [Workers -> Tx]
    BY <1>1 DEF Types, IInv
  <2> QED BY <1>2, <2>1 DEF Steps, Becomes
<1>3. ASSUME NEW t, Steps(w, t), Starts(t), t0.pc # "minted" PROVE IInv'
  BY <1>1, <1>2, <1>3, StartInv
<1>4. ASSUME NEW t, Steps(w, t), t0.pc # "minted", t.pc # "minted", Own(t),
             \A v \in Workers \ {w} : Apart(tx[v], t)
      PROVE  IInv'
  BY <1>1, <1>2, <1>4, StepInv
<1>5. Starts(Idle)
  BY DEF Starts, Idle, OwnPhase, OwnAccount, Consuming
<1>6. ASSUME t0.op = "invite", t0.pc \in {"placing", "creating"}, Registered(t0.user)
      PROVE  Starts(Existing(w))
  <2>1. Existing(w) = [t0 EXCEPT !.pc = "placed", !.purpose = PurposeOf(t0.user)]
    BY DEF Existing
  <2> QED BY <1>0, <1>6, <2>1 DEF Tx, Starts, Own, OwnPhase, OwnAccount, Consuming
<1>7. CASE Place(w)
  <2>1. t0.op = "invite" /\ t0.pc = "placing"
    BY <1>7 DEF Place, At
  <2>2. Starts([t0 EXCEPT !.pc = "creating"])
    BY <1>0, <2>1 DEF Tx, Starts, Own, OwnPhase, OwnAccount, Consuming
  <2> QED BY <1>3, <1>6, <1>7, <2>1, <2>2 DEF Place
<1>8. CASE CreateUserWithRole(w)
  <2> DEFINE created == [t0 EXCEPT !.pc = "placed", !.new = TRUE, !.first = Empty,
                                   !.role = IF Empty THEN "superadmin" ELSE @]
  <2>1. t0.pc = "creating" /\ t0.op \in {"bootstrap", "invite"}
    BY <1>0, <1>8 DEF CreateUserWithRole, Own, OwnPhase
  <2>2. ASSUME ~Registered(t0.user) PROVE Own(created)
    <3>1. OwnPhase(created)
      BY <1>0, <2>1 DEF Tx, Own, OwnPhase, Consuming
    <3>2. Empty \in BOOLEAN
      BY DEF Empty
    <3>3. OwnAccount(created)
      BY <1>0, <2>1, <2>2, <3>2 DEF Tx, OwnAccount
    <3>4. OwnLinks(created) /\ OwnSessions(created)
      BY <1>0, <2>1 DEF Tx, OwnLinks, OwnSessions, Consuming
    <3> QED BY <3>1, <3>3, <3>4 DEF Own
  <2>3. \A v \in Workers \ {w} : Apart(tx[v], created)
    <3>1. created.sweep = {} /\ created.pc = "placed"
      BY <1>0, <2>1 DEF Tx, Own, OwnPhase
    <3>2. TakenBy(created) = {}
      BY <3>1 DEF TakenBy, Consuming
    <3>3. \A v \in Workers \ {w} : ~tx[v].new
      BY <1>8 DEF CreateUserWithRole, FirstFree
    <3> HIDE DEF created
    <3> QED BY <3>1, <3>2, <3>3 DEF Apart
  <2>4. Empty => ~Registered(t0.user)
    BY <1>0, <2>1 DEF Own, OwnPhase, Empty
  <2> DEFINE next == CASE t0.op = "bootstrap" -> IF Empty THEN created ELSE Idle
                       [] t0.op = "invite" /\ Registered(t0.user) -> Existing(w)
                       [] OTHER -> created
  <2>5. Steps(w, next)
    BY <1>8 DEF CreateUserWithRole
  <2>6. created.pc # "minted"
    BY <1>0 DEF Tx
  <2> HIDE DEF created
  <2>7. ASSUME Steps(w, created), ~Registered(t0.user) PROVE IInv'
    BY <1>4, <2>1, <2>2, <2>3, <2>6, <2>7
  <2>8. CASE t0.op = "bootstrap" /\ ~Empty
    <3>1. next = Idle
      BY <2>8
    <3> QED BY <1>3, <1>5, <2>1, <2>5, <3>1
  <2>9. CASE t0.op = "bootstrap" /\ Empty
    <3>1. next = created
      BY <2>9
    <3> QED BY <2>4, <2>5, <2>7, <2>9, <3>1
  <2>10. CASE t0.op = "invite" /\ Registered(t0.user)
    <3>1. next = Existing(w)
      BY <2>10
    <3> QED BY <1>3, <1>6, <2>1, <2>5, <2>10, <3>1
  <2>11. CASE t0.op = "invite" /\ ~Registered(t0.user)
    <3>1. next = created
      BY <2>11
    <3> QED BY <2>5, <2>7, <2>11, <3>1
  <2> QED BY <2>1, <2>8, <2>9, <2>10, <2>11
<1>9. CASE IssueToken(w)
  <2> DEFINE t == [t0 EXCEPT !.pc = "replacing", !.sweep = Earlier(w)]
  <2>0. /\ t.op = t0.op /\ t.pc = "replacing" /\ t.sweep = Earlier(w) /\ t.ends = t0.ends /\ t.user = t0.user
        /\ t.purpose = t0.purpose /\ t.new = t0.new /\ t.first = t0.first /\ t.role = t0.role /\ t.id = t0.id
    BY <1>0 DEF Tx
  <2>1. /\ t0.op \in {"invite", "resend", "request"} /\ t0.pc = "placed" /\ Steps(w, t)
        /\ IssueFree(w) /\ TokensFree(w, Earlier(w))
    BY <1>9 DEF IssueToken
  <2> HIDE DEF t
  <2>2. EarlierOf(t) = Earlier(w) /\ TakenBy(t) = Earlier(w)
    BY <2>0 DEF EarlierOf, Earlier, TakenBy, Consuming
  <2>3. Own(t)
    <3>1. OwnPhase(t) /\ OwnAccount(t)
      BY <1>0, <2>0, <2>1 DEF Own, OwnPhase, OwnAccount, Consuming
    <3>2. OwnLinks(t) /\ OwnSessions(t)
      BY <2>0, <2>1, <2>2 DEF OwnLinks, OwnSessions, Consuming, EarlierOf
    <3> QED BY <3>1, <3>2 DEF Own
  <2>4. \A v \in Workers \ {w} : Apart(tx[v], t)
    <3> TAKE v \in Workers \ {w}
    <3>1. TakenBy(tx[v]) \cap TakenBy(t) = {}
      BY <2>1, <2>2 DEF TokensFree, Taken, TakenBy, PresentedBy, Consuming
    <3> QED BY <1>0, <2>0, <2>1, <3>1 DEF Apart, IssueFree
  <2> QED BY <1>4, <2>0, <2>1, <2>3, <2>4
<1>10. CASE ConsumeToken(w)
  <2> DEFINE t == [t0 EXCEPT !.pc = "taken"]
  <2>0. /\ t.op = t0.op /\ t.pc = "taken" /\ t.sweep = t0.sweep /\ t.ends = t0.ends /\ t.user = t0.user
        /\ t.new = t0.new /\ t.id = t0.id
    BY <1>0 DEF Tx
  <2>1. t0.op = "complete" /\ t0.pc = "presented" /\ TokensFree(w, Presented(w))
    BY <1>10 DEF ConsumeToken, At
  <2>2. CASE Presented(w) = {}
    <3>1. Steps(w, Idle)
      BY <1>10, <2>2 DEF ConsumeToken
    <3> QED BY <1>3, <1>5, <2>1, <3>1
  <2>3. CASE Presented(w) # {}
    <3>1. Steps(w, t)
      BY <1>10, <2>3 DEF ConsumeToken
    <3> HIDE DEF t
    <3>2. PresentedBy(t) = Presented(w) /\ PresentedBy(t) = PresentedBy(t0) /\ t.sweep = {}
      BY <1>0, <2>0, <2>1 DEF PresentedBy, Presented, Own, OwnPhase
    <3>3. Own(t)
      <4>1. OwnPhase(t) /\ OwnAccount(t)
        BY <1>0, <2>0, <2>1 DEF Own, OwnPhase, OwnAccount, Consuming
      <4>2. OwnLinks(t) /\ OwnSessions(t)
        BY <1>0, <2>0, <2>1, <2>3, <3>2 DEF Own, OwnLinks, OwnSessions, Consuming
      <4> QED BY <4>1, <4>2 DEF Own
    <3>4. \A v \in Workers \ {w} : Apart(tx[v], t)
      <4> TAKE v \in Workers \ {w}
      <4>1. TakenBy(tx[v]) \cap TakenBy(t) = {}
        BY <2>0, <2>1, <3>2 DEF TokensFree, Taken, TakenBy, PresentedBy, Consuming
      <4> QED BY <1>0, <2>0, <2>1, <4>1 DEF Apart
    <3> QED BY <1>4, <2>0, <2>1, <3>1, <3>3, <3>4
  <2> QED BY <2>2, <2>3
<1>11. CASE LockUser(w)
  <2> DEFINE t == [t0 EXCEPT !.pc = "locked"]
  <2>0. /\ t.op = t0.op /\ t.pc = "locked" /\ t.sweep = t0.sweep /\ t.ends = t0.ends /\ t.user = t0.user
        /\ t.new = t0.new /\ t.id = t0.id
    BY <1>0 DEF Tx
  <2>1. t0.op = "complete" /\ t0.pc = "taken" /\ Steps(w, t)
    BY <1>11 DEF LockUser, At
  <2> HIDE DEF t
  <2>2. PresentedBy(t) = PresentedBy(t0) /\ TakenBy(t) = TakenBy(t0)
    BY <2>0, <2>1 DEF PresentedBy, TakenBy, Consuming
  <2>3. Own(t)
    <3>1. OwnPhase(t) /\ OwnAccount(t)
      BY <1>0, <2>0, <2>1 DEF Own, OwnPhase, OwnAccount, Consuming
    <3>2. OwnLinks(t) /\ OwnSessions(t)
      BY <1>0, <2>0, <2>1, <2>2 DEF Own, OwnLinks, OwnSessions, Consuming
    <3> QED BY <3>1, <3>2 DEF Own
  <2>4. \A v \in Workers \ {w} : Apart(tx[v], t)
    BY <1>0, <2>0, <2>1, <2>2 DEF Apart
  <2> QED BY <1>4, <2>0, <2>1, <2>3, <2>4
<1>12. CASE EndSessions(w)
  <2> DEFINE t == [t0 EXCEPT !.pc = "ended", !.ends = SessionsOf(t0.user)]
  <2>0. /\ t.op = t0.op /\ t.pc = "ended" /\ t.sweep = t0.sweep /\ t.ends = SessionsOf(t0.user)
        /\ t.user = t0.user /\ t.new = t0.new /\ t.id = t0.id
    BY <1>0 DEF Tx
  <2>1. t0.op = "complete" /\ t0.pc = "locked" /\ Steps(w, t)
    BY <1>12 DEF EndSessions, At
  <2> HIDE DEF t
  <2>2. PresentedBy(t) = PresentedBy(t0) /\ TakenBy(t) = TakenBy(t0)
    BY <2>0, <2>1 DEF PresentedBy, TakenBy, Consuming
  <2>3. Own(t)
    <3>1. OwnPhase(t) /\ OwnAccount(t)
      BY <1>0, <2>0, <2>1 DEF Own, OwnPhase, OwnAccount, Consuming
    <3>2. OwnLinks(t) /\ OwnSessions(t)
      BY <1>0, <2>0, <2>1, <2>2 DEF Own, OwnLinks, OwnSessions, Consuming
    <3> QED BY <3>1, <3>2 DEF Own
  <2>4. \A v \in Workers \ {w} : Apart(tx[v], t)
    BY <1>0, <2>0, <2>1, <2>2 DEF Apart
  <2> QED BY <1>4, <2>0, <2>1, <2>3, <2>4
<1>13. CASE SweepLinks(w)
  <2> DEFINE t == [t0 EXCEPT !.pc = "swept", !.sweep = OtherLinks(w)]
  <2>0. /\ t.op = t0.op /\ t.pc = "swept" /\ t.sweep = OtherLinks(w) /\ t.ends = t0.ends
        /\ t.user = t0.user /\ t.new = t0.new /\ t.id = t0.id
    BY <1>0 DEF Tx
  <2>1. t0.op = "complete" /\ t0.pc = "ended" /\ TokensFree(w, OtherLinks(w)) /\ Steps(w, t)
    BY <1>13 DEF SweepLinks, At
  <2> HIDE DEF t
  <2>2. /\ PresentedBy(t) = PresentedBy(t0) /\ OthersOf(t) = OtherLinks(w)
        /\ TakenBy(t) = OtherLinks(w) \cup PresentedBy(t0) /\ TakenBy(t0) = PresentedBy(t0)
    BY <1>0, <2>0, <2>1 DEF PresentedBy, OthersOf, OtherLinks, TakenBy, Consuming, Own, OwnPhase
  <2>3. Own(t)
    <3>1. OwnPhase(t) /\ OwnAccount(t)
      BY <1>0, <2>0, <2>1 DEF Own, OwnPhase, OwnAccount, Consuming
    <3>2. OwnLinks(t) /\ OwnSessions(t)
      BY <1>0, <2>0, <2>1, <2>2 DEF Own, OwnLinks, OwnSessions, OthersOf, Consuming
    <3> QED BY <3>1, <3>2 DEF Own
  <2>4. \A v \in Workers \ {w} : Apart(tx[v], t)
    <3> TAKE v \in Workers \ {w}
    <3>1. TakenBy(tx[v]) \cap OtherLinks(w) = {}
      BY <2>1 DEF TokensFree, Taken, TakenBy, PresentedBy, Consuming
    <3> QED BY <1>0, <2>0, <2>1, <2>2, <3>1 DEF Apart
  <2> QED BY <1>4, <2>0, <2>1, <2>3, <2>4
<1>14. CASE Abort(w)
  BY <1>3, <1>5, <1>14 DEF Abort
<1> QED BY <1>7, <1>8, <1>9, <1>10, <1>11, <1>12, <1>13, <1>14 DEF Works

-----------------------------------------------------------------------------
(* What a commit makes visible.                                            *)

\* A worker that is done holds nothing.
LEMMA DoneWorkings ==
  ASSUME Types, NEW w \in Workers, Ends(w),
         \A v \in Workers \ {w} : Own(tx[v])',
         \A u, v \in Workers \ {w} : u # v => Apart(tx[u], tx[v])'
  PROVE  Workings'
<1>1. tx'[w] = Idle
  BY IdleType, BecomesType DEF Ends
<1>2. Own(tx[w])'
  BY <1>1 DEF Own, OwnPhase, OwnAccount, OwnLinks, OwnSessions, Idle, Consuming
<1>3. \A v \in Workers \ {w} : Apart(tx[v], tx[w])' /\ Apart(tx[w], tx[v])'
  BY <1>1 DEF Apart, TakenBy, Idle, Consuming
<1> QED BY <1>2, <1>3 DEF Workings

\* The commit of a call that creates an account changes no other account.
LEMMA CreatedUsers ==
  ASSUME IInv, NEW w \in Workers, tx[w].pc \in {"placed", "replacing"}, users' = UsersWith(w), Ends(w), Types'
  PROVE  /\ tx[w].user \in People /\ users'[tx[w].user] # Nobody
         /\ \A u \in People : Registered(u) \/ u # tx[w].user => users'[u] = users[u]
         /\ tx[w].new => ~Registered(tx[w].user)
         /\ Accounted' /\ OneFirst'
         /\ \A v \in Workers \ {w} : OwnPhase(tx[v])' /\ OwnAccount(tx[v])'
<1> DEFINE t == tx[w]
<1>0. /\ Own(t) /\ t \in Tx /\ t.user \in People
      /\ \A v \in Workers \ {w} : Own(tx[v]) /\ ~(t.new /\ tx[v].new) /\ tx'[v] = tx[v]
  <2>1. Own(t) /\ t \in Tx
    BY DEF IInv, Workings, Types
  <2>2. \A v \in Workers \ {w} : Own(tx[v]) /\ ~(t.new /\ tx[v].new) /\ tx'[v] = tx[v]
    BY IdleType, BecomesType DEF IInv, Workings, Apart, Ends
  <2> QED BY <2>1, <2>2 DEF Own, OwnPhase
<1> HIDE DEF t
<1>1. CASE ~t.new
  <2>1. users' = users /\ users'[t.user] # Nobody
    BY <1>0, <1>1 DEF t, UsersWith, Own, OwnAccount, Registered
  <2>2. Empty' = Empty /\ \A u : Registered(u)' = Registered(u)
    BY <2>1 DEF Empty, Registered
  <2>3. \A v \in Workers \ {w} : OwnPhase(tx[v])' /\ OwnAccount(tx[v])'
    BY <1>0, <2>1, <2>2 DEF Own, OwnPhase, OwnAccount
  <2>4. Accounted' /\ OneFirst'
    BY <2>1, <2>2 DEF IInv, Accounted, OneFirst
  <2> QED BY <1>0, <1>1, <2>1, <2>2, <2>3, <2>4 DEF t
<1>2. CASE t.new
  <2> DEFINE it == [role |-> t.role, cred |-> IF t.op = "bootstrap" THEN 1 ELSE 0, first |-> t.first]
  <2>1. /\ users' = [users EXCEPT ![t.user] = it] /\ users \in [People -> Users]
        /\ it.role = t.role /\ it.first = t.first /\ t.role \in {"editor", "superadmin"}
    BY <1>0, <1>2 DEF t, UsersWith, Placed, IInv, Types, Tx
  <2>2. ~Registered(t.user) /\ t.first = Empty /\ (t.first => t.role = "superadmin")
    BY <1>0, <1>2 DEF Own, OwnAccount
  <2> HIDE DEF it
  <2>3. users'[t.user] = it /\ it # Nobody /\ \A u \in People : u # t.user => users'[u] = users[u]
    BY <1>0, <2>1 DEF Nobody
  <2>4. \A u \in People : Registered(u) => users'[u] = users[u] /\ Registered(u)'
    BY <2>2, <2>3 DEF Registered
  <2>5. users'[t.user] # Nobody
    BY <2>3
  <2>6. Accounted'
    BY <1>0, <2>1, <2>3 DEF Accounted, IInv
  <2>7. OneFirst'
    <3>1. CASE Empty
      <4>1. \A u \in People : u # t.user => ~users'[u].first
        BY <2>3, <3>1 DEF Empty, Registered, Nobody
      <4>2. users'[t.user].role = "superadmin" /\ users'[t.user].first
        BY <2>1, <2>2, <2>3, <3>1
      <4>3. {p \in People : users'[p].first} = {t.user}
        BY <1>0, <4>1, <4>2
      <4> QED BY <1>0, <4>2, <4>3 DEF OneFirst
    <3>2. CASE ~Empty
      <4>1. PICK u \in People : users[u].role = "superadmin" /\ {p \in People : users[p].first} = {u}
        BY <3>2 DEF IInv, OneFirst
      <4>2. u # t.user
        BY <2>2, <4>1 DEF Registered, Nobody
      <4>3. users'[t.user].first = FALSE
        BY <1>0, <2>1, <2>2, <2>3, <3>2 DEF Tx
      <4>4. \A p \in People : users'[p].first = users[p].first
        <5>1. users[t.user].first = FALSE
          BY <2>2 DEF Registered, Nobody
        <5> QED BY <2>3, <4>3, <5>1
      <4>5. {p \in People : users'[p].first} = {u} /\ users'[u].role = "superadmin"
        BY <2>3, <4>1, <4>2, <4>4
      <4> QED BY <4>5 DEF OneFirst
    <3> QED BY <3>1, <3>2
  <2>8. \A v \in Workers \ {w} : OwnPhase(tx[v])' /\ OwnAccount(tx[v])'
    <3> TAKE v \in Workers \ {w}
    <3>1. ~tx[v].new /\ Own(tx[v]) /\ tx'[v] = tx[v]
      BY <1>0, <1>2
    <3> QED BY <2>4, <3>1 DEF Own, OwnPhase, OwnAccount
  <2> QED BY <1>0, <2>2, <2>3, <2>4, <2>5, <2>6, <2>7, <2>8 DEF t
<1> QED BY <1>1, <1>2

LEMMA BootstrapInv ==
  ASSUME IInv, NEW w \in Workers, CommitBootstrap(w), Types'
  PROVE  IInv'
<1>1. tx[w].pc = "placed" /\ users' = UsersWith(w) /\ Ends(w) /\ UNCHANGED <<links, sessions, last>>
  BY DEF CommitBootstrap, At
<1>2. /\ \A u \in People : Registered(u) => users'[u] = users[u]
      /\ Accounted' /\ OneFirst' /\ \A v \in Workers \ {w} : OwnPhase(tx[v])' /\ OwnAccount(tx[v])'
  BY <1>1, CreatedUsers
<1>3. tx'[w] = Idle /\ \A v \in Workers \ {w} : tx'[v] = tx[v]
  BY <1>1, IdleType, BecomesType DEF Ends, IInv
<1>4. Workings'
  <2>1. \A v \in Workers \ {w} : OwnLinks(tx[v])' /\ OwnSessions(tx[v])'
    BY <1>1, <1>3 DEF IInv, Workings, Own, OwnLinks, OwnSessions, PresentedBy, EarlierOf, OthersOf, SessionsOf
  <2>2. \A u, v \in Workers \ {w} : u # v => Apart(tx[u], tx[v])'
    BY <1>1, <1>3 DEF IInv, Workings, Apart, TakenBy, PresentedBy
  <2> QED BY <1>1, <1>2, <2>1, <2>2, DoneWorkings DEF IInv, Own
<1>5. LinksHeld' /\ LinksCurrent'
  <2>1. \A l \in links : l.user \in People /\ Registered(l.user)
    BY DEF IInv, Types, Links, LinksHeld
  <2>2. \A l \in links : users'[l.user] = users[l.user]
    BY <1>2, <2>1
  <2> QED BY <1>1, <2>2 DEF IInv, LinksHeld, LinksCurrent, Registered
<1>6. SessionsHeld' /\ SessionsCurrent' /\ ImpersonationsAllowed'
  <2>1. \A s \in sessions : /\ s.user \in People /\ Registered(s.user)
                            /\ s.by # NoOne => s.by \in People /\ Registered(s.by)
    BY DEF IInv, Types, Sessions, SessionsHeld
  <2>2. \A s \in sessions : users'[s.user] = users[s.user] /\ (s.by # NoOne => users'[s.by] = users[s.by])
    BY <1>2, <2>1
  <2>3. SessionsHeld' /\ SessionsCurrent'
    BY <1>1, <2>2 DEF IInv, SessionsHeld, SessionsCurrent, Registered
  <2>4. \A v \in Workers : At(v, "impersonate", "minted")' = At(v, "impersonate", "minted")
    BY <1>1, <1>3 DEF At, Idle
  <2>5. ImpersonationsAllowed'
    <3>1. \A s \in sessions : (\E v \in Workers : At(v, "impersonate", "minted")' /\ tx'[v].id = s.id)
                                <=> (\E v \in Workers : At(v, "impersonate", "minted") /\ tx[v].id = s.id)
      BY <1>1, <1>3 DEF At, Idle
    <3> QED BY <1>1, <2>2, <3>1 DEF IInv, ImpersonationsAllowed
  <2> QED BY <2>3, <2>5
<1> QED BY <1>2, <1>4, <1>5, <1>6 DEF IInv

LEMMA IssueInv ==
  ASSUME IInv, NEW w \in Workers, CommitIssue(w), Types'
  PROVE  IInv'
<1> DEFINE t == tx[w]
           n == [id |-> last + 1, user |-> t.user, purpose |-> t.purpose, cred |-> UsersWith(w)[t.user].cred,
                 slipped |-> PastEnding(t.user)]
<1>1. /\ t.pc = "replacing" /\ users' = UsersWith(w) /\ Ends(w) /\ UNCHANGED sessions /\ last' = last + 1
      /\ links' = (links \ t.sweep) \cup {n}
  BY DEF CommitIssue
<1>2. /\ t.user \in People /\ users'[t.user] # Nobody
      /\ \A u \in People : Registered(u) => users'[u] = users[u]
      /\ Accounted' /\ OneFirst' /\ \A v \in Workers \ {w} : OwnPhase(tx[v])' /\ OwnAccount(tx[v])'
  BY <1>1, CreatedUsers
<1>3. tx'[w] = Idle /\ \A v \in Workers \ {w} : tx'[v] = tx[v]
  BY <1>1, IdleType, BecomesType DEF Ends, IInv
<1>4. last \in Nat /\ links \subseteq Links /\ Own(t)
      /\ \A v \in Workers \ {w} : Own(tx[v]) /\ Apart(tx[v], t)
  BY DEF IInv, Types, Workings
<1>5. n.id = last' /\ n.user = t.user /\ n.purpose = t.purpose /\ n.cred = users'[n.user].cred
      /\ n.slipped = PastEnding(t.user)
  BY <1>1
<1>6. \A l \in links : l.id <= last /\ l.id \in Nat /\ l.user \in People /\ Registered(l.user)
  BY <1>4 DEF IInv, LinksHeld, Links
<1> HIDE DEF n, t
<1>7. Workings'
  <2>1. ASSUME NEW v \in Workers \ {w} PROVE OwnLinks(tx[v])' /\ OwnSessions(tx[v])'
    <3> DEFINE r == tx[v]
    <3>0. tx'[v] = r /\ Own(r) /\ Apart(r, t) /\ r \in Tx
      BY <1>3, <1>4 DEF IInv, Types
    <3>1. t.sweep \subseteq TakenBy(t)
      BY DEF TakenBy
    <3>2. r.op = "complete" => PresentedBy(r)' = PresentedBy(r) \ t.sweep
      BY <1>1, <1>4, <1>5, <3>0 DEF PresentedBy, Own, OwnLinks, Tx
    <3>3. r.pc \in Consuming => PresentedBy(r)' = PresentedBy(r)
      BY <3>0, <3>1, <3>2 DEF Apart, TakenBy, Own, OwnPhase
    <3>4. r.pc = "swept" => r.op = "complete" /\ \A l \in OthersOf(r)' : l \in r.sweep \/ l.slipped
      <4>1. r.pc = "swept" /\ r.user = t.user => PastEnding(t.user)
        BY <3>0 DEF PastEnding, Setting, Own, OwnPhase, Consuming
      <4> QED BY <1>1, <1>5, <3>0, <4>1 DEF Own, OwnPhase, OwnLinks, OthersOf, Consuming
    <3>5. r.pc = "replacing" => EarlierOf(r)' \subseteq r.sweep
      BY <1>1, <1>5, <3>0 DEF Own, OwnLinks, Apart, EarlierOf
    <3>6. OwnLinks(tx[v])'
      <4>1. r.op = "complete" => r.id <= last' /\ \A l \in PresentedBy(r)' : l.user = r.user
        BY <1>1, <1>4, <3>0, <3>2 DEF Own, OwnLinks, Tx
      <4>2. r.pc \in Consuming => PresentedBy(r)' # {}
        BY <3>0, <3>3 DEF Own, OwnLinks
      <4>3. /\ r.pc = "replacing" => \A l \in r.sweep : l.user = r.user /\ l.purpose = r.purpose
            /\ r.pc = "swept" => \A l \in r.sweep : l.user = r.user
        BY <3>0 DEF Own, OwnLinks
      <4> QED BY <3>0, <3>4, <3>5, <4>1, <4>2, <4>3 DEF OwnLinks
    <3>7. OwnSessions(tx[v])'
      BY <1>1, <1>4, <3>0 DEF Own, OwnSessions, SessionsOf, Tx
    <3> QED BY <3>6, <3>7
  <2>2. ASSUME NEW u \in Workers \ {w}, NEW v \in Workers \ {w}, u # v PROVE Apart(tx[u], tx[v])'
    <3>1. Apart(tx[u], tx[v]) /\ tx[u] \in Tx /\ tx[v] \in Tx
      BY <2>2 DEF IInv, Types, Workings
    <3>2. \A x \in {u, v} : TakenBy(tx[x])' \subseteq TakenBy(tx[x])
      BY <1>1, <1>3, <1>4, <1>5, <3>1 DEF TakenBy, PresentedBy, Own, OwnPhase, OwnLinks, Tx
    <3> QED BY <1>3, <3>1, <3>2 DEF Apart
  <2> QED BY <1>1, <1>2, <2>1, <2>2, DoneWorkings DEF IInv, Own
<1>8. LinksHeld'
  <2>1. \A l \in links' : l.id <= last' /\ users'[l.user] # Nobody
    BY <1>1, <1>2, <1>4, <1>5, <1>6 DEF Registered
  <2>2. \A l, m \in links' : l.id = m.id => l = m
    BY <1>1, <1>4, <1>5, <1>6 DEF IInv, LinksHeld
  <2> QED BY <2>1, <2>2 DEF LinksHeld, Registered
<1>9. LinksCurrent'
  <2>1. \A l \in links \ t.sweep : l.user # n.user \/ l.purpose # n.purpose
    BY <1>1, <1>4, <1>5 DEF Own, OwnLinks, EarlierOf
  <2>2. \A l, m \in links' : l.user = m.user /\ l.purpose = m.purpose => l = m
    BY <1>1, <2>1 DEF IInv, LinksCurrent
  <2>3. \A l \in links' : ~l.slipped => l.cred = users'[l.user].cred
    BY <1>1, <1>2, <1>5, <1>6 DEF IInv, LinksCurrent
  <2> QED BY <2>2, <2>3 DEF LinksCurrent
<1>10. SessionsHeld' /\ SessionsCurrent' /\ ImpersonationsAllowed'
  <2>1. \A s \in sessions : /\ s.user \in People /\ Registered(s.user)
                            /\ s.by # NoOne => s.by \in People /\ Registered(s.by)
                            /\ s.id <= last /\ s.id \in Nat
    BY DEF IInv, Types, Sessions, SessionsHeld
  <2>2. \A s \in sessions : users'[s.user] = users[s.user] /\ (s.by # NoOne => users'[s.by] = users[s.by])
    BY <1>2, <2>1
  <2>3. SessionsHeld' /\ SessionsCurrent'
    BY <1>1, <1>4, <2>1, <2>2 DEF IInv, SessionsHeld, SessionsCurrent, Registered
  <2>4. ImpersonationsAllowed'
    <3>1. \A s \in sessions : (\E v \in Workers : At(v, "impersonate", "minted")' /\ tx'[v].id = s.id)
                                <=> (\E v \in Workers : At(v, "impersonate", "minted") /\ tx[v].id = s.id)
      BY <1>1, <1>3 DEF At, Idle, t
    <3> QED BY <1>1, <2>2, <3>1 DEF IInv, ImpersonationsAllowed
  <2> QED BY <2>3, <2>4
<1> QED BY <1>2, <1>7, <1>8, <1>9, <1>10 DEF IInv

LEMMA PasswordInv ==
  ASSUME IInv, NEW w \in Workers, CommitPassword(w), Types'
  PROVE  IInv'
<1> DEFINE t == tx[w]
           gone == t.sweep \cup PresentedBy(t)
<1>1. /\ t.op = "complete" /\ t.pc = "swept" /\ users' = [users EXCEPT ![t.user].cred = @ + 1]
      /\ Ends(w) /\ links' = links \ gone /\ sessions' = sessions \ t.ends /\ UNCHANGED last
  BY DEF CommitPassword, At, Presented, PresentedBy
<1>2. tx'[w] = Idle /\ \A v \in Workers \ {w} : tx'[v] = tx[v]
  BY <1>1, IdleType, BecomesType DEF Ends, IInv
<1>3. /\ last \in Nat /\ users \in [People -> Users] /\ Own(t) /\ t \in Tx
      /\ \A v \in Workers \ {w} : Own(tx[v]) /\ Apart(tx[v], t)
  BY DEF IInv, Types, Workings
<1>4. t.user \in People /\ Registered(t.user)
  BY <1>1, <1>3 DEF Own, OwnPhase, OwnAccount
<1>5. TakenBy(t) = gone
  BY <1>1 DEF TakenBy, Consuming
<1> HIDE DEF t, gone
<1>6. \A u \in People : /\ users'[u].role = users[u].role /\ users'[u].first = users[u].first
                        /\ u # t.user => users'[u] = users[u]
  BY <1>1, <1>3 DEF Users
<1>7. Accounted' /\ \A u \in People : (users'[u] = Nobody) <=> (users[u] = Nobody)
  <2>1. users[t.user].role # "none"
    BY <1>4 DEF IInv, Accounted, Registered
  <2>2. \A u \in People : (users'[u] = Nobody) <=> (users[u] = Nobody)
    BY <1>4, <1>6, <2>1 DEF Nobody
  <2> QED BY <1>6, <2>1, <2>2 DEF IInv, Accounted
<1>8. Empty' = Empty /\ \A u \in People : Registered(u)' = Registered(u)
  BY <1>7 DEF Empty, Registered
<1>9. OneFirst'
  BY <1>6, <1>8 DEF IInv, OneFirst
<1>10. Workings'
  <2>1. ASSUME NEW v \in Workers \ {w} PROVE Own(tx[v])'
    <3> DEFINE r == tx[v]
    <3>0. tx'[v] = r /\ Own(r) /\ Apart(r, t)
      BY <1>2, <1>3
    <3> HIDE DEF r
    <3>1. OwnPhase(tx[v])'
      BY <3>0 DEF Own, OwnPhase
    <3>2. OwnAccount(tx[v])'
      <4>1. r.pc \in {"placed", "replacing"} \/ r.op \in {"complete", "signIn", "impersonate", "resend", "request"}
              => r.user \in People
        BY <3>0 DEF Own, OwnPhase
      <4> QED BY <1>6, <1>8, <3>0, <4>1 DEF Own, OwnAccount, OwnPhase, Registered
    <3>3. r.pc \in Consuming => PresentedBy(r)' = PresentedBy(r)
      BY <1>1, <1>5, <3>0 DEF Apart, TakenBy, PresentedBy, r
    <3>4. OwnLinks(tx[v])'
      <4>1. PresentedBy(tx[v])' \subseteq PresentedBy(r)
        BY <1>1, <3>0 DEF PresentedBy
      <4>2. EarlierOf(tx[v])' \subseteq EarlierOf(r) /\ OthersOf(tx[v])' \subseteq OthersOf(r)
        BY <1>1, <3>0 DEF EarlierOf, OthersOf
      <4>3. r.pc \in Consuming => PresentedBy(tx[v])' # {}
        BY <3>0, <3>3 DEF Own, OwnLinks, r
      <4> QED BY <1>1, <3>0, <4>1, <4>2, <4>3 DEF Own, OwnLinks
    <3>5. OwnSessions(tx[v])'
      BY <1>1, <3>0 DEF Own, OwnSessions, SessionsOf
    <3> QED BY <3>1, <3>2, <3>4, <3>5 DEF Own
  <2>2. ASSUME NEW u \in Workers \ {w}, NEW v \in Workers \ {w}, u # v PROVE Apart(tx[u], tx[v])'
    <3>1. Apart(tx[u], tx[v])
      BY <2>2 DEF IInv, Workings
    <3>2. \A x \in {u, v} : TakenBy(tx[x])' \subseteq TakenBy(tx[x])
      BY <1>1, <1>2 DEF TakenBy, PresentedBy
    <3> QED BY <1>2, <3>1, <3>2 DEF Apart
  <2> QED BY <1>1, <2>1, <2>2, DoneWorkings DEF IInv
<1>11. LinksHeld' /\ LinksCurrent'
  <2>1. \A l \in links : l.user \in People
    BY DEF IInv, Types, Links
  <2>2. LinksHeld'
    BY <1>1, <1>8, <2>1 DEF IInv, LinksHeld
  <2>3. \A l \in links : l.user = t.user => l \in gone \/ l.slipped
    BY <1>1, <1>3 DEF Own, OwnLinks, OthersOf, PresentedBy, gone
  <2> QED BY <1>1, <1>6, <2>1, <2>2, <2>3 DEF IInv, LinksCurrent
<1>12. SessionsHeld' /\ SessionsCurrent'
  <2>1. \A s \in sessions : s.user \in People /\ (s.by # NoOne => s.by \in People)
    BY DEF IInv, Types, Sessions
  <2>2. \A s \in sessions : t.user \in {s.user, s.by} => s \in t.ends \/ s.slipped
    BY <1>1, <1>3 DEF Own, OwnSessions, SessionsOf
  <2>3. SessionsHeld'
    BY <1>1, <1>8, <2>1 DEF IInv, SessionsHeld
  <2> QED BY <1>1, <1>6, <2>1, <2>2, <2>3 DEF IInv, SessionsCurrent
<1>13. ImpersonationsAllowed'
  <2>1. \A s \in sessions : s.user \in People
    BY DEF IInv, Types, Sessions
  <2>2. \A s \in sessions : (\E v \in Workers : At(v, "impersonate", "minted")' /\ tx'[v].id = s.id)
                              <=> (\E v \in Workers : At(v, "impersonate", "minted") /\ tx[v].id = s.id)
    BY <1>1, <1>2 DEF At, Idle, t
  <2> QED BY <1>1, <1>6, <2>1, <2>2 DEF IInv, ImpersonationsAllowed
<1> QED BY <1>7, <1>9, <1>10, <1>11, <1>12, <1>13 DEF IInv

-----------------------------------------------------------------------------
(* Sessions that open and end.                                             *)

\* A step that changes sessions only and leaves every transaction right keeps the rest.
LEMMA SessionStep ==
  ASSUME IInv, Types', UNCHANGED <<users, links>>, last' >= last
  PROVE  /\ Accounted' /\ OneFirst' /\ LinksHeld' /\ LinksCurrent'
         /\ \A r \in Tx : Own(r) => OwnPhase(r)' /\ OwnAccount(r)' /\ OwnLinks(r)'
         /\ \A r, q : Apart(r, q) => Apart(r, q)'
<1>1. last \in Nat /\ last' \in Nat
  BY DEF IInv, Types
<1>2. Empty' = Empty /\ \A u : Registered(u)' = Registered(u)
  BY DEF Empty, Registered
<1>3. Accounted' /\ OneFirst' /\ LinksCurrent'
  BY <1>2 DEF IInv, Accounted, OneFirst, LinksCurrent
<1>4. LinksHeld'
  BY <1>1, <1>2 DEF IInv, LinksHeld, Types, Links
<1>5. ASSUME NEW r \in Tx, Own(r) PROVE OwnPhase(r)' /\ OwnAccount(r)' /\ OwnLinks(r)'
  <2>1. OwnPhase(r)' /\ OwnAccount(r)'
    BY <1>2, <1>5 DEF Own, OwnPhase, OwnAccount
  <2>2. OwnLinks(r)'
    BY <1>1, <1>5 DEF Own, OwnLinks, PresentedBy, EarlierOf, OthersOf, Tx
  <2> QED BY <2>1, <2>2
<1>6. \A r, q : Apart(r, q) => Apart(r, q)'
  BY DEF Apart, TakenBy, PresentedBy
<1> QED BY <1>3, <1>4, <1>5, <1>6

\* A session that opens belongs to an account no completion is past, or is one that slipped.
LEMMA OpenInv ==
  ASSUME IInv, NEW w \in Workers, OpenSession(w) \/ Mint(w), Types'
  PROVE  IInv'
<1> DEFINE t == tx[w]
<1>0. /\ last \in Nat /\ t \in Tx /\ Own(t)
      /\ \A v \in Workers \ {w} : Own(tx[v]) /\ tx[v] \in Tx /\ tx'[v] = tx[v]
      /\ tx'[w] = IF OpenSession(w) THEN Idle ELSE [t EXCEPT !.pc = "minted", !.id = last + 1]
  BY IdleType DEF IInv, Types, Workings, OpenSession, Mint, Ends, Becomes, At
<1>1. PICK n : /\ sessions' = sessions \cup {n} /\ n.id = last + 1 /\ n.user = t.user
               /\ n.by = IF OpenSession(w) THEN NoOne ELSE t.by
               /\ n.row = IF OpenSession(w) THEN "none" ELSE "pending"
               /\ ~n.slipped => /\ n.cred = users[n.user].cred
                                /\ (n.by # NoOne => n.byCred = users[n.by].cred /\ ~PastEnding(n.by))
               /\ last' = last + 1 /\ UNCHANGED <<users, links>> /\ UserFree(t.user)
               /\ Registered(t.user) /\ t.user \in People /\ t.pc \in {"verified", "allowed"}
               /\ n.by # NoOne => /\ Registered(n.by) /\ n.by # n.user /\ users[n.user].role # "superadmin"
  <2>1. CASE OpenSession(w)
    <3>1. t.op = "signIn" /\ t.pc = "verified" /\ UserFree(t.user)
      BY <2>1 DEF OpenSession, At
    <3>2. t.user \in People /\ Registered(t.user)
      BY <1>0, <3>1 DEF Own, OwnPhase, OwnAccount
    <3> DEFINE n == [id |-> last + 1, user |-> t.user, by |-> NoOne, cred |-> t.cred, byCred |-> 0,
                     row |-> "none", slipped |-> t.cred # users[t.user].cred]
    <3>3. sessions' = sessions \cup {n} /\ last' = last + 1 /\ UNCHANGED <<users, links>>
      BY <2>1 DEF OpenSession, Opens
    <3>4. /\ n.id = last + 1 /\ n.user = t.user /\ n.by = NoOne /\ n.row = "none"
          /\ ~n.slipped => n.cred = users[n.user].cred
      OBVIOUS
    <3> HIDE DEF n
    <3> QED BY <2>1, <3>1, <3>2, <3>3, <3>4
  <2>2. CASE ~OpenSession(w) /\ Mint(w)
    <3>1. t.op = "impersonate" /\ t.pc = "allowed" /\ UserFree(t.user)
      BY <2>2 DEF Mint, At
    <3>2. /\ t.user \in People /\ Registered(t.user)
          /\ t.by \in People /\ Registered(t.by) /\ t.by # t.user /\ users[t.user].role # "superadmin"
      BY <1>0, <3>1 DEF Own, OwnPhase, OwnAccount
    <3> DEFINE n == [id |-> last + 1, user |-> t.user, by |-> t.by, cred |-> users[t.user].cred, byCred |-> t.cred,
                     row |-> "pending", slipped |-> PastEnding(t.by) \/ t.cred # users[t.by].cred]
    <3>3. sessions' = sessions \cup {n} /\ last' = last + 1 /\ UNCHANGED <<users, links>>
      BY <2>2 DEF Mint, Opens
    <3>4. /\ n.id = last + 1 /\ n.user = t.user /\ n.by = t.by /\ n.row = "pending" /\ n.cred = users[n.user].cred
          /\ ~n.slipped => n.byCred = users[n.by].cred /\ ~PastEnding(n.by)
      OBVIOUS
    <3> HIDE DEF n
    <3> QED BY <2>2, <3>1, <3>2, <3>3, <3>4
  <2> QED BY <2>1, <2>2
<1>2. /\ Accounted' /\ OneFirst' /\ LinksHeld' /\ LinksCurrent'
      /\ \A r \in Tx : Own(r) => OwnPhase(r)' /\ OwnAccount(r)' /\ OwnLinks(r)'
      /\ \A r, q : Apart(r, q) => Apart(r, q)'
  BY <1>0, <1>1, SessionStep
<1>3. \A s \in sessions : s.id \in Nat /\ s.id <= last /\ s.user \in People
  BY DEF IInv, Types, Sessions, SessionsHeld
<1>4. SessionsHeld'
  <2>1. \A u : Registered(u)' = Registered(u)
    BY <1>1 DEF Registered
  <2>2. \A s \in sessions' : s.id <= last' /\ Registered(s.user) /\ (s.by # NoOne => Registered(s.by))
    BY <1>0, <1>1, <1>3 DEF IInv, SessionsHeld
  <2>3. \A s, r \in sessions' : s.id = r.id => s = r
    BY <1>0, <1>1, <1>3 DEF IInv, SessionsHeld
  <2> QED BY <2>1, <2>2, <2>3 DEF SessionsHeld
<1>5. SessionsCurrent'
  BY <1>1 DEF IInv, SessionsCurrent
<1>6. tx'[w].pc # "minted" <=> OpenSession(w)
  BY <1>0, <1>1 DEF Tx, Idle
<1>7. ImpersonationsAllowed'
  <2> DEFINE Minting(s) == \E v \in Workers : At(v, "impersonate", "minted") /\ tx[v].id = s.id
  <2>1. \A s \in sessions : Minting(s)' <=> Minting(s)
    <3>1. ~At(w, "impersonate", "minted")
      BY <1>1 DEF At
    <3>2. tx'[w].pc = "minted" => tx'[w].id = last + 1
      BY <1>0, <1>6 DEF Tx
    <3>3. \A v \in Workers \ {w} : tx'[v] = tx[v]
      BY <1>0
    <3> TAKE s \in sessions
    <3>4. ASSUME NEW v \in Workers, At(v, "impersonate", "minted"), tx[v].id = s.id PROVE Minting(s)'
      <4>1. v # w
        BY <3>1, <3>4
      <4> QED BY <3>3, <3>4, <4>1 DEF At
    <3>5. ASSUME NEW v \in Workers, At(v, "impersonate", "minted")', tx'[v].id = s.id PROVE Minting(s)
      <4>1. s.id # last + 1
        BY <1>0, <1>3
      <4>2. v # w
        BY <3>2, <3>5, <4>1 DEF At
      <4> QED BY <3>3, <3>5, <4>2 DEF At
    <3> QED BY <3>4, <3>5
  <2>2. n.by # NoOne => Minting(n)'
    <3>1. CASE ~OpenSession(w)
      <4>1. tx'[w].op = "impersonate" /\ tx'[w].pc = "minted" /\ tx'[w].id = last + 1
        BY <1>0, <1>1, <3>1 DEF Tx, Mint, At
      <4> QED BY <1>1, <4>1 DEF At
    <3> QED BY <1>1, <3>1
  <2>3. n.by # NoOne => n.row = "pending"
    BY <1>1
  <2>4. \A s \in sessions' : s.by # NoOne => /\ s.by # s.user /\ users[s.user].role # "superadmin"
                                             /\ (s.row = "pending" <=> Minting(s)')
    <3>1. \A s \in sessions : s.by # NoOne => /\ s.by # s.user /\ users[s.user].role # "superadmin"
                                              /\ (s.row = "pending" <=> Minting(s))
      BY DEF IInv, ImpersonationsAllowed
    <3> HIDE DEF Minting
    <3> QED BY <1>1, <2>1, <2>2, <2>3, <3>1
  <2> QED BY <1>1, <2>4 DEF ImpersonationsAllowed
<1>8. Workings'
  <2>1. ASSUME NEW v \in Workers \ {w} PROVE Own(tx[v])'
    <3>1. OwnPhase(tx[v])' /\ OwnAccount(tx[v])' /\ OwnLinks(tx[v])'
      BY <1>0, <1>2 DEF Own
    <3>2. tx[v].pc \in {"ended", "swept"} => n \notin SessionsOf(tx[v].user)' \/ n.slipped
      <4>1. tx[v].pc \in {"ended", "swept"} => tx[v].op = "complete"
        BY <1>0 DEF Own, OwnPhase, Consuming
      <4>2. tx[v].pc \in {"ended", "swept"} => tx[v].user # n.user
        BY <1>1, <4>1 DEF UserFree, Setting
      <4>3. tx[v].pc \in {"ended", "swept"} => tx[v].user \in People /\ PastEnding(tx[v].user)
        BY <1>0, <4>1 DEF PastEnding, Setting, Own, OwnPhase
      <4> QED BY <1>0, <1>1, <4>2, <4>3, AccountsAssumption DEF SessionsOf
    <3>3. OwnSessions(tx[v])'
      BY <1>0, <1>1, <3>2 DEF Own, OwnSessions, SessionsOf, Tx
    <3> QED BY <3>1, <3>3 DEF Own
  <2>2. \A u, v \in Workers \ {w} : u # v => Apart(tx[u], tx[v])'
    BY <1>0, <1>2 DEF IInv, Workings
  <2>3. CASE OpenSession(w)
    BY <2>1, <2>2, <2>3, DoneWorkings DEF IInv, OpenSession
  <2>4. CASE ~OpenSession(w)
    <3> DEFINE r == [t EXCEPT !.pc = "minted", !.id = last + 1]
    <3>0. /\ tx'[w] = r /\ r.op = t.op /\ r.pc = "minted" /\ r.id = last + 1 /\ r.user = t.user /\ r.by = t.by
          /\ r.new = t.new /\ r.sweep = t.sweep /\ r.ends = t.ends
      BY <1>0, <2>4 DEF Tx
    <3> HIDE DEF r
    <3>1. t.pc = "allowed" /\ t.op = "impersonate" /\ ~t.new /\ t.sweep = {}
      BY <1>0, <2>4 DEF Mint, At, Own, OwnPhase, OwnAccount
    <3>2. Own(tx[w])'
      <4>1. OwnPhase(tx[w])'
        BY <1>0, <3>0, <3>1 DEF Own, OwnPhase, Consuming
      <4>2. OwnAccount(tx[w])'
        BY <1>0, <1>1, <3>0, <3>1 DEF Own, OwnAccount, Registered
      <4>3. OwnLinks(tx[w])' /\ OwnSessions(tx[w])'
        BY <1>0, <1>1, <3>0, <3>1 DEF OwnLinks, OwnSessions, Consuming
      <4> QED BY <4>1, <4>2, <4>3 DEF Own
    <3>3. ASSUME NEW v \in Workers \ {w} PROVE Apart(tx[v], tx[w])' /\ Apart(tx[w], tx[v])'
      <4>1. tx[v].pc = "minted" => tx[v].id # last + 1
        BY <1>0 DEF Own, OwnSessions, Tx
      <4>2. TakenBy(tx[w])' = {}
        BY <3>0, <3>1 DEF TakenBy, Consuming
      <4>3. /\ ~tx'[w].new /\ tx'[w].pc = "minted" /\ tx'[w].id = last + 1
            /\ tx'[v] = tx[v]
        BY <1>0, <3>0, <3>1
      <4> QED BY <4>1, <4>2, <4>3 DEF Apart
    <3> QED BY <2>1, <2>2, <3>2, <3>3 DEF Workings
  <2> QED BY <2>3, <2>4
<1> QED BY <1>2, <1>4, <1>5, <1>7, <1>8 DEF IInv

\* A session that ends, or whose row is settled, was held by no completion.
LEMMA SettleInv ==
  ASSUME IInv, NEW w \in Workers, Record(w, "written") \/ Record(w, "lost") \/ Unrecord(w), Types'
  PROVE  IInv'
<1> DEFINE t == tx[w]
<1>0. /\ last \in Nat /\ t \in Tx /\ Own(t) /\ t.op = "impersonate" /\ t.pc = "minted"
      /\ tx'[w] = Idle /\ \A v \in Workers \ {w} : Own(tx[v]) /\ tx[v] \in Tx /\ tx'[v] = tx[v]
      /\ UNCHANGED <<users, links, last>>
  BY IdleType, BecomesType DEF IInv, Types, Workings, Record, Unrecord, Ends, At
<1> DEFINE At0(s, n) == /\ n.id = s.id /\ n.user = s.user /\ n.by = s.by /\ n.cred = s.cred /\ n.byCred = s.byCred
                        /\ n.slipped = s.slipped
<1> DEFINE From(row, s, n) ==
             \/ n = s /\ s.id # t.id
             \/ /\ n = [s EXCEPT !.row = row] /\ At0(s, n) /\ n.row # "pending" /\ s.id = t.id
                /\ \A v \in Workers \ {w} : s \notin tx[v].ends
<1>1. PICK row : \A n \in sessions' : \E s \in sessions : From(row, s, n)
  <2>1. ASSUME NEW row \in {"written", "lost"}, Record(w, row)
        PROVE  \A n \in sessions' : \E s \in sessions : From(row, s, n)
    <3> TAKE n \in sessions'
    <3>1. CASE n \in sessions \ Minted(w)
      BY <3>1 DEF Minted
    <3>2. CASE n \in Settled(w, row)
      <4>1. PICK s \in Minted(w) : n = [s EXCEPT !.row = row]
        BY <3>2 DEF Settled
      <4>2. s \in Sessions /\ s \in sessions /\ s.id = t.id
        BY DEF IInv, Types, Minted
      <4>3. At0(s, n) /\ n.row # "pending"
        BY <4>1, <4>2 DEF Sessions
      <4>4. \A v \in Workers \ {w} : s \notin tx[v].ends
        BY <2>1 DEF Record, SessionsFree
      <4> HIDE DEF At0
      <4> QED BY <4>1, <4>2, <4>3, <4>4
    <3> QED BY <2>1, <3>1, <3>2 DEF Record
  <2>2. ASSUME Unrecord(w) PROVE \A n \in sessions' : \E s \in sessions : From("lost", s, n)
    BY <2>2 DEF Unrecord, Minted
  <2> HIDE DEF From
  <2> QED BY <2>1, <2>2
<1>2. /\ Accounted' /\ OneFirst' /\ LinksHeld' /\ LinksCurrent'
      /\ \A r \in Tx : Own(r) => OwnPhase(r)' /\ OwnAccount(r)' /\ OwnLinks(r)'
      /\ \A r, q : Apart(r, q) => Apart(r, q)'
  BY <1>0, SessionStep
<1>3. SessionsHeld'
  <2>1. \A n \in sessions' : \E s \in sessions : n.id = s.id /\ n.user = s.user /\ n.by = s.by
    BY <1>1
  <2>2. \A n \in sessions' : n.id <= last' /\ Registered(n.user)' /\ (n.by # NoOne => Registered(n.by)')
    BY <1>0, <2>1 DEF IInv, SessionsHeld, Registered
  <2>3. ASSUME NEW n \in sessions', NEW m \in sessions', n.id = m.id PROVE n = m
    <3>1. PICK s \in sessions : From(row, s, n)
      BY <1>1
    <3>2. PICK r \in sessions : From(row, r, m)
      BY <1>1
    <3>3. s = r
      BY <2>3, <3>1, <3>2 DEF IInv, SessionsHeld
    <3> QED BY <3>1, <3>2, <3>3
  <2> QED BY <2>2, <2>3 DEF SessionsHeld
<1>4. SessionsCurrent'
  BY <1>0, <1>1 DEF IInv, SessionsCurrent
<1>5. ImpersonationsAllowed'
  <2> SUFFICES ASSUME NEW n \in sessions', n.by # NoOne
               PROVE  /\ n.by # n.user /\ users'[n.user].role # "superadmin"
                      /\ n.row = "pending" <=> \E v \in Workers : At(v, "impersonate", "minted")' /\ tx'[v].id = n.id
    BY DEF ImpersonationsAllowed
  <2>1. PICK s \in sessions : From(row, s, n)
    BY <1>1
  <2>2. s.by # NoOne /\ n.by = s.by /\ n.user = s.user
    BY <2>1
  <2>3. /\ s.by # s.user /\ users[s.user].role # "superadmin"
        /\ s.row = "pending" <=> \E v \in Workers : At(v, "impersonate", "minted") /\ tx[v].id = s.id
    BY <2>2 DEF IInv, ImpersonationsAllowed
  <2>4. CASE n = s /\ s.id # t.id
    BY <1>0, <2>3, <2>4 DEF At, Idle
  <2>5. CASE n.row # "pending" /\ n.id = s.id /\ s.id = t.id
    <3>1. ASSUME NEW v \in Workers, At(v, "impersonate", "minted")', tx'[v].id = n.id PROVE FALSE
      <4>1. v # w
        BY <1>0, <3>1 DEF At, Idle
      <4>2. Apart(tx[v], t) /\ tx'[v] = tx[v]
        BY <1>0, <4>1 DEF IInv, Workings
      <4> QED BY <1>0, <2>5, <3>1, <4>2 DEF At, Apart
    <3> QED BY <1>0, <2>2, <2>3, <2>5, <3>1
  <2> QED BY <2>1, <2>4, <2>5
<1>6. Workings'
  <2>1. ASSUME NEW v \in Workers \ {w} PROVE Own(tx[v])'
    <3>1. OwnPhase(tx[v])' /\ OwnAccount(tx[v])' /\ OwnLinks(tx[v])'
      BY <1>0, <1>2 DEF Own
    <3>2. OwnSessions(tx[v])'
      BY <1>0, <1>1 DEF Own, OwnSessions, SessionsOf
    <3> QED BY <3>1, <3>2 DEF Own
  <2>2. \A u, v \in Workers \ {w} : u # v => Apart(tx[u], tx[v])'
    BY <1>0, <1>2 DEF IInv, Workings
  <2> QED BY <2>1, <2>2, DoneWorkings DEF IInv, Record, Unrecord
<1> QED BY <1>2, <1>3, <1>4, <1>5, <1>6 DEF IInv

LEMMA EndInv ==
  ASSUME IInv, NEW s \in sessions, EndSession(s), s.by = NoOne \/ s.row # "pending"
  PROVE  IInv'
<1>1. sessions' = sessions \ {s} /\ UNCHANGED <<users, links, tx, calls, last>>
  BY DEF EndSession
<1>2. Types' /\ last' >= last
  BY <1>1 DEF IInv, Types
<1>3. /\ Accounted' /\ OneFirst' /\ LinksHeld' /\ LinksCurrent'
      /\ \A r \in Tx : Own(r) => OwnPhase(r)' /\ OwnAccount(r)' /\ OwnLinks(r)'
      /\ \A r, q : Apart(r, q) => Apart(r, q)'
  BY <1>1, <1>2, SessionStep
<1>4. Workings'
  <2>1. \A w \in Workers : OwnSessions(tx[w])'
    BY <1>1 DEF IInv, Workings, Own, OwnSessions, SessionsOf
  <2> QED BY <1>1, <1>3, <2>1 DEF IInv, Types, Workings, Own
<1>5. SessionsHeld' /\ SessionsCurrent'
  BY <1>1 DEF IInv, SessionsHeld, SessionsCurrent, Registered
<1>6. ImpersonationsAllowed'
  BY <1>1 DEF IInv, ImpersonationsAllowed, At
<1> QED BY <1>2, <1>3, <1>4, <1>5, <1>6 DEF IInv

-----------------------------------------------------------------------------
LEMMA AccountsInit == Init => IInv
<1> SUFFICES ASSUME Init PROVE IInv
  OBVIOUS
<1> USE DEF Init
<1>1. Types
  BY IdleType, AccountsAssumption DEF Types, Users, Nobody
<1>2. Workings
  <2>1. Own(Idle)
    BY DEF Own, OwnPhase, OwnAccount, OwnLinks, OwnSessions, Idle, Consuming
  <2>2. Apart(Idle, Idle)
    BY DEF Apart, TakenBy, Idle, Consuming
  <2> QED BY <2>1, <2>2 DEF Workings
<1>3. Accounted /\ OneFirst
  BY DEF Accounted, OneFirst, Empty, Registered
<1> QED BY <1>1, <1>2, <1>3 DEF IInv, LinksHeld, LinksCurrent, SessionsHeld, SessionsCurrent, ImpersonationsAllowed

LEMMA AccountsNext == IInv /\ [Next]_vars => IInv'
<1> SUFFICES ASSUME IInv, [Next]_vars PROVE IInv'
  OBVIOUS
<1>1. ASSUME NEW w \in Workers, Called(w) PROVE IInv'
  BY <1>1, CallsInv
<1>2. ASSUME NEW w \in Workers, Runs(w) PROVE IInv'
  <2>1. Own(tx[w])
    BY DEF IInv, Workings
  <2>2. Types'
    BY <1>2, <2>1, RunsType DEF IInv
  <2>3. CASE Works(w)
    BY <2>3, WorksInv
  <2>4. CASE CommitBootstrap(w)
    BY <2>2, <2>4, BootstrapInv
  <2>5. CASE CommitIssue(w)
    BY <2>2, <2>5, IssueInv
  <2>6. CASE CommitPassword(w)
    BY <2>2, <2>6, PasswordInv
  <2>7. CASE OpenSession(w) \/ Mint(w)
    BY <2>2, <2>7, OpenInv
  <2>8. CASE Record(w, "written") \/ Record(w, "lost") \/ Unrecord(w)
    BY <2>2, <2>8, SettleInv
  <2> QED BY <1>2, <2>3, <2>4, <2>5, <2>6, <2>7, <2>8 DEF Runs, Works
<1>3. CASE SessionEnds
  BY <1>3, EndInv DEF SessionEnds
<1>4. CASE StopImpersonation
  BY <1>4, EndInv DEF StopImpersonation
<1>5. CASE UNCHANGED vars
  <2>1. Empty' = Empty /\ \A u : Registered(u)' = Registered(u)
    BY <1>5 DEF vars, Empty, Registered
  <2>2. Types' /\ Accounted' /\ OneFirst' /\ LinksHeld' /\ LinksCurrent' /\ SessionsHeld' /\ SessionsCurrent'
    BY <1>5, <2>1 DEF vars, IInv, Types, Accounted, OneFirst, LinksHeld, LinksCurrent, SessionsHeld, SessionsCurrent
  <2>3. ImpersonationsAllowed'
    BY <1>5 DEF vars, IInv, ImpersonationsAllowed, At
  <2>4. last' >= last
    BY <1>5 DEF vars, IInv, Types
  <2>5. /\ \A r \in Tx : Own(r) => OwnPhase(r)' /\ OwnAccount(r)' /\ OwnLinks(r)'
        /\ \A r, q : Apart(r, q) => Apart(r, q)'
    BY <1>5, <2>2, <2>4, SessionStep DEF vars
  <2>6. Workings'
    <3>1. \A w \in Workers : OwnSessions(tx[w])'
      BY <1>5 DEF vars, IInv, Workings, Own, OwnSessions, SessionsOf
    <3> QED BY <1>5, <2>5, <3>1 DEF vars, IInv, Types, Workings, Own
  <2> QED BY <2>2, <2>3, <2>6 DEF IInv
<1> QED BY <1>1, <1>2, <1>3, <1>4, <1>5 DEF Next

\* In every order of concurrent creations, password changes, sign-ins, impersonations and issues: exactly
\* one account was the first and it can administer, no session or link outlives the password it was made
\* under unless it was made while the new one was being committed, and who acts for whom is allowed and
\* recorded.
THEOREM AccountsSound == Spec => []AccountInv
<1>1. IInv => AccountInv
  <2>1. IInv => TypeOK
    BY DEF IInv, Types, TypeOK, Users, Tx
  <2> QED BY <2>1 DEF IInv, AccountInv
<1> QED BY <1>1, AccountsInit, AccountsNext, PTL DEF Spec

\* A link goes only when its account's password is set or a newer link replaces it, and the password of an
\* account that exists is set only by spending a link that was outstanding: in no order of completions,
\* failed attempts and issues does one transaction take what another had taken.
THEOREM LinksOnlySpent == Spec => LinksNotLost
<1> DEFINE Kept ==
      /\ \A l \in links \ links' : Replaced(l) \/ PasswordSet(l.user)
      /\ \A u \in People : Registered(u) /\ users'[u].cred # users[u].cred
                             => PasswordSet(u) /\ \E l \in links \ links' : l.user = u
<1>1. ASSUME IInv, [Next]_vars PROVE Kept
  <2>1. CASE UNCHANGED <<users, links>>
    BY <2>1
  <2>2. ASSUME NEW w \in Workers, CommitBootstrap(w) PROVE Kept
    <3>1. \A u \in People : Registered(u) => users'[u] = users[u]
      BY <1>1, <2>2, AccountsNext, CreatedUsers DEF CommitBootstrap, At, IInv
    <3> QED BY <2>2, <3>1 DEF CommitBootstrap
  <2>3. ASSUME NEW w \in Workers, CommitIssue(w) PROVE Kept
    <3> DEFINE n == [id |-> last + 1, user |-> tx[w].user, purpose |-> tx[w].purpose,
                     cred |-> UsersWith(w)[tx[w].user].cred, slipped |-> PastEnding(tx[w].user)]
    <3>1. \A u \in People : Registered(u) => users'[u] = users[u]
      BY <1>1, <2>3, AccountsNext, CreatedUsers DEF CommitIssue, IInv
    <3>2. links' = (links \ tx[w].sweep) \cup {n} /\ n.user = tx[w].user /\ n.purpose = tx[w].purpose
      BY <2>3 DEF CommitIssue
    <3>3. n \notin links
      <4>1. n.id = last + 1 /\ last \in Nat /\ \A l \in links : l.id \in Nat /\ l.id <= last
        BY <1>1 DEF IInv, Types, Links, LinksHeld
      <4> HIDE DEF n
      <4> QED BY <4>1
    <3>4. \A l \in tx[w].sweep : l.user = tx[w].user /\ l.purpose = tx[w].purpose
      BY <1>1, <2>3 DEF CommitIssue, IInv, Workings, Own, OwnLinks
    <3> HIDE DEF n
    <3> QED BY <3>1, <3>2, <3>3, <3>4 DEF Replaced
  <2>4. ASSUME NEW w \in Workers, CommitPassword(w) PROVE Kept
    <3> DEFINE t == tx[w]
    <3>1. /\ t.op = "complete" /\ t.pc = "swept" /\ users' = [users EXCEPT ![t.user].cred = @ + 1]
          /\ links' = links \ (t.sweep \cup PresentedBy(t))
      BY <2>4 DEF CommitPassword, At, Presented, PresentedBy
    <3>2. users \in [People -> Users] /\ Own(t)
      BY <1>1 DEF IInv, Types, Workings
    <3>3. /\ t.user \in People /\ PresentedBy(t) # {} /\ PresentedBy(t) \subseteq links
          /\ \A l \in t.sweep \cup PresentedBy(t) : l.user = t.user
      BY <3>1, <3>2 DEF Own, OwnPhase, OwnLinks, Consuming, PresentedBy
    <3> HIDE DEF t
    <3>4. PasswordSet(t.user) /\ \A u \in People : u # t.user => users'[u] = users[u]
      BY <3>1, <3>2, <3>3 DEF PasswordSet, Users
    <3> QED BY <3>1, <3>3, <3>4
  <2>5. ASSUME NEW w \in Workers, Called(w) PROVE UNCHANGED <<users, links>>
    BY <2>5 DEF Called, Calls, Bootstrap, ResendLink, RequestLink, SignIn, InviteUser, CompleteSetPassword,
                StartImpersonation
  <2>6. ASSUME NEW w \in Workers, Works(w) PROVE UNCHANGED <<users, links>>
    BY <2>6 DEF Works, Steps, Place, CreateUserWithRole, IssueToken, ConsumeToken, LockUser, EndSessions,
                SweepLinks, Abort
  <2>7. ASSUME NEW w \in Workers, OpenSession(w) \/ Mint(w) \/ Record(w, "written") \/ Record(w, "lost") \/ Unrecord(w)
        PROVE  UNCHANGED <<users, links>>
    BY <2>7 DEF OpenSession, Mint, Opens, Record, Unrecord
  <2>8. SessionEnds \/ StopImpersonation \/ UNCHANGED vars => UNCHANGED <<users, links>>
    BY DEF SessionEnds, StopImpersonation, EndSession, vars
  <2> QED BY <1>1, <2>1, <2>2, <2>3, <2>4, <2>5, <2>6, <2>7, <2>8 DEF Next, Runs, Works
<1>2. ASSUME IInv, [Next]_vars PROVE [Kept]_vars
  BY <1>1, <1>2
<1> QED BY <1>2, AccountsInit, AccountsNext, PTL DEF Spec, LinksNotLost
=============================================================================
