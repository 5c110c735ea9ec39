----------------------------- MODULE PageCache -----------------------------
(***************************************************************************)
(* Visitors, writers and the page cache between them: the visitor handler  *)
(* (packages/render/src/handler.ts) with its coalesced renders             *)
(* (single-flight.ts), the writes of packages/pages that purge after they  *)
(* have committed (purge.ts, lifecycle.ts, publish.ts, pages.ts,           *)
(* page-routing.ts), and the MemoryCache that one process gives to both    *)
(* (packages/core/src/runtime/runtime.ts).                                 *)
(*                                                                         *)
(* A render reads the URL pattern, the page, and the pages it links to in  *)
(* statements of their own, so writes come between.  What a visitor sees   *)
(* of a page (its publication and its address) is the number of writes     *)
(* that changed it, its revision; GlobalTag's is that of the URL pattern.  *)
(* What a render has read is the revision of each thing it read, 0 of what *)
(* it did not.  Only healthy pages are cached: redirects, not-founds,      *)
(* errors and degraded pages end a render without a fill.                  *)
(***************************************************************************)
EXTENDS MemoryCache

CONSTANTS
  Pages, NoPage,
  Subtree,     \* a page and everything below it
  Links,       \* the pages a page's text links to
  Visitors,    \* requests that can be under way at a time
  NoKey,
  MaxWrites    \* bound: writes

ASSUME PageCacheAssumption ==
  /\ Tags = Pages \cup {GlobalTag} /\ GlobalTag \notin Pages /\ NoPage \notin Pages
  /\ Subtree \in [Pages -> SUBSET Pages] /\ \A p \in Pages : p \in Subtree[p]
  /\ Links \in [Pages -> SUBSET Pages]
  /\ NoKey \notin Keys /\ "everyone" \notin Visitors
  /\ MaxWrites \in Nat
  /\ Contents = [Tags -> Nat]

VARIABLES
  revision,   \* of each page, and of the URL pattern
  address,    \* where each page that is live is found
  pending,    \* the tags to purge of each write that has committed
  writes,     \* how many have
  visitor,    \* the requests
  flights,    \* the renders under way
  purgedTo    \* the revision of each tag at its last purge

site == <<revision, address>>
vars == <<cacheVars, site, pending, writes, visitor, flights, purgedTo>>

NoTicket == -1
Tickets == Nat \cup {NoTicket}
Unread == [t \in Tags |-> 0]

\* A flight is known by its ticket and key; one without a ticket by its visitor.
Flights ==
  [ticket : Tickets, key : Keys, for : Visitors \cup {"everyone"},
   pc : {"pattern", "page", "links", "store", "land"},
   page : Pages \cup {NoPage}, seen : Contents]

Requests ==
  [pc : {"idle", "get", "join", "wait"}, key : Keys \cup {NoKey},
   ticket : Tickets, since : Contents]

Flight(ticket, k, for, pc, page, seen) ==
  [ticket |-> ticket, key |-> k, for |-> for, pc |-> pc, page |-> page, seen |-> seen]

Request(pc, k, ticket, since) ==
  [pc |-> pc, key |-> k, ticket |-> ticket, since |-> since]
Idle == Request("idle", NoKey, NoTicket, Unread)

TypeOK ==
  /\ CacheTypeOK
  /\ revision \in Contents /\ purgedTo \in Contents
  /\ address \in [Pages -> Keys \cup {NoKey}]
  /\ pending \in SUBSET [number : Nat, tags : SUBSET Tags]
  /\ writes \in Nat
  /\ visitor \in [Visitors -> Requests]
  /\ flights \subseteq Flights

Init ==
  /\ CacheInit
  /\ revision = [t \in Tags |-> 1] /\ purgedTo = revision
  /\ address \in [Pages -> Keys \cup {NoKey}]
  /\ \A p, q \in Pages : p # q /\ address[p] = address[q] => address[p] = NoKey
  /\ pending = {} /\ writes = 0
  /\ visitor = [v \in Visitors |-> Idle]
  /\ flights = {}

-----------------------------------------------------------------------------
\* Writers.  The row locks of a write are held until it commits: one step.
\* What changes nothing a visitor sees (a title alone) is left out, as is a
\* publish that read the URL pattern before another write replaced it.

\* Public addresses are unique.
Readdressed(S) ==
  /\ address' \in [Pages -> Keys \cup {NoKey}]
  /\ \A p \in Pages \ S : address'[p] = address[p]
  /\ \A p, q \in Pages : p # q /\ address'[p] = address'[q] => address'[p] = NoKey

Committed(changed, tags) ==
  /\ writes < MaxWrites /\ writes' = writes + 1
  /\ revision' = [t \in Tags |-> IF t \in changed THEN revision[t] + 1 ELSE revision[t]]
  /\ pending' = pending \cup {[number |-> writes', tags |-> tags]}
  /\ UNCHANGED <<cacheVars, visitor, flights, purgedTo>>

\* publishPage: a draft gets its address, a live page keeps it.
Publish(p) ==
  /\ Readdressed({p})
  /\ address'[p] # NoKey /\ address[p] \in {NoKey, address'[p]}
  /\ Committed({p}, {p})

Withdrawn(S) == address' = [p \in Pages |-> IF p \in S THEN NoKey ELSE address[p]]

\* unpublishPage.
Unpublish(p) ==
  /\ address[p] # NoKey
  /\ Withdrawn({p})
  /\ Committed({p}, {p})

\* renamePage and movePage change every path below the page: what was published
\* there has no address until it is published again.
PurgedWith(p) == Subtree[p]
Rename(p) == Withdrawn(Subtree[p]) /\ Committed(Subtree[p], PurgedWith(p))

\* trashPage; deletePagePermanently changes and purges the same.
Trash(p) == Withdrawn(Subtree[p]) /\ Committed(Subtree[p], PurgedWith(p))

\* setPageUrlPattern gives every published page a new address, the renamed ones
\* too, and purges everything.
RewriteAddresses ==
  /\ Readdressed(Pages)
  /\ \A p \in Pages : address[p] # NoKey => address'[p] # NoKey
  /\ Committed(Tags, {GlobalTag})

\* setPageUrlPattern with the pattern there is: the renamed pages that are still
\* published get an address, and nothing is purged.  (What has no address is not
\* told apart: a draft may get one here, as above.)
RestateAddresses ==
  /\ Readdressed({p \in Pages : address[p] = NoKey})
  /\ UNCHANGED <<cacheVars, revision, pending, writes, visitor, flights, purgedTo>>

\* afterCommit: each write's own purge, once it has committed.
PurgeAfterCommit(w) ==
  /\ w \in pending /\ pending' = pending \ {w}
  /\ Purge(w.tags)
  /\ purgedTo' = [t \in Tags |-> IF t \in w.tags \/ GlobalTag \in w.tags
                                   THEN revision[t] ELSE purgedTo[t]]
  /\ UNCHANGED <<site, writes, visitor, flights>>

-----------------------------------------------------------------------------
\* Visitors.

\* The ticket is taken before anything is read; a backend may fail to give one.
Arrive(v, k) ==
  /\ visitor[v].pc = "idle"
  /\ \E ticket \in {epoch, NoTicket} :
       visitor' = [visitor EXCEPT ![v] =
         Request(IF ticket = NoTicket THEN "join" ELSE "get", k, ticket, purgedTo)]
  /\ UNCHANGED <<cacheVars, site, pending, writes, flights, purgedTo>>

Goes(v, pc) ==
  visitor' = [visitor EXCEPT ![v] =
                Request(pc, visitor[v].key, visitor[v].ticket, visitor[v].since)]

Answered(vs) == visitor' = [v \in Visitors |-> IF v \in vs THEN Idle ELSE visitor[v]]

Hit(v) ==
  LET k == visitor[v].key
  IN /\ visitor[v].pc = "get" /\ entries[k] # NoEntry
     /\ Touch(k)
     /\ Answered({v})
     /\ UNCHANGED <<site, pending, writes, flights, purgedTo>>

\* Nothing stored, or an entry past its lifetime, or a get that fails.
Miss(v) ==
  LET k == visitor[v].key
  IN /\ visitor[v].pc = "get"
     /\ \/ entries[k] # NoEntry /\ Expire(k)
        \/ UNCHANGED cacheVars
     /\ Goes(v, "join")
     /\ UNCHANGED <<site, pending, writes, flights, purgedTo>>

\* The flight key: without the ticket, a request made after a purge could join
\* a render begun before it.
SharedByKey(f, v) == f.for = "everyone" /\ f.key = visitor[v].key
Shared(f, v) ==
  IF visitor[v].ticket = NoTicket THEN f.for = v
  ELSE f.for = "everyone" /\ f.key = visitor[v].key /\ f.ticket = visitor[v].ticket

Join(v) ==
  /\ visitor[v].pc = "join"
  /\ flights' = IF \E f \in flights : Shared(f, v) THEN flights
                ELSE flights \cup
                  {Flight(visitor[v].ticket, visitor[v].key,
                          IF visitor[v].ticket = NoTicket THEN v ELSE "everyone",
                          "pattern", NoPage, Unread)}
  /\ Goes(v, "wait")
  /\ UNCHANGED <<cacheVars, site, pending, writes, purgedTo>>

-----------------------------------------------------------------------------
\* produce.

Reads(f, pc, page, seen) ==
  /\ flights' = (flights \ {f}) \cup {Flight(f.ticket, f.key, f.for, pc, page, seen)}
  /\ UNCHANGED <<site, pending, writes, visitor, purgedTo>>

\* What was read before keeps the revision it had then.
Saw(seen, S) == [t \in Tags |-> IF t \in S THEN revision[t] ELSE seen[t]]

ReadPattern(f) ==
  /\ f.pc = "pattern"
  /\ Reads(f, "page", NoPage, Saw(f.seen, {GlobalTag}))
  /\ UNCHANGED cacheVars

\* The address is read under the pattern read before: an older one may name
\* any page.
Named(f, p) ==
  address[p] # NoKey /\ (f.seen[GlobalTag] = revision[GlobalTag] => address[p] = f.key)

ReadPage(f) ==
  /\ f.pc = "page"
  /\ \E p \in Pages :
       /\ Named(f, p)
       /\ Reads(f, "links", p, Saw(f.seen, {p}))
  /\ UNCHANGED cacheVars

\* Every linked page in one statement.  Their addresses are made with the URL
\* pattern read once more: what was read of it first is the older.
ReadLinks(f) ==
  /\ f.pc = "links"
  /\ Reads(f, "store", f.page, Saw(f.seen, Links[f.page] \ {f.page}))
  /\ UNCHANGED cacheVars

\* The tags of a render: the page, all that is global, and what it links to.
DependsOn(p) == {GlobalTag, p} \cup Links[p]

\* A render without a ticket stores nothing, nor does a set that fails.
Fill(f) ==
  /\ f.pc = "store"
  /\ Reads(f, "land", f.page, f.seen)
  /\ \/ /\ f.ticket # NoTicket
        /\ Set(f.key, [tags |-> DependsOn(f.page), content |-> f.seen], f.ticket)
     \/ UNCHANGED cacheVars

Waiting(f) == {v \in Visitors : visitor[v].pc = "wait" /\ Shared(f, v)}

\* A flight leaves its map before anyone hears of it, whichever way it ended.
Lands(f) ==
  /\ flights' = flights \ {f}
  /\ Answered(Waiting(f))
  /\ UNCHANGED <<cacheVars, site, pending, writes, purgedTo>>

Land(f) == f.pc = "land" /\ Lands(f)

\* An error, a degraded page, a redirect or no page: nothing of it is kept.
LandWithout(f) == f.pc \in {"pattern", "page", "links"} /\ Lands(f)

-----------------------------------------------------------------------------
\* The process ends, and with it what it held in memory.
Restart ==
  /\ entries' = [k \in Keys |-> NoEntry]
  /\ recency' = <<>> /\ tagIndex' = {} /\ totalBytes' = 0
  /\ epoch' = 0 /\ stamps' = [t \in Tags |-> 0] /\ forgottenUpTo' = 0
  /\ pending' = {} /\ flights' = {} /\ purgedTo' = revision
  /\ visitor' = [v \in Visitors |-> Idle]
  /\ UNCHANGED <<site, writes>>

Write ==
  \/ \E p \in Pages : Publish(p) \/ Unpublish(p) \/ Rename(p) \/ Trash(p)
  \/ RewriteAddresses

Visit(v) == (\E k \in Keys : Arrive(v, k)) \/ Hit(v) \/ Miss(v) \/ Join(v)

Render(f) ==
  \/ ReadPattern(f) \/ ReadPage(f) \/ ReadLinks(f) \/ Fill(f)
  \/ Land(f) \/ LandWithout(f)

Next ==
  \/ Write
  \/ RestateAddresses
  \/ \E w \in pending : PurgeAfterCommit(w)
  \/ \E v \in Visitors : Visit(v)
  \/ \E f \in flights : Render(f)
  \/ Restart

Spec == Init /\ [][Next]_vars

-----------------------------------------------------------------------------
\* Properties.

\* What is cached under a key is stale only until the purge of the write that
\* changed it: when none of what it was made from has a purge pending, it is
\* what a render would make now.
StaleOnlyBeforePurge ==
  \A k \in Keys : entries[k] # NoEntry =>
    \A t \in Tags :
      entries[k].content[t] > 0 =>
        \/ entries[k].content[t] = revision[t]
        \/ \E w \in pending : t \in w.tags \/ GlobalTag \in w.tags

\* Nobody who asks after a purge is about to be answered with what was there
\* before it, from the cache or from a render somebody else began.
FreshFor(v, seen) ==
  \A t \in Tags : seen[t] > 0 => seen[t] >= visitor[v].since[t]
AnswersAreFresh ==
  \A v \in Visitors :
    /\ visitor[v].pc = "get" /\ entries[visitor[v].key] # NoEntry =>
         FreshFor(v, entries[visitor[v].key].content)
    /\ \A f \in flights : v \in Waiting(f) => FreshFor(v, f.seen)

\* Concurrent requests for one page in one epoch share one render.
OneFlightEach ==
  \A f, g \in flights :
    f # g /\ f.for = g.for => f.key # g.key \/ f.ticket # g.ticket

\* The cache's own books are in order, and its misses share their renders.
CacheInv == TypeOK /\ CacheConsistent /\ OneFlightEach
=============================================================================
