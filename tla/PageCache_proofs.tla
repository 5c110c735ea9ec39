-------------------------- MODULE PageCache_proofs --------------------------
(***************************************************************************)
(* For any pages, links, addresses and visitors, and any number of writes: *)
(* what is cached is stale only until the purge of the write that changed  *)
(* it, nobody is answered from before a purge, and the cache's index, byte *)
(* count and order of use are those of what it stores.                     *)
(*                                                                         *)
(* The inductive invariant relates four things no step changes together:   *)
(* the revision a tag has, the one it had at its last purge, what entries  *)
(* and renders have read of it, and the stamps that refuse a fill.  The    *)
(* two folds over data, TotalOf and InOrder, are shown to be well defined  *)
(* by minimal counterexamples, then used through what they satisfy.        *)
(***************************************************************************)
EXTENDS PageCache, SequenceTheorems, FiniteSetTheorems, WellFoundedInduction, TLAPS

\* A fill with this ticket that depends on t is refused.
Refuses(t, ticket) ==
  stamps[t] > ticket \/ stamps[GlobalTag] > ticket \/ forgottenUpTo > ticket

Types ==
  /\ revision \in [Tags -> Nat] /\ purgedTo \in [Tags -> Nat]
  /\ entries \in [Keys -> Entries \cup {NoEntry}]
  /\ epoch \in Nat /\ stamps \in [Tags -> Nat] /\ forgottenUpTo \in Nat
  /\ pending \subseteq [number : Nat, tags : SUBSET Tags] /\ writes \in Nat
  /\ flights \subseteq Flights

\* Stamps and their floor are epochs that have been.
EpochsPast == forgottenUpTo <= epoch /\ \A t \in Tags : stamps[t] <= epoch

\* A revision that no purge has reached is in a purge that is pending.
PurgePending ==
  \A t \in Tags :
    /\ purgedTo[t] <= revision[t]
    /\ purgedTo[t] # revision[t] =>
         \E w \in pending : t \in w.tags \/ GlobalTag \in w.tags

\* An entry is found by the tags of all it was made from, and no older than
\* their last purge.
EntriesPurged ==
  \A k \in Keys : entries[k] # NoEntry =>
    /\ \A t \in entries[k].tags : <<t, k>> \in tagIndex
    /\ \A t \in Tags : entries[k].content[t] > 0 =>
         /\ t \in entries[k].tags
         /\ purgedTo[t] <= entries[k].content[t]
         /\ entries[k].content[t] <= revision[t]

\* A render reads only what it depends on, and what it read was purged since
\* only if its fill will be refused.
FlightsRefused ==
  \A f \in flights :
    /\ f.pc = "pattern" => f.seen = Unread
    /\ f.pc = "page" => \A t \in Tags : f.seen[t] > 0 => t = GlobalTag
    /\ f.pc = "links" => \A t \in Tags : f.seen[t] > 0 => t \in {GlobalTag, f.page}
    /\ f.pc \in {"links", "store", "land"} => f.page \in Pages
    /\ f.pc \in {"store", "land"} =>
         \A t \in Tags : f.seen[t] > 0 => t \in DependsOn(f.page)
    /\ f.ticket <= epoch
    /\ \A t \in Tags : f.seen[t] > 0 =>
         /\ f.seen[t] <= revision[t]
         /\ f.ticket # NoTicket => purgedTo[t] <= f.seen[t] \/ Refuses(t, f.ticket)

\* A visitor waits for a key since a purge that has been, with a ticket of then.
VisitorsAsk ==
  /\ visitor \in [Visitors -> Requests]
  /\ \A v \in Visitors :
       /\ visitor[v].pc # "idle" => visitor[v].key \in Keys
       /\ visitor[v].ticket <= epoch
       /\ visitor[v].pc # "idle" => \A t \in Tags : visitor[v].since[t] <= purgedTo[t]

FreshInv == Types /\ EpochsPast /\ PurgePending /\ EntriesPurged /\ FlightsRefused

USE PageCacheAssumption, MemoryCacheAssumption, NoEntryAssumption

\* Nothing is cached, under way or to be purged at first.
LEMMA FreshInit == Init => FreshInv
  BY DEF Init, CacheInit, FreshInv, Types, EpochsPast, PurgePending, EntriesPurged,
         FlightsRefused, Unread

\* A write changes only what the purge it leaves behind covers.
LEMMA FreshCommit ==
  ASSUME FreshInv, NEW changed \in SUBSET Tags, NEW tags \in SUBSET Tags,
         Committed(changed, tags), changed \subseteq tags \/ GlobalTag \in tags
  PROVE  FreshInv'
<1> DEFINE w == [number |-> writes', tags |-> tags]
<1> USE DEF FreshInv, Committed, cacheVars, stored, epochs
<1>1. Types'
  BY DEF Types
<1>2. EpochsPast'
  BY DEF EpochsPast
<1>3. \A t \in Tags : revision[t] <= revision'[t]
  BY DEF Types
<1>4. PurgePending'
  <2> SUFFICES ASSUME NEW t \in Tags
               PROVE  /\ purgedTo'[t] <= revision'[t]
                      /\ purgedTo'[t] # revision'[t] =>
                           \E x \in pending' : t \in x.tags \/ GlobalTag \in x.tags
    BY DEF PurgePending
  <2>1. purgedTo'[t] <= revision'[t]
    BY <1>3 DEF PurgePending, Types
  <2>2. CASE t \in changed
    <3>1. w \in pending' /\ w.tags = tags
      OBVIOUS
    <3>2. t \in w.tags \/ GlobalTag \in w.tags
      BY <2>2, <3>1
    <3> HIDE DEF w
    <3> QED
      BY <2>1, <3>1, <3>2
  <2>3. CASE t \notin changed
    <3>1. revision'[t] = revision[t]
      BY <2>3 DEF Types
    <3> QED
      BY <2>1, <3>1 DEF PurgePending, Types
  <2> QED
    BY <2>2, <2>3
<1>5. EntriesPurged'
  BY <1>3 DEF EntriesPurged, Types, Entries
<1>6. FlightsRefused'
  BY <1>3 DEF FlightsRefused, Refuses, Types, Flights
<1> QED
  BY <1>1, <1>2, <1>4, <1>5, <1>6

\* Stamps forgotten are made good by the floor.
LEMMA PurgeRefuses ==
  ASSUME Types, EpochsPast, NEW tags \in SUBSET Tags, Purge(tags),
         NEW t \in Tags, NEW ticket \in Tickets, ticket <= epoch
  PROVE  /\ Refuses(t, ticket) => Refuses(t, ticket)'
         /\ t \in tags \/ GlobalTag \in tags => Refuses(t, ticket)'
<1>0. Stamped(tags) \in [Tags -> Nat] /\ ticket \in Int
  BY DEF Stamped, Types, Tickets, NoTicket
<1>1. PICK lost \in SUBSET Tags :
        /\ stamps' = [x \in Tags |-> IF x \in lost THEN 0 ELSE Stamped(tags)[x]]
        /\ FloorRaised(lost, Stamped(tags))
  BY DEF Purge
<1>2. forgottenUpTo <= forgottenUpTo' /\ \A x \in lost : Stamped(tags)[x] <= forgottenUpTo'
  BY <1>1 DEF FloorRaised
<1>3. forgottenUpTo' \in Nat
  <2>2. forgottenUpTo' = forgottenUpTo \/ \E x \in lost : forgottenUpTo' = Stamped(tags)[x]
    BY <1>1 DEF FloorRaised
  <2> QED
    BY <1>0, <2>2 DEF Types
<1>4. \A x \in Tags : Stamped(tags)[x] > ticket => stamps'[x] > ticket \/ forgottenUpTo' > ticket
  <2> SUFFICES ASSUME NEW x \in Tags, Stamped(tags)[x] > ticket
               PROVE  stamps'[x] > ticket \/ forgottenUpTo' > ticket
    OBVIOUS
  <2>1. CASE x \in lost
    BY <1>0, <1>2, <1>3, <2>1
  <2>2. CASE x \notin lost
    BY <1>1, <2>2
  <2> QED
    BY <2>1, <2>2
<1>5. \A x \in Tags : x \in tags \/ stamps[x] > ticket => Stamped(tags)[x] > ticket
  BY DEF Stamped, Types, Tickets, NoTicket
<1> QED
  BY <1>2, <1>3, <1>4, <1>5 DEF Refuses, Types, Tickets, NoTicket

\* A purge removes what the index names, which is all that depends on its tags.
LEMMA FreshPurge ==
  ASSUME FreshInv, NEW w \in pending, PurgeAfterCommit(w)
  PROVE  FreshInv'
<1> DEFINE Covers(x, t) == t \in x.tags \/ GlobalTag \in x.tags
<1> USE DEF FreshInv
<1>1. /\ w.tags \in SUBSET Tags /\ Purge(w.tags)
      /\ pending' = pending \ {w} /\ UNCHANGED <<revision, writes, flights>>
      /\ purgedTo' = [t \in Tags |-> IF Covers(w, t) THEN revision[t] ELSE purgedTo[t]]
  BY DEF PurgeAfterCommit, Types, site
<1>2. \E lost \in SUBSET Tags :
        /\ stamps' = [x \in Tags |-> IF x \in lost THEN 0 ELSE Stamped(w.tags)[x]]
        /\ FloorRaised(lost, Stamped(w.tags))
  BY <1>1 DEF Purge
<1>3. Stamped(w.tags) \in [Tags -> Nat] /\ \A t \in Tags : Stamped(w.tags)[t] <= epoch + 1
  BY <1>1 DEF Stamped, Types, EpochsPast
<1>4. /\ entries' = [k \in Keys |-> IF k \in Purged(w.tags) THEN NoEntry ELSE entries[k]]
      /\ tagIndex' = Unindexed(Purged(w.tags))
      /\ epoch' = epoch + 1
  BY <1>1 DEF Purge, RemoveKeys
<1>5. forgottenUpTo' \in Nat /\ forgottenUpTo' <= epoch + 1
  BY <1>2, <1>3 DEF FloorRaised, Types, EpochsPast
<1>6. Types'
  BY <1>1, <1>2, <1>3, <1>4, <1>5 DEF Types
<1>7. EpochsPast'
  BY <1>2, <1>3, <1>4, <1>5, <1>6 DEF EpochsPast, Types
<1>8. PurgePending'
  <2> SUFFICES ASSUME NEW t \in Tags
               PROVE  /\ purgedTo'[t] <= revision'[t]
                      /\ purgedTo'[t] # revision'[t] => \E x \in pending' : Covers(x, t)
    BY DEF PurgePending
  <2>1. CASE Covers(w, t)
    BY <1>1, <2>1 DEF Types
  <2>2. CASE ~Covers(w, t)
    <3>1. purgedTo'[t] = purgedTo[t] /\ revision' = revision
      BY <1>1, <2>2
    <3> QED
      BY <1>1, <2>2, <3>1 DEF PurgePending
  <2> QED
    BY <2>1, <2>2
<1>9. EntriesPurged'
  <2> SUFFICES ASSUME NEW k \in Keys, entries'[k] # NoEntry
               PROVE  /\ \A t \in entries'[k].tags : <<t, k>> \in tagIndex'
                      /\ \A t \in Tags : entries'[k].content[t] > 0 =>
                           /\ t \in entries'[k].tags
                           /\ purgedTo'[t] <= entries'[k].content[t]
                           /\ entries'[k].content[t] <= revision'[t]
    BY DEF EntriesPurged
  <2>1. k \notin Purged(w.tags) /\ entries'[k] = entries[k] /\ entries[k] # NoEntry
    BY <1>4
  <2>2. \A t \in entries[k].tags : <<t, k>> \in tagIndex
    BY <2>1 DEF EntriesPurged
  <2>3. \A t \in entries[k].tags : <<t, k>> \in tagIndex'
    BY <1>4, <2>1, <2>2 DEF Unindexed
  <2>4. \A t \in entries[k].tags : ~Covers(w, t)
    BY <1>1, <2>1, <2>2 DEF Purged, Indexed
  <2>5. ASSUME NEW t \in Tags, entries[k].content[t] > 0
        PROVE  /\ t \in entries[k].tags
               /\ purgedTo'[t] <= entries[k].content[t]
               /\ entries[k].content[t] <= revision'[t]
    <3>1. t \in entries[k].tags /\ purgedTo[t] <= entries[k].content[t]
          /\ entries[k].content[t] <= revision[t]
      BY <2>1, <2>5 DEF EntriesPurged
    <3>2. purgedTo'[t] = purgedTo[t]
      BY <1>1, <2>4, <3>1
    <3> QED
      BY <1>1, <3>1, <3>2
  <2> QED
    BY <2>1, <2>3, <2>5
<1>10. FlightsRefused'
  <2> SUFFICES ASSUME NEW f \in flights
               PROVE  /\ f.ticket <= epoch'
                      /\ \A t \in Tags : f.seen[t] > 0 =>
                           /\ f.seen[t] <= revision'[t]
                           /\ f.ticket # NoTicket =>
                                purgedTo'[t] <= f.seen[t] \/ Refuses(t, f.ticket)'
    BY <1>1 DEF FlightsRefused
  <2>1. f.ticket \in Tickets /\ f.ticket <= epoch
    BY DEF Types, Flights, FlightsRefused
  <2>2. ASSUME NEW t \in Tags, f.seen[t] > 0
        PROVE  /\ f.seen[t] <= revision'[t]
               /\ f.ticket # NoTicket =>
                    purgedTo'[t] <= f.seen[t] \/ Refuses(t, f.ticket)'
    <3>1. /\ f.seen[t] <= revision[t]
          /\ f.ticket # NoTicket => purgedTo[t] <= f.seen[t] \/ Refuses(t, f.ticket)
      BY <2>2 DEF FlightsRefused
    <3>2. /\ Refuses(t, f.ticket) => Refuses(t, f.ticket)'
          /\ Covers(w, t) => Refuses(t, f.ticket)'
      BY <1>1, <2>1, PurgeRefuses
    <3>3. ~Covers(w, t) => purgedTo'[t] = purgedTo[t]
      BY <1>1
    <3> QED
      BY <1>1, <3>1, <3>2, <3>3
  <2> QED
    BY <1>4, <2>1, <2>2 DEF Types, Tickets, NoTicket
<1> QED
  BY <1>6, <1>7, <1>8, <1>9, <1>10

\* A render goes on: what it reads now is the present revision.
LEMMA FreshRead ==
  ASSUME FreshInv, NEW f \in flights, ReadPattern(f) \/ ReadPage(f) \/ ReadLinks(f)
  PROVE  FreshInv'
<1> USE DEF FreshInv
<1> DEFINE Step(pc, page, S) ==
      /\ flights' = (flights \ {f}) \cup
           {Flight(f.ticket, f.key, f.for, pc, page, Saw(f.seen, S))}
      /\ pc = "page" => f.pc = "pattern" /\ S = {GlobalTag}
      /\ pc = "links" => f.pc = "page" /\ page \in Pages /\ S = {page}
      /\ pc = "store" => f.pc = "links" /\ page = f.page /\ S \subseteq Links[page]
<1>1. UNCHANGED <<cacheVars, revision, pending, writes, purgedTo>>
  BY DEF ReadPattern, ReadPage, ReadLinks, Reads, site
<1>2. PICK pc \in {"page", "links", "store"}, page \in Pages \cup {NoPage}, S \in SUBSET Tags :
        Step(pc, page, S)
  <2>1. CASE ReadPattern(f)
    <3>1. Step("page", NoPage, {GlobalTag})
      BY <2>1 DEF ReadPattern, Reads
    <3> QED
      BY <3>1
  <2>2. CASE ReadPage(f)
    <3>1. PICK p \in Pages : Step("links", p, {p})
      BY <2>2 DEF ReadPage, Reads
    <3> QED
      BY <3>1
  <2>3. CASE ReadLinks(f)
    <3>1. Step("store", f.page, Links[f.page] \ {f.page})
      BY <2>3 DEF ReadLinks, Reads
    <3>2. f.page \in Pages
      BY <2>3 DEF ReadLinks, FlightsRefused
    <3> QED
      BY <3>1, <3>2
  <2> QED
    BY <2>1, <2>2, <2>3
<1> DEFINE g == Flight(f.ticket, f.key, f.for, pc, page, Saw(f.seen, S))
<1>3. f.seen \in [Tags -> Nat] /\ Saw(f.seen, S) \in [Tags -> Nat]
  BY DEF Types, Flights, Saw
<1>4. /\ g.ticket = f.ticket /\ g.pc = pc /\ g.page = page /\ g.seen = Saw(f.seen, S)
      /\ g \in Flights
  BY <1>3 DEF Flight, Types, Flights
<1> HIDE DEF g
<1>5. Types' /\ EpochsPast' /\ PurgePending' /\ EntriesPurged'
  BY <1>1, <1>2, <1>4 DEF Types, EpochsPast, PurgePending, EntriesPurged, cacheVars, stored,
                      epochs, g
<1>6. \A t \in Tags : g.seen[t] = IF t \in S THEN revision[t] ELSE f.seen[t]
  BY <1>4 DEF Saw
<1>7. FlightsRefused'
  <2>1. \A h \in flights' : h \in flights \/ h = g
    BY <1>2 DEF g
  <2>2. \A t \in Tags : Refuses(t, f.ticket)' = Refuses(t, f.ticket)
    BY <1>1 DEF Refuses, cacheVars, epochs
  <2>3. /\ g.pc = "page" => \A t \in Tags : g.seen[t] > 0 => t = GlobalTag
        /\ g.pc = "links" => \A t \in Tags : g.seen[t] > 0 => t \in {GlobalTag, g.page}
        /\ g.pc \in {"links", "store"} => g.page \in Pages
        /\ g.pc = "store" => \A t \in Tags : g.seen[t] > 0 => t \in DependsOn(g.page)
    BY <1>2, <1>4, <1>6 DEF FlightsRefused, Unread, DependsOn
  <2>4. \A t \in Tags : g.seen[t] > 0 =>
          /\ g.seen[t] <= revision[t]
          /\ g.ticket # NoTicket => purgedTo[t] <= g.seen[t] \/ Refuses(t, g.ticket)
    BY <1>4, <1>6 DEF FlightsRefused, PurgePending, Types
  <2>5. g.ticket <= epoch /\ g.pc \in {"page", "links", "store"}
    BY <1>2, <1>4 DEF FlightsRefused
  <2> QED
    BY <1>1, <2>1, <2>3, <2>4, <2>5 DEF FlightsRefused, Refuses, cacheVars, epochs
<1> QED
  BY <1>5, <1>7

\* What leaves the cache takes no index entry of what stays.
LEMMA FreshRemove ==
  ASSUME FreshInv, NEW K \in SUBSET Keys, RemoveKeys(K), UNCHANGED epochs,
         UNCHANGED <<revision, pending, writes, flights, purgedTo>>
  PROVE  FreshInv'
<1> USE DEF FreshInv
<1>1. /\ entries' = [k \in Keys |-> IF k \in K THEN NoEntry ELSE entries[k]]
      /\ tagIndex' = {p \in tagIndex : p[2] \notin K}
  BY DEF RemoveKeys, Unindexed
<1>2. Types' /\ EpochsPast' /\ PurgePending' /\ FlightsRefused'
  BY <1>1 DEF Types, EpochsPast, PurgePending, FlightsRefused, Refuses, epochs
<1>3. EntriesPurged'
  BY <1>1 DEF EntriesPurged
<1> QED
  BY <1>2, <1>3

\* A fill is stored only when nothing it depends on was purged since its ticket.
LEMMA FreshStore ==
  ASSUME FreshInv, NEW f \in flights, f.pc = "store", f.ticket # NoTicket,
         LET entry == [tags |-> DependsOn(f.page), content |-> f.seen]
         IN Accepted(entry.tags, f.ticket) /\ Store(f.key, entry),
         UNCHANGED <<revision, pending, writes, purgedTo>>
  PROVE  /\ entries' \in [Keys -> Entries \cup {NoEntry}]
         /\ EntriesPurged'
<1> DEFINE entry == [tags |-> DependsOn(f.page), content |-> f.seen]
<1> USE DEF FreshInv
<1>1. PICK leaving : 
        /\ entries' = [x \in Keys |-> IF x \in leaving THEN NoEntry
                                       ELSE IF x = f.key THEN entry ELSE entries[x]]
        /\ tagIndex' = {p \in Unindexed({f.key}) \cup (entry.tags \X {f.key}) :
                          p[2] \notin leaving}
  BY DEF Store
<1>2. Accepted(DependsOn(f.page), f.ticket)
  OBVIOUS
<1>3. f.page \in Pages /\ f.key \in Keys /\ f.seen \in [Tags -> Nat] /\ f.ticket \in Nat
  BY DEF FlightsRefused, Types, Flights, Tickets, NoTicket
<1>4. /\ entry.tags = DependsOn(f.page) /\ entry.content = f.seen
      /\ entry \in Entries
  BY <1>3 DEF Entries, DependsOn
<1>5. entries' \in [Keys -> Entries \cup {NoEntry}]
  BY <1>1, <1>4 DEF Types
<1>6. ASSUME NEW t \in Tags, f.seen[t] > 0
      PROVE  t \in entry.tags /\ purgedTo[t] <= f.seen[t] /\ f.seen[t] <= revision[t]
  <2>1. t \in DependsOn(f.page)
    BY <1>6 DEF FlightsRefused
  <2>2. ~Refuses(t, f.ticket)
    BY <1>2, <1>3, <2>1 DEF Accepted, Refuses, Types
  <2> QED
    BY <1>4, <1>6, <2>1, <2>2 DEF FlightsRefused
<1> HIDE DEF entry
<1>7. EntriesPurged'
  <2> SUFFICES ASSUME NEW k \in Keys, entries'[k] # NoEntry
               PROVE  /\ \A t \in entries'[k].tags : <<t, k>> \in tagIndex'
                      /\ \A t \in Tags : entries'[k].content[t] > 0 =>
                           /\ t \in entries'[k].tags
                           /\ purgedTo[t] <= entries'[k].content[t]
                           /\ entries'[k].content[t] <= revision[t]
    BY DEF EntriesPurged
  <2>1. k \notin leaving
    BY <1>1
  <2>2. CASE k = f.key
    BY <1>1, <1>4, <1>6, <2>1, <2>2
  <2>3. CASE k # f.key
    <3>1. entries'[k] = entries[k]
      BY <1>1, <2>1, <2>3
    <3>2. \A t \in entries[k].tags : <<t, k>> \in tagIndex
      BY <3>1 DEF EntriesPurged
    <3>3. \A t \in entries[k].tags : <<t, k>> \in tagIndex'
      BY <1>1, <2>1, <2>3, <3>2 DEF Unindexed
    <3> QED
      BY <3>1, <3>3 DEF EntriesPurged
  <2> QED
    BY <2>2, <2>3
<1> QED
  BY <1>5, <1>7

\* A fill stores what is fresh, or nothing, and its render goes on.
LEMMA FreshFill ==
  ASSUME FreshInv, NEW f \in flights, Fill(f)
  PROVE  FreshInv'
<1> DEFINE g == Flight(f.ticket, f.key, f.for, "land", f.page, f.seen)
<1> USE DEF FreshInv
<1>1. /\ f.pc = "store" /\ flights' = (flights \ {f}) \cup {g}
      /\ UNCHANGED <<revision, pending, writes, purgedTo>>
  BY DEF Fill, Reads, site
<1>2. UNCHANGED epochs
  BY DEF Fill, Set, Store, cacheVars
<1>3. entries' \in [Keys -> Entries \cup {NoEntry}] /\ EntriesPurged'
  <2>1. CASE UNCHANGED cacheVars
    BY <1>1, <2>1 DEF EntriesPurged, Types, cacheVars, stored
  <2>2. CASE ~UNCHANGED cacheVars
    <3>1. /\ f.ticket # NoTicket
          /\ Accepted(DependsOn(f.page), f.ticket)
          /\ Store(f.key, [tags |-> DependsOn(f.page), content |-> f.seen])
      BY <2>2 DEF Fill, Set
    <3> QED
      BY <1>1, <3>1, FreshStore
  <2> QED
    BY <2>1, <2>2
<1>4. /\ g.ticket = f.ticket /\ g.pc = "land" /\ g.page = f.page /\ g.seen = f.seen
      /\ g \in Flights
  BY DEF Flight, Types, Flights
<1> HIDE DEF g
<1>5. Types' /\ EpochsPast' /\ PurgePending'
  BY <1>1, <1>2, <1>3, <1>4 DEF Types, EpochsPast, PurgePending, epochs
<1>6. FlightsRefused'
  <2>1. \A h \in flights' : h \in flights \/ h = g
    BY <1>1
  <2> QED
    BY <1>1, <1>2, <1>4, <2>1 DEF FlightsRefused, Refuses, epochs
<1> QED
  BY <1>3, <1>5, <1>6

\* Visitors come, wait and go, and their renders with them.
LEMMA FreshVisit ==
  ASSUME FreshInv, VisitorsAsk,
         \/ \E v \in Visitors : Visit(v)
         \/ \E f \in flights : Land(f) \/ LandWithout(f)
  PROVE  FreshInv'
<1> USE DEF FreshInv
<1>1. ASSUME NEW v \in Visitors, NEW k \in Keys, Arrive(v, k)  PROVE FreshInv'
  BY <1>1 DEF Arrive, Types, EpochsPast, PurgePending, EntriesPurged, FlightsRefused, Refuses,
          cacheVars, stored, epochs, site
<1>2. ASSUME NEW v \in Visitors, Hit(v)  PROVE FreshInv'
  BY <1>2 DEF Hit, Touch, Types, EpochsPast, PurgePending, EntriesPurged, FlightsRefused,
          Refuses, epochs, site
<1>3. ASSUME NEW v \in Visitors, Miss(v)  PROVE FreshInv'
  <2>1. UNCHANGED <<revision, pending, writes, flights, purgedTo>>
    BY <1>3 DEF Miss, site
  <2>2. CASE UNCHANGED cacheVars
    BY <2>1, <2>2 DEF Types, EpochsPast, PurgePending, EntriesPurged, FlightsRefused, Refuses,
            cacheVars, stored, epochs
  <2>3. CASE Expire(visitor[v].key)
    <3>1. {visitor[v].key} \in SUBSET Keys
      BY <1>3 DEF Miss, VisitorsAsk
    <3> QED
      BY <2>1, <2>3, <3>1, FreshRemove DEF Expire
  <2> QED
    BY <1>3, <2>2, <2>3 DEF Miss
<1>4. ASSUME NEW v \in Visitors, Join(v)  PROVE FreshInv'
  <2> DEFINE g == Flight(visitor[v].ticket, visitor[v].key,
                         IF visitor[v].ticket = NoTicket THEN v ELSE "everyone",
                         "pattern", NoPage, Unread)
  <2>1. /\ flights' \subseteq flights \cup {g}
        /\ UNCHANGED <<cacheVars, revision, pending, writes, purgedTo>>
    BY <1>4 DEF Join, site
  <2>2. /\ g.seen = Unread /\ g.pc = "pattern" /\ g.ticket <= epoch /\ g \in Flights
        /\ \A t \in Tags : ~(g.seen[t] > 0)
    BY <1>4 DEF Join, Flight, Flights, VisitorsAsk, Requests, Unread
  <2> HIDE DEF g
  <2>3. Types'
    BY <2>1, <2>2 DEF Types, cacheVars, stored, epochs
  <2>4. FlightsRefused'
    BY <2>1, <2>2 DEF FlightsRefused, Refuses, cacheVars, epochs
  <2> QED
    BY <2>1, <2>3, <2>4 DEF EpochsPast, PurgePending, EntriesPurged, cacheVars, stored, epochs
<1>5. ASSUME NEW f \in flights, Land(f) \/ LandWithout(f)  PROVE FreshInv'
  <2>1. /\ flights' \subseteq flights
        /\ UNCHANGED <<cacheVars, revision, pending, writes, purgedTo>>
    BY <1>5 DEF Land, LandWithout, Lands, site
  <2> QED
    BY <2>1 DEF Types, EpochsPast, PurgePending, EntriesPurged, FlightsRefused, Refuses,
            cacheVars, stored, epochs
<1> QED
  BY <1>1, <1>2, <1>3, <1>4, <1>5 DEF Visit

\* With a process goes all it had cached, and every stamp it needed for it.
LEMMA FreshRestart == FreshInv /\ Restart => FreshInv'
  BY DEF FreshInv, Restart, Types, EpochsPast, PurgePending, EntriesPurged, FlightsRefused, site

\* Nobody asks for anything at first.
LEMMA AskInit == Init => VisitorsAsk
  BY DEF Init, CacheInit, VisitorsAsk, Idle, Request, Requests, Unread, Tickets, NoTicket

\* No step leaves a visitor waiting with a ticket or a purge still to come.
LEMMA AskNext == FreshInv /\ VisitorsAsk /\ [Next]_vars => VisitorsAsk'
<1> SUFFICES ASSUME FreshInv, VisitorsAsk, [Next]_vars  PROVE VisitorsAsk'
  OBVIOUS
<1> USE DEF FreshInv
<1>1. ASSUME UNCHANGED <<visitor, epoch, purgedTo>>  PROVE VisitorsAsk'
  BY <1>1 DEF VisitorsAsk
<1>2. ASSUME NEW v \in Visitors, NEW k \in Keys, Arrive(v, k)  PROVE VisitorsAsk'
  BY <1>2 DEF Arrive, VisitorsAsk, Request, Requests, Types, PurgePending, Tickets, NoTicket,
          cacheVars, epochs
<1>3. ASSUME NEW v \in Visitors, NEW pc \in {"join", "wait"}, Goes(v, pc),
             visitor[v].pc # "idle", UNCHANGED <<epoch, purgedTo>>
      PROVE  VisitorsAsk'
  BY <1>3 DEF Goes, VisitorsAsk, Request, Requests
<1>4. ASSUME NEW vs \in SUBSET Visitors, Answered(vs), UNCHANGED <<epoch, purgedTo>>
      PROVE  VisitorsAsk'
  BY <1>4 DEF Answered, VisitorsAsk, Idle, Request, Requests, Unread, Types, Tickets, NoTicket
<1>5. CASE \E w \in pending : PurgeAfterCommit(w)
  BY <1>5 DEF PurgeAfterCommit, Purge, VisitorsAsk, PurgePending, Types, Requests, Tickets, NoTicket
<1>6. CASE Restart
  BY <1>6 DEF Restart, VisitorsAsk, Idle, Request, Requests, Unread, Tickets, NoTicket
<1>7. CASE Write \/ RestateAddresses \/ UNCHANGED vars
  BY <1>1, <1>7 DEF RestateAddresses, Write, Publish, Unpublish, Rename, Trash, RewriteAddresses, Committed,
          vars, cacheVars, epochs
<1>8. CASE \E v \in Visitors : Visit(v)
  <2>1. PICK v \in Visitors : Visit(v)
    BY <1>8
  <2>2. CASE Hit(v)
    BY <1>4, <2>2 DEF Hit, Touch, epochs
  <2>3. CASE Miss(v)
    BY <1>3, <2>3 DEF Miss, Expire, cacheVars, epochs
  <2>4. CASE Join(v)
    BY <1>3, <2>4 DEF Join, cacheVars, epochs
  <2> QED
    BY <1>2, <2>1, <2>2, <2>3, <2>4 DEF Visit
<1>9. CASE \E f \in flights : Render(f)
  <2>1. PICK f \in flights : Render(f)
    BY <1>9
  <2>2. CASE ReadPattern(f) \/ ReadPage(f) \/ ReadLinks(f)
    BY <1>1, <2>2 DEF ReadPattern, ReadPage, ReadLinks, Reads, cacheVars, epochs
  <2>3. CASE Fill(f)
    BY <1>1, <2>3 DEF Fill, Reads, Set, Store, cacheVars, epochs
  <2>4. CASE Land(f) \/ LandWithout(f)
    BY <1>4, <2>4 DEF Land, LandWithout, Lands, Waiting, cacheVars, epochs
  <2> QED
    BY <2>1, <2>2, <2>3, <2>4 DEF Render
<1> QED
  BY <1>5, <1>6, <1>7, <1>8, <1>9 DEF Next

\* Every step keeps the inductive invariant.
LEMMA FreshNext == FreshInv /\ VisitorsAsk /\ [Next]_vars => FreshInv'
<1> SUFFICES ASSUME FreshInv, VisitorsAsk, [Next]_vars  PROVE FreshInv'
  OBVIOUS
<1>1. CASE Write
  <2>1. PICK changed \in SUBSET Tags, tags \in SUBSET Tags :
          Committed(changed, tags) /\ (changed \subseteq tags \/ GlobalTag \in tags)
    <3>1. \A p \in Pages : {p} \in SUBSET Tags /\ Subtree[p] \in SUBSET Tags
      OBVIOUS
    <3> QED
      BY <1>1, <3>1 DEF Write, Publish, Unpublish, Rename, Trash, RewriteAddresses, PurgedWith
  <2> QED
    BY <2>1, FreshCommit
<1>2. CASE \E w \in pending : PurgeAfterCommit(w)
  BY <1>2, FreshPurge
<1>3. CASE \E v \in Visitors : Visit(v)
  BY <1>3, FreshVisit
<1>4. CASE \E f \in flights : Render(f)
  BY <1>4, FreshRead, FreshFill, FreshVisit DEF Render
<1>5. CASE Restart
  BY <1>5, FreshRestart
<1>6. CASE RestateAddresses \/ UNCHANGED vars
  BY <1>6 DEF RestateAddresses, vars, FreshInv, Types, EpochsPast, PurgePending, EntriesPurged, FlightsRefused,
          Refuses, cacheVars, stored, epochs, site
<1> QED
  BY <1>1, <1>2, <1>3, <1>4, <1>5, <1>6 DEF Next

\* What is cached is stale only until the purge of the write that changed it,
\* whatever fills, evictions, forgotten stamps and restarts come between.
THEOREM CacheFreshness == Spec => []StaleOnlyBeforePurge
<1>1. Init => FreshInv /\ VisitorsAsk
  BY FreshInit, AskInit
<1>2. FreshInv /\ VisitorsAsk /\ [Next]_vars => (FreshInv /\ VisitorsAsk)'
  BY FreshNext, AskNext
<1>3. FreshInv => StaleOnlyBeforePurge
  <2> SUFFICES ASSUME FreshInv, NEW k \in Keys, entries[k] # NoEntry, NEW t \in Tags,
                      entries[k].content[t] > 0, entries[k].content[t] # revision[t]
               PROVE  \E w \in pending : t \in w.tags \/ GlobalTag \in w.tags
    BY DEF StaleOnlyBeforePurge
  <2>1. entries[k].content \in [Tags -> Nat]
    BY DEF FreshInv, Types, Entries
  <2>2. purgedTo[t] # revision[t]
    BY <2>1 DEF FreshInv, EntriesPurged, Types
  <2> QED
    BY <2>2 DEF FreshInv, PurgePending
<1> QED
  BY <1>1, <1>2, <1>3, PTL DEF Spec
-----------------------------------------------------------------------------
(* Nobody is answered with what was there before a purge that came before  *)
(* the request.  A purge makes a new epoch, so two that hold one ticket    *)
(* have asked since the same purges, and a render begun with that ticket   *)
(* has read everything after them.                                         *)

\* A render without a ticket is for one visitor, who waits for it; what a
\* render has read is as new as all who could join it ask for.
FlightsSince ==
  \A f \in flights, v \in Visitors :
    /\ f.for = v => /\ visitor[v].pc = "wait" /\ visitor[v].ticket = NoTicket
                    /\ f.ticket = NoTicket /\ f.key = visitor[v].key
    /\ (/\ visitor[v].pc # "idle"
        /\ f.for = v \/ (f.ticket = visitor[v].ticket /\ f.ticket # NoTicket)) =>
          FreshFor(v, f.seen)

SharedInv == FlightsSince /\ OneFlightEach

\* The inductive invariant of this section, with that of the last.
ServedInv == FreshInv /\ VisitorsAsk /\ SharedInv

\* A ticket of now is newer than what was read before the last purge.
LEMMA SharedArrive ==
  ASSUME ServedInv, NEW v \in Visitors, NEW k \in Keys, Arrive(v, k)
  PROVE  SharedInv'
<1> USE DEF ServedInv, SharedInv
<1>1. PICK ticket \in {epoch, NoTicket} :
        visitor' = [visitor EXCEPT ![v] =
          Request(IF ticket = NoTicket THEN "join" ELSE "get", k, ticket, purgedTo)]
  BY DEF Arrive
<1>2. visitor[v].pc = "idle" /\ flights' = flights
  BY DEF Arrive
<1>3. \A u \in Visitors : u # v => visitor'[u] = visitor[u]
  BY <1>1 DEF VisitorsAsk
<1>4. visitor'[v].ticket = ticket /\ visitor'[v].since = purgedTo
  BY <1>1 DEF VisitorsAsk, Request
<1>5. ASSUME NEW f \in flights, NEW u \in Visitors
      PROVE  /\ f.for = u => /\ visitor'[u].pc = "wait" /\ visitor'[u].ticket = NoTicket
                             /\ f.ticket = NoTicket /\ f.key = visitor'[u].key
             /\ (/\ visitor'[u].pc # "idle"
                 /\ f.for = u \/ (f.ticket = visitor'[u].ticket /\ f.ticket # NoTicket)) =>
                   FreshFor(u, f.seen)'
  <2>1. CASE u # v
    BY <1>3, <2>1 DEF FlightsSince, FreshFor
  <2>2. CASE u = v
    <3>1. f.for # v
      BY <1>2 DEF FlightsSince
    <3>2. ASSUME f.ticket = ticket, f.ticket # NoTicket, NEW t \in Tags, f.seen[t] > 0
          PROVE  f.seen[t] >= purgedTo[t]
      <4>1. f.ticket = epoch /\ ~Refuses(t, epoch)
        BY <3>2 DEF Refuses, FreshInv, EpochsPast, Types
      <4>2. f.seen[t] \in Nat /\ purgedTo[t] \in Nat
        BY DEF FreshInv, Types, Flights
      <4> QED
        BY <3>2, <4>1, <4>2 DEF FreshInv, FlightsRefused
    <3> QED
      BY <1>4, <2>2, <3>1, <3>2 DEF FreshFor
  <2> QED
    BY <2>1, <2>2
<1> QED
  BY <1>2, <1>5 DEF FlightsSince, OneFlightEach

\* Who waits for a render that is new has read nothing yet.
LEMMA SharedJoin ==
  ASSUME ServedInv, NEW v \in Visitors, Join(v)
  PROVE  SharedInv'
<1> USE DEF ServedInv, SharedInv
<1> DEFINE g == Flight(visitor[v].ticket, visitor[v].key,
                       IF visitor[v].ticket = NoTicket THEN v ELSE "everyone",
                       "pattern", NoPage, Unread)
<1>1. /\ visitor[v].pc = "join"
      /\ flights' = IF \E f \in flights : Shared(f, v) THEN flights ELSE flights \cup {g}
      /\ visitor' = [visitor EXCEPT ![v] =
           Request("wait", visitor[v].key, visitor[v].ticket, visitor[v].since)]
  BY DEF Join, Goes
<1>2. /\ g.ticket = visitor[v].ticket /\ g.key = visitor[v].key
      /\ g.for = IF visitor[v].ticket = NoTicket THEN v ELSE "everyone"
      /\ \A t \in Tags : g.seen[t] = 0
  BY DEF Flight, Unread
<1> HIDE DEF g
<1>3. \A u \in Visitors :
        /\ visitor'[u].key = visitor[u].key /\ visitor'[u].ticket = visitor[u].ticket
        /\ visitor'[u].since = visitor[u].since
        /\ visitor'[u].pc = IF u = v THEN "wait" ELSE visitor[u].pc
  BY <1>1 DEF VisitorsAsk, Request
<1>4. \A f \in flights, u \in Visitors : f.for = u => u # v
  BY <1>1 DEF FlightsSince
<1>5. \A t \in Tags : ~(g.seen[t] > 0)
  BY <1>2
<1>6. FlightsSince'
  BY <1>1, <1>2, <1>3, <1>4, <1>5 DEF FlightsSince, FreshFor
<1>7. OneFlightEach'
  BY <1>1, <1>2, <1>4 DEF OneFlightEach, Shared
<1> QED
  BY <1>6, <1>7

\* What a render reads now is newer than every purge that has been.
LEMMA SharedRead ==
  ASSUME ServedInv, NEW f \in flights, ReadPattern(f) \/ ReadPage(f) \/ ReadLinks(f) \/ Fill(f)
  PROVE  SharedInv'
<1> USE DEF ServedInv, SharedInv
<1> DEFINE ReadsOn(pc, page, seen) ==
      /\ flights' = (flights \ {f}) \cup {Flight(f.ticket, f.key, f.for, pc, page, seen)}
      /\ \A t \in Tags : seen[t] = f.seen[t] \/ seen[t] = revision[t]
<1>1. PICK pc, page, seen : ReadsOn(pc, page, seen)
  <2>1. CASE ReadPattern(f)
    <3>1. ReadsOn("page", NoPage, Saw(f.seen, {GlobalTag}))
      BY <2>1 DEF ReadPattern, Reads, Saw
    <3> HIDE DEF ReadsOn
    <3> QED
      BY <3>1
  <2>2. CASE ReadPage(f)
    <3>1. PICK p \in Pages : ReadsOn("links", p, Saw(f.seen, {p}))
      BY <2>2 DEF ReadPage, Reads, Saw
    <3> HIDE DEF ReadsOn
    <3> QED
      BY <3>1
  <2>3. CASE ReadLinks(f)
    <3>1. ReadsOn("store", f.page, Saw(f.seen, Links[f.page] \ {f.page}))
      BY <2>3 DEF ReadLinks, Reads, Saw
    <3> HIDE DEF ReadsOn
    <3> QED
      BY <3>1
  <2>4. CASE Fill(f)
    <3>1. ReadsOn("land", f.page, f.seen)
      BY <2>4 DEF Fill, Reads
    <3> HIDE DEF ReadsOn
    <3> QED
      BY <3>1
  <2> QED
    BY <2>1, <2>2, <2>3, <2>4
<1>2. UNCHANGED visitor
  BY DEF ReadPattern, ReadPage, ReadLinks, Fill, Reads
<1> DEFINE g == Flight(f.ticket, f.key, f.for, pc, page, seen)
<1>3. g.ticket = f.ticket /\ g.key = f.key /\ g.for = f.for /\ g.seen = seen
  BY DEF Flight
<1>4. \A h \in flights' : h = g \/ (h \in flights /\ h # f)
  BY <1>1
<1> HIDE DEF g
<1>5. \A t \in Tags : seen[t] = f.seen[t] \/ seen[t] = revision[t]
  BY <1>1
<1>6. ASSUME NEW v \in Visitors, visitor[v].pc # "idle", FreshFor(v, f.seen)
      PROVE  FreshFor(v, g.seen)
  <2>1. \A t \in Tags : visitor[v].since[t] \in Nat /\ purgedTo[t] \in Nat /\ revision[t] \in Nat
    BY DEF VisitorsAsk, Requests, FreshInv, Types
  <2>2. \A t \in Tags : visitor[v].since[t] <= revision[t]
    BY <1>6, <2>1 DEF VisitorsAsk, FreshInv, PurgePending
  <2> QED
    BY <1>3, <1>5, <1>6, <2>1, <2>2 DEF FreshFor
<1>7. FlightsSince'
  BY <1>2, <1>3, <1>4, <1>6 DEF FlightsSince, FreshFor
<1>8. OneFlightEach'
  BY <1>3, <1>4 DEF OneFlightEach
<1> QED
  BY <1>7, <1>8

\* Who is answered waits no more, and no render is left that was his.
LEMMA SharedAnswer ==
  ASSUME ServedInv, NEW vs \in SUBSET Visitors, Answered(vs), flights' \subseteq flights,
         \A f \in flights' : f.for \notin vs
  PROVE  SharedInv'
<1> USE DEF ServedInv, SharedInv
<1>1. \A v \in Visitors : visitor'[v] = IF v \in vs THEN Idle ELSE visitor[v]
  BY DEF Answered
<1>2. Idle.pc = "idle"
  BY DEF Idle, Request
<1>3. FlightsSince'
  BY <1>1, <1>2 DEF FlightsSince, FreshFor
<1> QED
  BY <1>3 DEF OneFlightEach

\* Every step keeps it.
LEMMA SharedNext == ServedInv /\ [Next]_vars => SharedInv'
<1> SUFFICES ASSUME ServedInv, [Next]_vars  PROVE SharedInv'
  OBVIOUS
<1> USE DEF ServedInv, SharedInv
<1>1. ASSUME UNCHANGED <<visitor, flights>>  PROVE SharedInv'
  BY <1>1 DEF FlightsSince, OneFlightEach, FreshFor
<1>2. CASE Write \/ RestateAddresses \/ UNCHANGED vars
  BY <1>1, <1>2 DEF RestateAddresses, Write, Publish, Unpublish, Rename, Trash, RewriteAddresses,
          Committed, vars
<1>3. CASE \E w \in pending : PurgeAfterCommit(w)
  BY <1>1, <1>3 DEF PurgeAfterCommit
<1>4. CASE Restart
  BY <1>4 DEF Restart, FlightsSince, OneFlightEach
<1>5. CASE \E v \in Visitors : Visit(v)
  <2>1. PICK v \in Visitors : Visit(v)
    BY <1>5
  <2>2. CASE \E k \in Keys : Arrive(v, k)
    BY <2>2, SharedArrive
  <2>3. CASE Hit(v)
    BY <2>3, SharedAnswer DEF Hit, FlightsSince
  <2>4. CASE Miss(v)
    <3>1. visitor[v].pc = "get" /\ Goes(v, "join") /\ UNCHANGED flights
      BY <2>4 DEF Miss
    <3>2. \A u \in Visitors :
            /\ visitor'[u].key = visitor[u].key /\ visitor'[u].ticket = visitor[u].ticket
            /\ visitor'[u].since = visitor[u].since
            /\ visitor'[u].pc = IF u = v THEN "join" ELSE visitor[u].pc
      BY <3>1 DEF Goes, VisitorsAsk, Request
    <3> QED
      BY <3>1, <3>2 DEF FlightsSince, OneFlightEach, FreshFor
  <2>5. CASE Join(v)
    BY <2>5, SharedJoin
  <2> QED
    BY <2>1, <2>2, <2>3, <2>4, <2>5 DEF Visit
<1>6. CASE \E f \in flights : Render(f)
  <2>1. PICK f \in flights : Render(f)
    BY <1>6
  <2>2. CASE Land(f) \/ LandWithout(f)
    <3>1. flights' = flights \ {f} /\ Answered(Waiting(f))
      BY <2>2 DEF Land, LandWithout, Lands
    <3>2. \A g \in flights' : g.for \notin Waiting(f)
      BY <3>1 DEF Waiting, Shared, FlightsSince, OneFlightEach
    <3> QED
      BY <3>1, <3>2, SharedAnswer DEF Waiting
  <2> QED
    BY <2>1, <2>2, SharedRead DEF Render
<1> QED
  BY <1>2, <1>3, <1>4, <1>5, <1>6 DEF Next

\* The inductive invariant of the cache, its visitors and its renders.
LEMMA ServedAlways == Spec => []ServedInv
<1>1. Init => ServedInv
  BY FreshInit, AskInit DEF Init, ServedInv, SharedInv, FlightsSince, OneFlightEach
<1>2. ServedInv /\ [Next]_vars => ServedInv'
  BY FreshNext, AskNext, SharedNext DEF ServedInv
<1> QED
  BY <1>1, <1>2, PTL DEF Spec

\* Whoever asks after a purge is not answered with what was there before it,
\* neither from the cache nor from a render that others have begun (handler.ts,
\* whose flight key holds the ticket).
THEOREM NoAnswerFromBefore == Spec => []AnswersAreFresh
<1>1. ServedInv => AnswersAreFresh
  <2> SUFFICES ASSUME ServedInv, NEW v \in Visitors
               PROVE  /\ visitor[v].pc = "get" /\ entries[visitor[v].key] # NoEntry =>
                           FreshFor(v, entries[visitor[v].key].content)
                      /\ \A f \in flights : v \in Waiting(f) => FreshFor(v, f.seen)
    BY DEF AnswersAreFresh
  <2>1. ASSUME visitor[v].pc = "get", entries[visitor[v].key] # NoEntry
        PROVE  FreshFor(v, entries[visitor[v].key].content)
    <3> DEFINE e == entries[visitor[v].key]
    <3>1. visitor[v].key \in Keys /\ visitor[v].since \in [Tags -> Nat]
      BY <2>1 DEF ServedInv, VisitorsAsk, Requests
    <3>2. e.content \in [Tags -> Nat] /\ purgedTo \in [Tags -> Nat]
      BY <2>1, <3>1 DEF ServedInv, FreshInv, Types, Entries
    <3>3. \A t \in Tags : e.content[t] > 0 =>
            visitor[v].since[t] <= purgedTo[t] /\ purgedTo[t] <= e.content[t]
      BY <2>1, <3>1 DEF ServedInv, VisitorsAsk, FreshInv, EntriesPurged
    <3> HIDE DEF e
    <3>4. FreshFor(v, e.content)
      BY <3>1, <3>2, <3>3 DEF FreshFor
    <3> QED
      BY <3>4 DEF e
  <2>2. \A f \in flights : v \in Waiting(f) => FreshFor(v, f.seen)
    BY DEF ServedInv, SharedInv, FlightsSince, Waiting, Shared
  <2> QED
    BY <2>1, <2>2
<1> QED
  BY <1>1, ServedAlways, PTL

\* Concurrent requests for one page in one epoch share one render
\* (single-flight.ts).
THEOREM RendersShared == Spec => []OneFlightEach
<1>1. ServedInv => OneFlightEach
  BY DEF ServedInv, SharedInv
<1> QED
  BY <1>1, ServedAlways, PTL

-----------------------------------------------------------------------------
(* The two folds over data: what entries weigh together, and the order in  *)
(* which they leave.                                                       *)

One(s) == CHOOSE x \in s : TRUE
SumOf(g, s) == IF s = {} THEN 0 ELSE Bytes[One(s)] + g[s \ {One(s)}]
Summing(g, S) == g = [s \in SUBSET S |-> SumOf(g, s)]

LEMMA TotalIsChosen ==
  ASSUME NEW S
  PROVE  TotalOf(S) = (CHOOSE g : Summing(g, S))[S]
BY Zenon DEF TotalOf, FoldFunctionOnSet, MapThenFoldSet, Summing, SumOf, One

\* Among subsets of a finite set one has no other of them below it.
LEMMA Descent ==
  ASSUME NEW S, IsFiniteSet(S), NEW Bad \in SUBSET (SUBSET S), Bad # {}
  PROVE  \E s \in Bad : \A t \in Bad : ~ (t \subseteq s /\ t # s)
<1>1. Bad \subseteq FiniteSubsetsOf(S)
  BY FS_Subset DEF FiniteSubsetsOf
<1>2. PICK s \in Bad : \A t \in Bad : ~ (<<t, s>> \in StrictSubsetOrdering(S))
  BY <1>1, FS_StrictSubsetOrderingWellFounded, WFMin
<1> QED
  BY <1>1, <1>2 DEF StrictSubsetOrdering

\* Among natural numbers there is a least.
LEMMA Least ==
  ASSUME NEW Bad \in SUBSET Nat, Bad # {}
  PROVE  \E n \in Bad : \A m \in Bad : n <= m
<1> DEFINE Less == {ss \in Nat \X Nat : ss[1] < ss[2]}
<1>1. IsWellFoundedOn(Less, Nat)
  BY NatLessThanWellFounded, Zenon DEF OpToRel
<1>2. \A m, n \in Nat : <<m, n>> \in Less <=> m < n
  OBVIOUS
<1> HIDE DEF Less
<1>3. PICK n \in Bad : \A m \in Bad : ~ (<<m, n>> \in Less)
  BY <1>1, WFMin
<1>4. ASSUME NEW m \in Bad PROVE n <= m
  <2>1. m \in Nat /\ n \in Nat /\ ~ (m < n)
    BY <1>2, <1>3
  <2> QED
    BY <2>1
<1> QED
  BY <1>4, Zenon

\* What the sum runs over is finite, so there is one sum and it is that of any
\* element and the rest.
LEMMA SummingsAgree ==
  ASSUME NEW S, IsFiniteSet(S), NEW T, NEW f, NEW g, Summing(f, S), Summing(g, T),
         NEW s \in SUBSET S, s \in SUBSET T
  PROVE  f[s] = g[s]
<1> DEFINE Bad == {t \in SUBSET s : f[t] # g[t]}
<1>1. SUFFICES ASSUME Bad # {} PROVE FALSE
  BY DEF Bad
<1>2. IsFiniteSet(s)
  BY FS_Subset
<1>3. PICK b \in Bad : \A t \in Bad : ~ (t \subseteq b /\ t # b)
  <2> HIDE DEF Bad
  <2>1. Bad \in SUBSET (SUBSET s)
    BY DEF Bad
  <2> QED
    BY <1>1, <1>2, <2>1, Descent
<1>4. f[b] = SumOf(f, b) /\ g[b] = SumOf(g, b) /\ f[b] # g[b] /\ b \subseteq s
  BY DEF Summing
<1>5. b # {}
  BY <1>4 DEF SumOf
<1>6. One(b) \in b
  BY <1>5 DEF One
<1>7. b \ {One(b)} \in SUBSET s /\ b \ {One(b)} \notin Bad
  BY <1>3, <1>4, <1>6
<1> QED
  BY <1>4, <1>5, <1>7 DEF SumOf

LEMMA SummingExists ==
  ASSUME NEW S, IsFiniteSet(S)
  PROVE  \E g : Summing(g, S)
<1> DEFINE Bad == {t \in SUBSET S : ~ \E g : Summing(g, t)}
<1>1. SUFFICES ASSUME Bad # {} PROVE FALSE
  BY DEF Bad
<1>2. PICK b \in Bad : \A t \in Bad : ~ (t \subseteq b /\ t # b)
  <2> HIDE DEF Bad
  <2>1. Bad \in SUBSET (SUBSET S)
    BY DEF Bad
  <2> QED
    BY <1>1, <2>1, Descent
<1> DEFINE gOf(t) == CHOOSE g : Summing(g, t)
           Of(t) == IF t = b THEN SumOf([u \in SUBSET b |-> gOf(u)[u]], b) ELSE gOf(t)[t]
           h == [t \in SUBSET b |-> Of(t)]
<1>3. \A t \in SUBSET b : t # b => Summing(gOf(t), t) /\ IsFiniteSet(t)
  <2> SUFFICES ASSUME NEW t \in SUBSET b, t # b PROVE Summing(gOf(t), t) /\ IsFiniteSet(t)
    OBVIOUS
  <2>1. t \in SUBSET S /\ t \notin Bad
    BY <1>2
  <2>2. \E g : Summing(g, t)
    BY <2>1
  <2> QED
    BY <2>1, <2>2, FS_Subset
<1>4. \A t \in SUBSET b : h[t] = SumOf(h, t)
  <2> SUFFICES ASSUME NEW t \in SUBSET b PROVE h[t] = SumOf(h, t)
    OBVIOUS
  <2> DEFINE u == t \ {One(t)}
  <2>1. t # {} => u \in SUBSET b /\ u \subseteq t /\ u # t /\ u # b
    <3>1. t # {} => One(t) \in t
      BY DEF One
    <3> QED
      BY <3>1
  <2>2. CASE t = b
    <3>1. t # {} => h[u] = gOf(u)[u]
      BY <2>1
    <3>2. h[t] = SumOf([x \in SUBSET b |-> gOf(x)[x]], b)
      BY <2>2
    <3> HIDE DEF gOf
    <3>3. t # {} => [x \in SUBSET b |-> gOf(x)[x]][u] = h[u]
      BY <2>1, <3>1
    <3> HIDE DEF h
    <3> QED
      BY <2>2, <3>2, <3>3 DEF SumOf
  <2>3. CASE t # b
    <3>1. h[t] = gOf(t)[t] /\ Summing(gOf(t), t) /\ IsFiniteSet(t)
      BY <1>3, <2>3
    <3>2. gOf(t)[t] = SumOf(gOf(t), t)
      BY <3>1 DEF Summing
    <3>3. CASE t # {}
      <4>1. h[u] = gOf(u)[u] /\ Summing(gOf(u), u) /\ IsFiniteSet(u)
        BY <1>3, <2>1, <3>3
      <4> HIDE DEF gOf, h
      <4>2. gOf(u)[u] = gOf(t)[u]
        BY <2>1, <3>1, <3>3, <4>1, SummingsAgree
      <4> QED
        BY <3>1, <3>2, <3>3, <4>1, <4>2 DEF SumOf
    <3> QED
      BY <3>1, <3>2, <3>3 DEF SumOf
  <2> QED
    BY <2>2, <2>3
<1>5. Summing(h, b)
  <2>1. h = [t \in SUBSET b |-> h[t]]
    OBVIOUS
  <2> HIDE DEF h
  <2> QED
    BY <1>4, <2>1 DEF Summing
<1> QED
  BY <1>2, <1>5

LEMMA TotalOfOne ==
  ASSUME NEW S, IsFiniteSet(S)
  PROVE  TotalOf(S) = IF S = {} THEN 0 ELSE Bytes[One(S)] + TotalOf(S \ {One(S)})
<1> DEFINE f(T) == CHOOSE g : Summing(g, T)
<1>1. \A T \in SUBSET S : IsFiniteSet(T) /\ Summing(f(T), T) /\ TotalOf(T) = f(T)[T]
  <2> SUFFICES ASSUME NEW T \in SUBSET S
               PROVE  IsFiniteSet(T) /\ Summing(f(T), T) /\ TotalOf(T) = f(T)[T]
    OBVIOUS
  <2>1. IsFiniteSet(T)
    BY FS_Subset
  <2>2. \E g : Summing(g, T)
    BY <2>1, SummingExists
  <2> QED
    BY <2>1, <2>2, TotalIsChosen
<1> HIDE DEF f
<1>2. TotalOf(S) = SumOf(f(S), S)
  <2>1. S \in SUBSET S
    OBVIOUS
  <2>2. Summing(f(S), S) /\ TotalOf(S) = f(S)[S]
    BY <1>1, <2>1
  <2>3. f(S)[S] = SumOf(f(S), S)
    BY <2>1, <2>2, Zenon DEF Summing
  <2> QED
    BY <2>2, <2>3
<1>3. ASSUME S # {} PROVE f(S)[S \ {One(S)}] = TotalOf(S \ {One(S)})
  BY <1>1, SummingsAgree
<1> QED
  BY <1>2, <1>3 DEF SumOf


LEMMA TotalOfNat ==
  ASSUME NEW S \in SUBSET Keys, IsFiniteSet(S)
  PROVE  TotalOf(S) \in Nat
<1> DEFINE Bad == {t \in SUBSET S : TotalOf(t) \notin Nat}
<1>1. SUFFICES ASSUME Bad # {} PROVE FALSE
  BY DEF Bad
<1>2. PICK b \in Bad : \A t \in Bad : ~ (t \subseteq b /\ t # b)
  <2> HIDE DEF Bad
  <2>1. Bad \in SUBSET (SUBSET S)
    BY DEF Bad
  <2> QED
    BY <1>1, <2>1, Descent
<1>3. IsFiniteSet(b) /\ b \in SUBSET Keys
  BY FS_Subset
<1>4. TotalOf(b) = IF b = {} THEN 0 ELSE Bytes[One(b)] + TotalOf(b \ {One(b)})
  BY <1>3, TotalOfOne
<1>5. b # {} /\ One(b) \in b
  BY <1>4 DEF One
<1>6. TotalOf(b \ {One(b)}) \in Nat
  BY <1>2, <1>5
<1>7. Bytes[One(b)] \in Nat
  BY <1>3, <1>5
<1> QED
  BY <1>4, <1>5, <1>6, <1>7

LEMMA TotalOfEmpty == TotalOf({}) = 0
BY TotalOfOne, FS_EmptySet

\* Whatever the fold begins with, an element counts once.
LEMMA TotalOfAny ==
  ASSUME NEW S \in SUBSET Keys, IsFiniteSet(S), NEW x \in S
  PROVE  TotalOf(S) = Bytes[x] + TotalOf(S \ {x})
<1> DEFINE Bad == {t \in SUBSET S : \E y \in t : TotalOf(t) # Bytes[y] + TotalOf(t \ {y})}
<1>1. SUFFICES ASSUME Bad # {} PROVE FALSE
  BY DEF Bad
<1>2. PICK b \in Bad : \A t \in Bad : ~ (t \subseteq b /\ t # b)
  <2> HIDE DEF Bad
  <2>1. Bad \in SUBSET (SUBSET S)
    BY DEF Bad
  <2> QED
    BY <1>1, <2>1, Descent
<1>3. PICK y \in b : TotalOf(b) # Bytes[y] + TotalOf(b \ {y})
  OBVIOUS
<1> DEFINE z == One(b)
           c == b \ {z}
           d == b \ {y}
           e == b \ {y, z}
<1>4. z \in b
  BY <1>3 DEF One
<1>5. /\ IsFiniteSet(b) /\ IsFiniteSet(c) /\ IsFiniteSet(d) /\ IsFiniteSet(e)
      /\ b \subseteq S /\ y \in Keys /\ z \in Keys
  BY <1>4, FS_Subset
<1>6. TotalOf(b) = Bytes[z] + TotalOf(c)
  BY <1>4, <1>5, TotalOfOne
<1>7. y # z
  BY <1>3, <1>6
<1>8. c \notin Bad /\ d \notin Bad /\ c \in SUBSET S /\ d \in SUBSET S /\ y \in c /\ z \in d
      /\ c \ {y} = e /\ d \ {z} = e
  <2> HIDE DEF Bad
  <2>1. c # b /\ d # b /\ c \subseteq b /\ d \subseteq b
    BY <1>4
  <2> QED
    BY <1>2, <1>4, <1>5, <1>7, <2>1
<1>9. TotalOf(c) = Bytes[y] + TotalOf(e) /\ TotalOf(d) = Bytes[z] + TotalOf(e)
  <2> HIDE DEF c, d, e, z
  <2> QED
    BY <1>8
<1>10. TotalOf(e) \in Nat /\ Bytes[y] \in Nat /\ Bytes[z] \in Nat
  BY <1>5, TotalOfNat
<1> HIDE DEF c, e, z, Bad
<1> QED
  BY <1>3, <1>6, <1>9, <1>10

LEMMA TotalOfUnion ==
  ASSUME NEW S \in SUBSET Keys, IsFiniteSet(S), NEW T \in SUBSET Keys, IsFiniteSet(T),
         S \cap T = {}
  PROVE  TotalOf(S \cup T) = TotalOf(S) + TotalOf(T)
<1> DEFINE Bad == {t \in SUBSET T : TotalOf(S \cup t) # TotalOf(S) + TotalOf(t)}
<1>1. SUFFICES ASSUME Bad # {} PROVE FALSE
  BY DEF Bad
<1>2. PICK b \in Bad : \A t \in Bad : ~ (t \subseteq b /\ t # b)
  <2> HIDE DEF Bad
  <2>1. Bad \in SUBSET (SUBSET T)
    BY DEF Bad
  <2> QED
    BY <1>1, <2>1, Descent
<1>3. TotalOf(S \cup b) # TotalOf(S) + TotalOf(b) /\ b \subseteq T /\ IsFiniteSet(b)
  BY FS_Subset
<1>4. b # {}
  <2>1. SUFFICES ASSUME b = {} PROVE FALSE
    OBVIOUS
  <2>2. S \cup {} = S
    OBVIOUS
  <2> QED
    BY <1>3, <2>1, <2>2, TotalOfEmpty, TotalOfNat
<1>5. PICK x \in b : TRUE
  BY <1>4
<1> DEFINE c == b \ {x}
<1>6. /\ c \notin Bad /\ c \in SUBSET T /\ IsFiniteSet(c) /\ IsFiniteSet(S \cup b)
      /\ (S \cup b) \ {x} = S \cup c /\ x \in Keys /\ x \in S \cup b /\ S \cup b \in SUBSET Keys
      /\ b \in SUBSET Keys /\ c \in SUBSET Keys /\ IsFiniteSet(S \cup c)
  <2>1. IsFiniteSet(S \cup b)
    BY <1>3, FS_Union
  <2>2. IsFiniteSet(c) /\ IsFiniteSet(S \cup c)
    BY <1>3, FS_Subset, FS_Union
  <2> QED
    BY <1>2, <1>3, <1>5, <2>1, <2>2
<1>7. TotalOf(S \cup c) = TotalOf(S) + TotalOf(c)
  BY <1>6
<1> HIDE DEF Bad
<1>8. TotalOf(S \cup b) = Bytes[x] + TotalOf(S \cup c)
  BY <1>6, TotalOfAny
<1>9. TotalOf(b) = Bytes[x] + TotalOf(c)
  BY <1>3, <1>6, TotalOfAny
<1>10. TotalOf(S) \in Nat /\ TotalOf(c) \in Nat /\ Bytes[x] \in Nat
  BY <1>6, TotalOfNat
<1> HIDE DEF c
<1> QED
  BY <1>3, <1>7, <1>8, <1>9, <1>10

LEMMA TotalOfLess ==
  ASSUME NEW S \in SUBSET Keys, IsFiniteSet(S), NEW T
  PROVE  TotalOf(S \ T) = TotalOf(S) - TotalOf(T \cap S) /\ TotalOf(T \cap S) \in Nat
<1>1. IsFiniteSet(S \ T) /\ IsFiniteSet(T \cap S) /\ (S \ T) \cap (T \cap S) = {}
  BY FS_Subset
<1>2. (S \ T) \cup (T \cap S) = S
  OBVIOUS
<1>3. TotalOf(S) = TotalOf(S \ T) + TotalOf(T \cap S)
  BY <1>1, <1>2, TotalOfUnion
<1> QED
  BY <1>1, <1>3, TotalOfNat


-----------------------------------------------------------------------------
KeptOf(g, order, K, n) ==
  IF n = 0 THEN <<>> ELSE IF order[n] \in K THEN g[n - 1] ELSE Append(g[n - 1], order[n])
Keeping(g, order, K, m) == g = [n \in 0..m |-> KeptOf(g, order, K, n)]
Firsts(order, n) == {order[i] : i \in 1..n}
\* Distinct keys, of these.
Lists(s, S) == s \in Seq(Keys) /\ IsInjective(s) /\ ToSet(s) = S

LEMMA OrderIsChosen ==
  ASSUME NEW order, NEW K
  PROVE  InOrder(order, K) = (CHOOSE g : Keeping(g, order, K, Len(order)))[Len(order)]
BY DEF InOrder, Keeping, KeptOf

LEMMA KeepingExists ==
  ASSUME NEW order, NEW K, NEW m \in Nat
  PROVE  \E g : Keeping(g, order, K, m)
<1> DEFINE Bad == {n \in Nat : ~ \E g : Keeping(g, order, K, n)}
<1>1. SUFFICES ASSUME Bad # {} PROVE FALSE
  BY DEF Bad
<1>2. PICK b \in Bad : \A n \in Bad : b <= n
  <2> HIDE DEF Bad
  <2>1. Bad \in SUBSET Nat
    BY DEF Bad
  <2> QED
    BY <1>1, <2>1, Least
<1>3. b # 0
  <2>1. SUFFICES ASSUME b = 0 PROVE FALSE
    OBVIOUS
  <2>2. Keeping([n \in 0..0 |-> <<>>], order, K, 0)
    BY DEF Keeping, KeptOf
  <2> QED
    BY <2>1, <2>2
<1>4. b - 1 \in Nat /\ b - 1 \notin Bad
  BY <1>2, <1>3
<1>5. PICK g : Keeping(g, order, K, b - 1)
  BY <1>4
<1> DEFINE h == [n \in 0..b |-> IF n = b THEN KeptOf(g, order, K, b) ELSE g[n]]
<1>6. \A n \in 0..b : h[n] = KeptOf(h, order, K, n)
  <2> SUFFICES ASSUME NEW n \in 0..b PROVE h[n] = KeptOf(h, order, K, n)
    OBVIOUS
  <2>1. n # 0 => n - 1 \in 0..(b - 1) /\ h[n - 1] = g[n - 1]
    BY <1>4
  <2>2. CASE n = b
    BY <2>1, <2>2, <1>3 DEF KeptOf
  <2>3. CASE n # b
    <3>1. h[n] = g[n] /\ n \in 0..(b - 1)
      BY <2>3
    <3>2. g[n] = KeptOf(g, order, K, n)
      BY <1>5, <3>1 DEF Keeping
    <3> HIDE DEF h
    <3> QED
      BY <2>1, <3>1, <3>2 DEF KeptOf
  <2> QED
    BY <2>2, <2>3
<1>7. Keeping(h, order, K, b)
  <2>1. h = [n \in 0..b |-> h[n]]
    OBVIOUS
  <2> HIDE DEF h
  <2> QED
    BY <1>6, <2>1 DEF Keeping
<1> QED
  BY <1>2, <1>7

LEMMA AppendSet ==
  ASSUME NEW s \in Seq(Keys), NEW k \in Keys
  PROVE  /\ ToSet(Append(s, k)) = ToSet(s) \cup {k}
         /\ \A i \in DOMAIN Append(s, k) :
              (i \in DOMAIN s /\ Append(s, k)[i] = s[i]) \/ (i = Len(s) + 1 /\ Append(s, k)[i] = k)
<1> DEFINE t == Append(s, k)
           n == Len(s) + 1
<1>1. /\ t \in Seq(Keys) /\ DOMAIN t = 1..n /\ Len(s) \in Nat /\ DOMAIN s = 1..Len(s)
      /\ (\A i \in 1..Len(s) : t[i] = s[i]) /\ t[n] = k
  BY AppendProperties
<1>2. \A i : i \in 1..n <=> (i \in 1..Len(s) \/ i = n)
  BY <1>1
<1> HIDE DEF t, n
<1>3. ToSet(t) = ToSet(s) \cup {k}
  <2>1. ToSet(t) = {t[i] : i \in 1..n} /\ ToSet(s) = {s[i] : i \in 1..Len(s)}
    BY <1>1, Zenon DEF ToSet
  <2>2. ASSUME NEW x PROVE x \in ToSet(t) <=> (x \in ToSet(s) \/ x = k)
    <3>1. ASSUME NEW i \in 1..n, x = t[i] PROVE x \in ToSet(s) \/ x = k
      BY <1>1, <1>2, <2>1, <3>1
    <3>2. ASSUME NEW i \in 1..Len(s), x = s[i] PROVE x \in ToSet(t)
      BY <1>1, <1>2, <2>1, <3>2
    <3>3. k \in ToSet(t)
      BY <1>1, <1>2, <2>1
    <3> QED
      BY <2>1, <3>1, <3>2, <3>3
  <2> QED
    BY <2>2
<1> QED
  BY <1>1, <1>2, <1>3 DEF t, n

LEMMA AppendInjects ==
  ASSUME NEW s \in Seq(Keys), NEW k \in Keys, IsInjective(s), \A i \in DOMAIN s : s[i] # k
  PROVE  IsInjective(Append(s, k))
<1> DEFINE t == Append(s, k)
           n == Len(s) + 1
<1>1. \A i \in DOMAIN t : (i \in DOMAIN s /\ t[i] = s[i]) \/ (i = n /\ t[i] = k)
  BY AppendSet
<1> HIDE DEF t, n
<1>2. \A i, j \in DOMAIN s : s[i] = s[j] => i = j
  BY DEF IsInjective
<1>3. ASSUME NEW i \in DOMAIN t, NEW j \in DOMAIN t, t[i] = t[j] PROVE i = j
  BY <1>1, <1>2, <1>3
<1> QED
  BY <1>3 DEF IsInjective, t

LEMMA KeptLists ==
  ASSUME NEW order \in Seq(Keys), IsInjective(order), NEW K, NEW g,
         Keeping(g, order, K, Len(order))
  PROVE  \A n \in 0..Len(order) : Lists(g[n], Firsts(order, n) \ K)
<1> DEFINE Bad == {n \in 0..Len(order) : ~ Lists(g[n], Firsts(order, n) \ K)}
<1>0. Len(order) \in Nat /\ DOMAIN order = 1..Len(order)
  OBVIOUS
<1>1. SUFFICES ASSUME Bad # {} PROVE FALSE
  BY DEF Bad
<1>2. PICK b \in Bad : \A n \in Bad : b <= n
  <2> HIDE DEF Bad
  <2>1. Bad \in SUBSET Nat
    BY <1>0 DEF Bad
  <2> QED
    BY <1>1, <2>1, Least
<1>3. g[b] = KeptOf(g, order, K, b) /\ b \in 0..Len(order) /\ ~ Lists(g[b], Firsts(order, b) \ K)
  BY DEF Keeping
<1>4. b # 0
  <2>1. Lists(<<>>, {})
    BY DEF Lists, IsInjective, ToSet
  <2>2. Firsts(order, 0) = {}
    BY DEF Firsts
  <2> QED
    BY <1>3, <2>1, <2>2 DEF KeptOf
<1>5. b - 1 \in 0..Len(order) /\ b - 1 \notin Bad /\ b \in 1..Len(order) /\ b - 1 \in Nat
  <2>1. b - 1 \in 0..Len(order) /\ b \in 1..Len(order) /\ b - 1 \in Nat /\ ~ (b <= b - 1)
    BY <1>0, <1>3, <1>4
  <2> HIDE DEF Bad
  <2> QED
    BY <1>2, <2>1
<1>6. Lists(g[b - 1], Firsts(order, b - 1) \ K)
  BY <1>5
<1>7. Firsts(order, b) = Firsts(order, b - 1) \cup {order[b]} /\ order[b] \notin Firsts(order, b - 1)
  <2>1. \A i : i \in 1..b <=> (i \in 1..(b - 1) \/ i = b)
    BY <1>5
  <2>2. \A i \in 1..(b - 1) : order[i] # order[b]
    <3> SUFFICES ASSUME NEW i \in 1..(b - 1), order[i] = order[b] PROVE FALSE
      OBVIOUS
    <3>1. i \in DOMAIN order /\ b \in DOMAIN order /\ i # b
      BY <1>0, <1>5
    <3> QED
      BY <3>1 DEF IsInjective
  <2> QED
    BY <2>1, <2>2 DEF Firsts
<1>8. CASE order[b] \in K
  <2>1. Firsts(order, b) \ K = Firsts(order, b - 1) \ K
    BY <1>7, <1>8
  <2> QED
    BY <1>3, <1>4, <1>6, <1>8, <2>1 DEF KeptOf
<1>9. CASE order[b] \notin K
  <2> DEFINE s == g[b - 1]
             t == Append(s, order[b])
  <2>1. g[b] = t
    BY <1>3, <1>4, <1>9 DEF KeptOf
  <2>2. s \in Seq(Keys) /\ order[b] \in Keys
    BY <1>5, <1>6 DEF Lists
  <2>3. t \in Seq(Keys)
    BY <2>2, AppendProperties
  <2>4. \A i \in DOMAIN s : s[i] # order[b]
    BY <1>6, <1>7 DEF Lists, ToSet
  <2>5. IsInjective(s) /\ IsInjective(t)
    BY <1>6, <2>2, <2>4, AppendInjects DEF Lists
  <2>6. ToSet(t) = ToSet(s) \cup {order[b]}
    BY <2>2, AppendSet
  <2> HIDE DEF s, t
  <2>7. ToSet(t) = Firsts(order, b) \ K
    BY <1>6, <1>7, <1>9, <2>6 DEF Lists, s
  <2>8. Lists(t, Firsts(order, b) \ K)
    BY <2>3, <2>5, <2>7 DEF Lists
  <2> QED
    BY <1>3, <2>1, <2>8
<1> QED
  BY <1>8, <1>9

\* What is left in order is what was there, once, without what went.
LEMMA InOrderLists ==
  ASSUME NEW order, NEW S, Lists(order, S), NEW K
  PROVE  Lists(InOrder(order, K), S \ K)
<1> DEFINE g == CHOOSE h : Keeping(h, order, K, Len(order))
<1>1. Len(order) \in Nat /\ order \in Seq(Keys) /\ IsInjective(order)
  BY DEF Lists
<1>2. Keeping(g, order, K, Len(order)) /\ InOrder(order, K) = g[Len(order)]
  BY <1>1, KeepingExists, OrderIsChosen
<1> HIDE DEF g
<1>3. Lists(g[Len(order)], Firsts(order, Len(order)) \ K)
  <2>1. Len(order) \in 0..Len(order)
    BY <1>1
  <2>2. \A n \in 0..Len(order) : Lists(g[n], Firsts(order, n) \ K)
    BY <1>1, <1>2, KeptLists
  <2> QED
    BY <2>1, <2>2
<1>4. Firsts(order, Len(order)) = S
  BY <1>1 DEF Lists, ToSet, Firsts
<1> QED
  BY <1>2, <1>3, <1>4

LEMMA AppendLists ==
  ASSUME NEW s, NEW S, Lists(s, S), NEW k \in Keys \ S
  PROVE  Lists(Append(s, k), S \cup {k})
<1>1. s \in Seq(Keys) /\ IsInjective(s) /\ ToSet(s) = S
  BY DEF Lists
<1>2. \A i \in DOMAIN s : s[i] # k
  BY <1>1 DEF ToSet
<1>3. Append(s, k) \in Seq(Keys)
  BY <1>1, AppendProperties
<1> QED
  BY <1>1, <1>2, <1>3, AppendSet, AppendInjects DEF Lists

LEMMA ListsLength ==
  ASSUME NEW s, NEW S, Lists(s, S)
  PROVE  IsFiniteSet(S) /\ Cardinality(S) = Len(s) /\ S \in SUBSET Keys /\ Len(s) \in Nat
<1>1. s \in Seq(Keys) /\ IsInjective(s) /\ S = {s[i] : i \in 1..Len(s)} /\ Len(s) \in Nat
      /\ DOMAIN s = 1..Len(s)
  <2>1. s \in Seq(Keys) /\ IsInjective(s) /\ ToSet(s) = S
    BY DEF Lists
  <2>2. Len(s) \in Nat /\ DOMAIN s = 1..Len(s)
    BY <2>1, LenProperties
  <2> QED
    BY <2>1, <2>2, Zenon DEF ToSet
<1>2. s \in [1..Len(s) -> S]
  BY <1>1
<1>3. s \in Surjection(1..Len(s), S)
  BY <1>1, <1>2 DEF Surjection
<1>4. s \in Injection(1..Len(s), S)
  BY <1>1, <1>2 DEF Injection, IsInjective
<1>5. IsFiniteSet(1..Len(s)) /\ Cardinality(1..Len(s)) = Len(s)
  <2>1. 1 \in Int /\ Len(s) \in Int
    BY <1>1
  <2>2. IsFiniteSet(1..Len(s)) /\ Cardinality(1..Len(s)) = IF 1 > Len(s) THEN 0 ELSE Len(s) - 1 + 1
    BY <2>1, FS_Interval, Zenon
  <2> QED
    BY <1>1, <2>2
<1>6. IsFiniteSet(S) /\ Cardinality(S) = Cardinality(1..Len(s))
  BY <1>3, <1>4, <1>5, FS_Surjection
<1>7. S \in SUBSET Keys
  BY <1>1
<1> QED
  BY <1>1, <1>5, <1>6, <1>7


LEMMA FirstsLength ==
  ASSUME NEW s, NEW S, Lists(s, S), NEW n \in 0..Len(s)
  PROVE  /\ Firsts(s, n) \in SUBSET S /\ IsFiniteSet(Firsts(s, n)) /\ Cardinality(Firsts(s, n)) = n
         /\ (n = Len(s) => Firsts(s, n) = S)
<1> DEFINE f == [i \in 1..n |-> s[i]]
<1>1. /\ s \in Seq(Keys) /\ IsInjective(s) /\ S = {s[i] : i \in 1..Len(s)} /\ Len(s) \in Nat
      /\ DOMAIN s = 1..Len(s) /\ n \in Nat /\ 1..n \subseteq 1..Len(s)
  <2>1. s \in Seq(Keys) /\ IsInjective(s) /\ ToSet(s) = S
    BY DEF Lists
  <2>2. Len(s) \in Nat /\ DOMAIN s = 1..Len(s)
    BY <2>1, LenProperties
  <2>3. S = {s[i] : i \in 1..Len(s)}
    BY <2>1, <2>2, Zenon DEF ToSet
  <2>4. n \in Nat /\ 1..n \subseteq 1..Len(s)
    BY <2>2
  <2> QED
    BY <2>1, <2>2, <2>3, <2>4
<1>2. f \in Surjection(1..n, Firsts(s, n))
  BY DEF Surjection, Firsts
<1>3. f \in Injection(1..n, Firsts(s, n))
  <2>1. f \in [1..n -> Firsts(s, n)]
    BY DEF Firsts
  <2>2. \A i, j \in 1..n : f[i] = f[j] => i = j
    BY <1>1 DEF IsInjective
  <2>3. DOMAIN f = 1..n
    OBVIOUS
  <2> HIDE DEF f
  <2> QED
    BY <2>1, <2>2, <2>3 DEF Injection, IsInjective
<1>4. IsFiniteSet(1..n) /\ Cardinality(1..n) = n
  <2>1. 1 \in Int /\ n \in Int
    BY <1>1
  <2>2. IsFiniteSet(1..n) /\ Cardinality(1..n) = IF 1 > n THEN 0 ELSE n - 1 + 1
    BY <2>1, FS_Interval, Zenon
  <2> QED
    BY <1>1, <2>2
<1>5. IsFiniteSet(Firsts(s, n)) /\ Cardinality(Firsts(s, n)) = Cardinality(1..n)
  <2> HIDE DEF f
  <2> QED
    BY <1>2, <1>3, <1>4, FS_Surjection
<1>6. Firsts(s, n) \in SUBSET S
  BY <1>1 DEF Firsts
<1>7. n = Len(s) => Firsts(s, n) = S
  BY <1>1 DEF Firsts
<1> QED
  BY <1>4, <1>5, <1>6, <1>7

\* Enough leave, and only those in the order: both bounds hold of what stays.
LEMMA LeavingSuffices ==
  ASSUME NEW order, NEW S, Lists(order, S)
  PROVE  LET gone == Leaving(order, TotalOf(S)) IN
         /\ gone \in SUBSET S
         /\ Len(InOrder(order, gone)) <= MaxEntries
         /\ TotalOf(S) - TotalOf(gone) <= MaxBytes
<1> DEFINE Enough(n) == Len(order) - n <= MaxEntries /\ TotalOf(S) - TotalOf(Firsts(order, n)) <= MaxBytes
           Such == {n \in 0..Len(order) : Enough(n)}
<1>1. S \in SUBSET Keys /\ IsFiniteSet(S) /\ Cardinality(S) = Len(order) /\ Len(order) \in Nat
      /\ TotalOf(S) \in Nat
  BY ListsLength, TotalOfNat
<1>2. Len(order) \in Such
  <2>1. Len(order) \in 0..Len(order) /\ Len(order) - Len(order) <= MaxEntries
    BY <1>1
  <2>2. Firsts(order, Len(order)) = S
    BY <2>1, FirstsLength
  <2>3. TotalOf(S) - TotalOf(S) <= MaxBytes
    BY <1>1
  <2> QED
    BY <2>1, <2>2, <2>3
<1>3. PICK l \in Such : \A m \in Such : l <= m
  <2>1. Such \in SUBSET Nat
    BY <1>1
  <2> HIDE DEF Such
  <2> QED
    BY <1>2, <2>1, Least
<1>4. l \in 0..Len(order) /\ Enough(l) /\ \A m \in 0..(l - 1) : ~ Enough(m)
  <2> SUFFICES ASSUME NEW m \in 0..(l - 1), Enough(m) PROVE FALSE
    OBVIOUS
  <2>1. m \in 0..Len(order) /\ ~ (l <= m)
    BY <1>1
  <2>2. m \in Such
    BY <2>1
  <2> HIDE DEF Such
  <2> QED
    BY <1>3, <2>1, <2>2
<1> DEFINE n == CHOOSE x \in 0..Len(order) : Enough(x) /\ \A m \in 0..(x - 1) : ~ Enough(m)
<1>5. n \in 0..Len(order) /\ Enough(n)
  <2> HIDE DEF Enough, Such
  <2> QED
    BY <1>4
<1>6. Leaving(order, TotalOf(S)) = Firsts(order, n)
  BY DEF Leaving, Firsts
<1> HIDE DEF n
<1>7. Firsts(order, n) \in SUBSET S /\ IsFiniteSet(Firsts(order, n)) /\ Cardinality(Firsts(order, n)) = n
  BY <1>5, FirstsLength
<1> DEFINE F == Firsts(order, n)
<1> HIDE DEF F
<1>8. Lists(InOrder(order, F), S \ F)
  BY InOrderLists
<1>9. Len(InOrder(order, F)) = Len(order) - n
  <2>1. Len(InOrder(order, F)) = Cardinality(S \ F)
    BY <1>8, ListsLength
  <2>2. S \cap F = F /\ Cardinality(F) = n
    BY <1>7 DEF F
  <2>3. Cardinality(S \ F) = Cardinality(S) - Cardinality(S \cap F)
    BY <1>1, FS_Difference
  <2> QED
    BY <1>1, <2>1, <2>2, <2>3
<1> QED
  BY <1>5, <1>6, <1>7, <1>9 DEF F
-----------------------------------------------------------------------------
(* The books of the cache: what it indexes, weighs and orders is what it   *)
(* stores.                                                                 *)

Books ==
  /\ entries \in [Keys -> Entries \cup {NoEntry}]
  /\ tagIndex = {p \in Tags \X Keys : p[2] \in Cached /\ p[1] \in entries[p[2]].tags}
  /\ totalBytes = TotalOf(Cached)
  /\ Lists(recency, Cached)
  /\ Len(recency) <= MaxEntries /\ totalBytes <= MaxBytes

LEMMA BooksRemove ==
  ASSUME Books, NEW K, RemoveKeys(K)
  PROVE  Books'
<1>1. Cached' = Cached \ K /\ entries' \in [Keys -> Entries \cup {NoEntry}]
      /\ \A k \in Cached' : entries'[k] = entries[k]
  BY DEF Books, RemoveKeys, Cached
<1>2. IsFiniteSet(Cached) /\ Cached \in SUBSET Keys /\ Cardinality(Cached) = Len(recency)
      /\ Len(recency) \in Nat
  BY ListsLength DEF Books
<1>3. TotalOf(Cached \ K) = TotalOf(Cached) - TotalOf(K \cap Cached) /\ TotalOf(K \cap Cached) \in Nat
      /\ TotalOf(Cached) \in Nat
  BY <1>2, TotalOfLess, TotalOfNat
<1>4. totalBytes' = TotalOf(Cached') /\ totalBytes' <= MaxBytes
  BY <1>1, <1>3 DEF Books, RemoveKeys, SizeOf
<1>5. Lists(recency', Cached')
  BY <1>1, InOrderLists DEF Books, RemoveKeys
<1>6. Len(recency') <= MaxEntries
  <2>1. Cardinality(Cached') = Len(recency') /\ Len(recency') \in Nat
    BY <1>5, ListsLength
  <2>2. Cardinality(Cached') <= Cardinality(Cached)
    BY <1>1, <1>2, FS_Subset
  <2> QED
    BY <1>2, <2>1, <2>2 DEF Books
<1>7. tagIndex' = {p \in Tags \X Keys : p[2] \in Cached' /\ p[1] \in entries'[p[2]].tags}
  <2>1. tagIndex' = {p \in tagIndex : p[2] \notin K}
    BY DEF RemoveKeys, Unindexed
  <2>2. tagIndex = {p \in Tags \X Keys : p[2] \in Cached /\ p[1] \in entries[p[2]].tags}
    BY DEF Books
  <2> QED
    BY <1>1, <2>1, <2>2
<1> QED
  BY <1>1, <1>4, <1>5, <1>6, <1>7 DEF Books

\* A key that is used anew is last.
LEMMA UsedLast ==
  ASSUME NEW S, Lists(recency, S), NEW k \in Keys
  PROVE  Lists(Append(InOrder(recency, {k}), k), (S \ {k}) \cup {k})
<1>1. Lists(InOrder(recency, {k}), S \ {k})
  BY InOrderLists
<1> QED
  BY <1>1, AppendLists

LEMMA BooksTouch ==
  ASSUME Books, NEW k \in Keys, entries[k] # NoEntry, Touch(k)
  PROVE  Books'
<1>1. (Cached \ {k}) \cup {k} = Cached
  BY DEF Cached
<1>2. Lists(recency', Cached)
  BY <1>1, UsedLast DEF Touch, Books
<1>3. Len(recency') = Len(recency)
  <2>1. Cardinality(Cached) = Len(recency')
    BY <1>2, ListsLength
  <2>2. Cardinality(Cached) = Len(recency)
    BY ListsLength DEF Books
  <2> QED
    BY <2>1, <2>2
<1>4. Cached' = Cached /\ UNCHANGED <<entries, tagIndex, totalBytes>>
  BY DEF Touch, Cached
<1> QED
  BY <1>2, <1>3, <1>4 DEF Books

LEMMA BooksStore ==
  ASSUME Books, NEW k \in Keys, NEW entry \in Entries, Store(k, entry)
  PROVE  Books'
<1> DEFINE order == Append(InOrder(recency, {k}), k)
           bytes == totalBytes - SizeOf({k}) + Bytes[k]
           leaving == Leaving(order, bytes)
           S == (Cached \ {k}) \cup {k}
<1>1. /\ entries' = [x \in Keys |-> IF x \in leaving THEN NoEntry
                                    ELSE IF x = k THEN entry ELSE entries[x]]
      /\ recency' = InOrder(order, leaving)
      /\ tagIndex' = {p \in Unindexed({k}) \cup (entry.tags \X {k}) : p[2] \notin leaving}
      /\ totalBytes' = bytes - TotalOf(leaving)
  BY DEF Store
<1>2. Lists(order, S)
  BY UsedLast DEF Books
<1>3. IsFiniteSet(Cached) /\ Cached \in SUBSET Keys /\ IsFiniteSet(S) /\ S \in SUBSET Keys
  BY <1>2, ListsLength DEF Books
<1>4. bytes = TotalOf(S) /\ bytes \in Nat
  <2>1. TotalOf(Cached \ {k}) = TotalOf(Cached) - TotalOf({k} \cap Cached)
        /\ TotalOf({k} \cap Cached) \in Nat /\ TotalOf(Cached) \in Nat
    BY <1>3, TotalOfLess, TotalOfNat
  <2>2. TotalOf(S) = Bytes[k] + TotalOf(S \ {k})
    BY <1>3, TotalOfAny
  <2>3. S \ {k} = Cached \ {k}
    OBVIOUS
  <2>4. bytes = TotalOf(Cached) - TotalOf({k} \cap Cached) + Bytes[k] /\ Bytes[k] \in Nat
    BY DEF Books, SizeOf
  <2>5. TotalOf(Cached \ {k}) \in Nat /\ Bytes[k] \in Nat
    <3>1. IsFiniteSet(Cached \ {k}) /\ Cached \ {k} \in SUBSET Keys
      BY <1>3, FS_Subset
    <3> QED
      BY <3>1, TotalOfNat
  <2> HIDE DEF S, bytes
  <2>6. bytes = TotalOf(Cached \ {k}) + Bytes[k]
    BY <2>1, <2>4
  <2>7. TotalOf(S) = Bytes[k] + TotalOf(Cached \ {k})
    BY <2>2, <2>3
  <2> QED
    BY <2>5, <2>6, <2>7
<1> HIDE DEF order, bytes, S
<1>5. /\ leaving \in SUBSET S /\ Len(InOrder(order, leaving)) <= MaxEntries
      /\ TotalOf(S) - TotalOf(leaving) <= MaxBytes
  BY <1>2, <1>4, LeavingSuffices
<1> HIDE DEF leaving
<1>6. Cached' = S \ leaving
  BY <1>1, <1>3 DEF Cached, S, Entries
<1>7. entries' \in [Keys -> Entries \cup {NoEntry}]
  BY <1>1 DEF Books
<1>8. Lists(recency', Cached') /\ Len(recency') <= MaxEntries
  BY <1>1, <1>2, <1>5, <1>6, InOrderLists
<1>9. totalBytes' = TotalOf(Cached') /\ totalBytes' <= MaxBytes
  <2>1. leaving \cap S = leaving
    BY <1>5
  <2>2. TotalOf(S \ leaving) = TotalOf(S) - TotalOf(leaving)
    BY <1>3, <2>1, TotalOfLess
  <2> QED
    BY <1>1, <1>4, <1>5, <1>6, <2>2
<1>10. tagIndex' = {p \in Tags \X Keys : p[2] \in Cached' /\ p[1] \in entries'[p[2]].tags}
  <2>1. tagIndex = {p \in Tags \X Keys : p[2] \in Cached /\ p[1] \in entries[p[2]].tags}
    BY DEF Books
  <2>2. entry.tags \in SUBSET Tags
    BY DEF Entries
  <2>3. tagIndex' = {p \in Unindexed({k}) \cup (entry.tags \X {k}) : p[2] \notin leaving}
    BY <1>1
  <2>4. Unindexed({k}) = {p \in Tags \X Keys : p[2] \in Cached /\ p[1] \in entries[p[2]].tags /\ p[2] # k}
    BY <2>1 DEF Unindexed
  <2>5. \A x \in Cached' : entries'[x] = IF x = k THEN entry ELSE entries[x]
    BY <1>1, <1>3, <1>6 DEF S
  <2>6. \A x : x \in Cached' <=> (x \notin leaving /\ (x \in Cached \/ x = k))
    BY <1>6 DEF S
  <2>7. ASSUME NEW t \in Tags, NEW x \in Keys
        PROVE  <<t, x>> \in tagIndex' <=> (x \in Cached' /\ t \in entries'[x].tags)
    <3>1. <<t, x>> \in Unindexed({k}) <=> (x \in Cached /\ t \in entries[x].tags /\ x # k)
      BY <2>4
    <3>2. <<t, x>> \in entry.tags \X {k} <=> (t \in entry.tags /\ x = k)
      OBVIOUS
    <3>3. <<t, x>> \in tagIndex' <=>
            x \notin leaving /\ (<<t, x>> \in Unindexed({k}) \/ <<t, x>> \in entry.tags \X {k})
      BY <2>3
    <3> QED
      BY <2>5, <2>6, <3>1, <3>2, <3>3
  <2>8. tagIndex' \subseteq Tags \X Keys
    BY <2>2, <2>3, <2>4
  <2> QED
    BY <2>7, <2>8
<1> QED
  BY <1>7, <1>8, <1>9, <1>10 DEF Books

LEMMA BooksEmpty ==
  ASSUME entries = [k \in Keys |-> NoEntry], recency = <<>>, tagIndex = {}, totalBytes = 0
  PROVE  Books
<1>1. Cached = {}
  BY DEF Cached
<1>2. Lists(recency, Cached)
  BY <1>1 DEF Lists, IsInjective, ToSet
<1>3. Len(recency) = 0
  OBVIOUS
<1> QED
  BY <1>1, <1>2, <1>3, TotalOfEmpty DEF Books

LEMMA BooksNext == ServedInv /\ Books /\ [Next]_vars => Books'
<1> SUFFICES ASSUME ServedInv, Books, [Next]_vars PROVE Books'
  OBVIOUS
<1>1. CASE UNCHANGED cacheVars
  BY <1>1 DEF Books, Cached, cacheVars, stored
<1>2. CASE \E w \in pending : PurgeAfterCommit(w)
  BY <1>2, BooksRemove DEF PurgeAfterCommit, Purge
<1>3. CASE \E v \in Visitors : Visit(v)
  <2>1. PICK v \in Visitors : Visit(v)
    BY <1>3
  <2>2. CASE Hit(v)
    <3>1. visitor[v].key \in Keys
      BY <2>2 DEF Hit, ServedInv, VisitorsAsk
    <3> QED
      BY <2>2, <3>1, BooksTouch DEF Hit
  <2>3. CASE Miss(v)
    BY <1>1, <2>3, BooksRemove DEF Miss, Expire
  <2>4. CASE (\E k \in Keys : Arrive(v, k)) \/ Join(v)
    BY <1>1, <2>4 DEF Arrive, Join
  <2> QED
    BY <2>1, <2>2, <2>3, <2>4 DEF Visit
<1>4. CASE \E f \in flights : Render(f)
  <2>1. PICK f \in flights : Render(f)
    BY <1>4
  <2>2. CASE Fill(f)
    <3> DEFINE entry == [tags |-> DependsOn(f.page), content |-> f.seen]
    <3>1. CASE ~ UNCHANGED cacheVars
      <4>1. Store(f.key, entry)
        BY <2>2, <3>1 DEF Fill, Set
      <4>2. f.key \in Keys /\ f.seen \in [Tags -> Nat] /\ f.page \in Pages
        BY <2>1, <2>2 DEF Fill, ServedInv, FreshInv, FlightsRefused, Types, Flights
      <4>3. entry \in Entries
        BY <4>2 DEF Entries, DependsOn
      <4> HIDE DEF entry
      <4> QED
        BY <4>1, <4>2, <4>3, BooksStore
    <3> QED
      BY <1>1, <3>1
  <2>3. CASE ~ Fill(f)
    BY <1>1, <2>1, <2>3 DEF Render, ReadPattern, ReadPage, ReadLinks, Land, LandWithout, Lands
  <2> QED
    BY <2>2, <2>3
<1>5. CASE Restart
  <2>1. /\ entries' = [k \in Keys |-> NoEntry] /\ recency' = <<>> /\ tagIndex' = {} /\ totalBytes' = 0
    BY <1>5 DEF Restart
  <2>2. Cached' = {}
    BY <2>1 DEF Cached
  <2>3. Lists(recency', Cached')
    BY <2>1, <2>2 DEF Lists, IsInjective, ToSet
  <2>4. Len(recency') = 0
    BY <2>1
  <2> QED
    BY <2>1, <2>2, <2>3, <2>4, TotalOfEmpty DEF Books
<1>6. CASE Write
  BY <1>1, <1>6 DEF Write, Publish, Unpublish, Rename, Trash, RewriteAddresses, Committed
<1>7. CASE RestateAddresses \/ UNCHANGED vars
  BY <1>1, <1>7 DEF RestateAddresses, vars
<1> QED
  BY <1>2, <1>3, <1>4, <1>5, <1>6, <1>7 DEF Next

LEMMA AddressNext ==
  address \in [Pages -> Keys \cup {NoKey}] /\ [Next]_vars => address' \in [Pages -> Keys \cup {NoKey}]
<1> SUFFICES ASSUME address \in [Pages -> Keys \cup {NoKey}], [Next]_vars
             PROVE  address' \in [Pages -> Keys \cup {NoKey}]
  OBVIOUS
<1>1. CASE Write
  BY <1>1 DEF Write, Publish, Unpublish, Rename, Trash, RewriteAddresses, Readdressed, Withdrawn
<1>2. CASE RestateAddresses
  BY <1>2 DEF RestateAddresses, Readdressed
<1>3. CASE \E v \in Visitors : Visit(v)
  BY <1>3 DEF Visit, Arrive, Hit, Miss, Join, site
<1>4. CASE \E f \in flights : Render(f)
  BY <1>4 DEF Render, ReadPattern, ReadPage, ReadLinks, Fill, Reads, Land, LandWithout, Lands, site
<1>5. CASE Restart \/ (\E w \in pending : PurgeAfterCommit(w)) \/ UNCHANGED vars
  BY <1>5 DEF Restart, PurgeAfterCommit, vars, site
<1> QED
  BY <1>1, <1>2, <1>3, <1>4, <1>5 DEF Next

\* The tag index names the stored entries and nothing else, the byte count and
\* the order of use are theirs, both bounds hold, and concurrent misses share
\* their renders, for any keys, sizes and limits (memory.ts, single-flight.ts).
THEOREM BooksInOrder == Spec => []CacheInv
<1> DEFINE Inv == ServedInv /\ Books /\ address \in [Pages -> Keys \cup {NoKey}]
<1>1. Init => Inv
  <2>1. Init => ServedInv
    BY FreshInit, AskInit DEF Init, ServedInv, SharedInv, FlightsSince, OneFlightEach
  <2> QED
    BY <2>1, BooksEmpty DEF Init, CacheInit
<1>2. Inv /\ [Next]_vars => Inv'
  BY FreshNext, AskNext, SharedNext, BooksNext, AddressNext DEF ServedInv
<1>3. Inv => CacheInv
  <2> SUFFICES ASSUME Inv PROVE CacheInv
    OBVIOUS
  <2>1. recency \in Seq(Keys) /\ IsInjective(recency) /\ ToSet(recency) = Cached
    BY DEF Books, Lists
  <2>2. CacheConsistent
    BY <2>1 DEF Books, CacheConsistent
  <2>3. tagIndex \subseteq Tags \X Keys /\ totalBytes \in Nat
    <3>1. IsFiniteSet(Cached) /\ Cached \in SUBSET Keys
      BY ListsLength DEF Books
    <3> QED
      BY <3>1, TotalOfNat DEF Books
  <2>4. TypeOK
    BY <2>1, <2>3 DEF TypeOK, CacheTypeOK, ServedInv, FreshInv, Types, VisitorsAsk
  <2> QED
    BY <2>2, <2>4 DEF CacheInv, ServedInv, SharedInv
<1> HIDE DEF Inv
<1> QED
  BY <1>1, <1>2, <1>3, PTL DEF Spec
=============================================================================
