---------------------------- MODULE MemoryCache ----------------------------
(***************************************************************************)
(* The bounded in-process page cache (packages/cache/src/memory.ts): least *)
(* recently used entries leave first, every entry is indexed by its tags,  *)
(* and a purge stamps its tags with a new epoch, so that a fill whose      *)
(* ticket is older is refused.  Only MaxStamps stamps are remembered: the  *)
(* epochs of forgotten ones raise a floor below which every fill is        *)
(* refused.                                                                *)
(*                                                                         *)
(* Every operation runs without an await, so each is one step.  An expired *)
(* entry is one its reader finds expired: the clock is left out.           *)
(***************************************************************************)
EXTENDS Integers, SequencesExt

CONSTANTS
  Keys,                 \* canonical paths
  Tags, GlobalTag,      \* cache tags, and the one every purge of all carries
  Contents, NoEntry,    \* what an entry is made of, besides its tags
  Bytes,                \* body.byteLength of what a key renders to
  MaxEntries, MaxBytes, \* entryLimit and byteLimit
  MaxStamps             \* MAX_PURGE_STAMPS

ASSUME MemoryCacheAssumption ==
  /\ GlobalTag \in Tags /\ IsFiniteSet(Tags)
  /\ Bytes \in [Keys -> Nat]
  /\ MaxEntries \in Nat \ {0} /\ MaxBytes \in Nat \ {0} /\ MaxStamps \in Nat

Entries == [tags : SUBSET Tags, content : Contents]

ASSUME NoEntryAssumption == NoEntry \notin Entries

VARIABLES
  entries,      \* entries, NoEntry where nothing is stored
  recency,      \* the stored keys, least recently used first
  tagIndex,     \* <<tag, key>> for every key in a tag's set
  totalBytes,   \* totalBytes
  epoch,        \* epoch, which ticket() answers
  stamps,       \* the epoch a tag was last purged at, 0 when it has no stamp
  forgottenUpTo \* stamps at or below this epoch have been forgotten

stored == <<entries, recency, tagIndex, totalBytes>>
epochs == <<epoch, stamps, forgottenUpTo>>
cacheVars == <<stored, epochs>>

Cached == {k \in Keys : entries[k] # NoEntry}

TotalOf(K) == FoldFunctionOnSet(+, 0, Bytes, K)

CacheTypeOK ==
  /\ entries \in [Keys -> Entries \cup {NoEntry}]
  /\ recency \in Seq(Keys)
  /\ tagIndex \subseteq Tags \X Keys
  /\ totalBytes \in Nat
  /\ epoch \in Nat /\ stamps \in [Tags -> Nat] /\ forgottenUpTo \in Nat

CacheInit ==
  /\ entries = [k \in Keys |-> NoEntry]
  /\ recency = <<>> /\ tagIndex = {} /\ totalBytes = 0
  /\ epoch = 0 /\ stamps = [t \in Tags |-> 0] /\ forgottenUpTo = 0

-----------------------------------------------------------------------------
\* remove, of every key in K: the one way out.
StillIndexed(K) == tagIndex
Unindexed(K) == {p \in tagIndex : p[2] \notin K}

SizeOf(K) == TotalOf(K \cap Cached)

\* The keys in this order, but those in K.
InOrder(order, K) ==
  LET kept[n \in 0..Len(order)] ==
        IF n = 0 THEN <<>>
        ELSE IF order[n] \in K THEN kept[n - 1] ELSE Append(kept[n - 1], order[n])
  IN kept[Len(order)]

RemoveKeys(K) ==
  /\ entries' = [k \in Keys |-> IF k \in K THEN NoEntry ELSE entries[k]]
  /\ recency' = InOrder(recency, K)
  /\ tagIndex' = Unindexed(K)
  /\ totalBytes' = totalBytes - SizeOf(K)

\* get: what is read becomes the most recently used.
Touch(k) ==
  /\ recency' = Append(InOrder(recency, {k}), k)
  /\ UNCHANGED <<entries, tagIndex, totalBytes, epochs>>

\* get, of an entry past its lifetime.
Expire(k) == RemoveKeys({k}) /\ UNCHANGED epochs

-----------------------------------------------------------------------------
\* set: what is purged after the ticket, or may have been, is not stored.
Accepted(tags, ticket) ==
  /\ forgottenUpTo <= ticket
  /\ \A t \in tags \cup {GlobalTag} : stamps[t] <= ticket

Fits(k) == Bytes[k] <= MaxBytes

\* The least recently used keys that have to leave, of those in this order.
Leaving(order, bytes) ==
  LET First(n) == {order[i] : i \in 1..n}
      Enough(n) == Len(order) - n <= MaxEntries /\ bytes - TotalOf(First(n)) <= MaxBytes
  IN First(CHOOSE n \in 0..Len(order) :
             Enough(n) /\ \A m \in 0..n - 1 : ~Enough(m))

Store(k, entry) ==
  LET order == Append(InOrder(recency, {k}), k)
      bytes == totalBytes - SizeOf({k}) + Bytes[k]
      leaving == Leaving(order, bytes)
  IN /\ entries' = [x \in Keys |-> IF x \in leaving THEN NoEntry
                                   ELSE IF x = k THEN entry ELSE entries[x]]
     /\ recency' = InOrder(order, leaving)
     /\ tagIndex' = {p \in Unindexed({k}) \cup (entry.tags \X {k}) : p[2] \notin leaving}
     /\ totalBytes' = bytes - TotalOf(leaving)
     /\ UNCHANGED epochs

Set(k, entry, ticket) ==
  \/ Fits(k) /\ Accepted(entry.tags, ticket) /\ Store(k, entry)
  \/ ~(Fits(k) /\ Accepted(entry.tags, ticket)) /\ UNCHANGED cacheVars

-----------------------------------------------------------------------------
\* purge.
Stamped(tags) == [t \in Tags |-> IF t \in tags THEN epoch + 1 ELSE stamps[t]]

Indexed(tags) == {k \in Keys : \E t \in tags : <<t, k>> \in tagIndex}

Purged(tags) == IF GlobalTag \in tags THEN Keys ELSE Indexed(tags)

\* The oldest stamps beyond MaxStamps.
Oldest(lost, stamped) ==
  LET all == {t \in Tags : stamped[t] > 0}
  IN /\ lost \subseteq all
     /\ \A t \in lost, s \in all \ lost : stamped[t] <= stamped[s]
     /\ Cardinality(all \ lost) = IF Cardinality(all) > MaxStamps
                                    THEN MaxStamps ELSE Cardinality(all)

FloorKept(lost, stamped) == forgottenUpTo' = forgottenUpTo
FloorRaised(lost, stamped) ==
  LET reached == {forgottenUpTo} \cup {stamped[t] : t \in lost}
  IN /\ forgottenUpTo' \in reached
     /\ \A e \in reached : e <= forgottenUpTo'

Purge(tags) ==
  /\ epoch' = epoch + 1
  /\ RemoveKeys(Purged(tags))
  /\ \E lost \in SUBSET Tags :
       /\ Oldest(lost, Stamped(tags))
       /\ stamps' = [t \in Tags |-> IF t \in lost THEN 0 ELSE Stamped(tags)[t]]
       /\ FloorRaised(lost, Stamped(tags))

-----------------------------------------------------------------------------
\* Properties.

\* The tag index names the stored entries and nothing else, the byte count and
\* the order of use are theirs, and both bounds hold, whatever way entries left.
CacheConsistent ==
  /\ tagIndex = {p \in Tags \X Keys : p[2] \in Cached /\ p[1] \in entries[p[2]].tags}
  /\ totalBytes = TotalOf(Cached)
  /\ IsInjective(recency) /\ ToSet(recency) = Cached
  /\ Len(recency) <= MaxEntries /\ totalBytes <= MaxBytes
=============================================================================
