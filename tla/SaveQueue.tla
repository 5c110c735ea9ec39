----------------------------- MODULE SaveQueue ------------------------------
(***************************************************************************)
(* The editor's save queue as pure operators on a queue record             *)
(* (packages/editor/src/client/session/save-queue.ts): what an action adds *)
(* to it, when its head may be sent, and what an answer does to it.        *)
(*                                                                         *)
(* An act is one thing the editor did; it is performed at most once, so it *)
(* also names the value it writes or the block it creates.  Acts of kind   *)
(* "update" on one block may be merged into one entry, which is why an     *)
(* entry holds a set of acts.  Intents of several members, positions and   *)
(* versions inside a request are left out; so are the sequence numbers     *)
(* and the fragments flag, which only decide what the frame shows.         *)
(***************************************************************************)
EXTENDS Naturals, Sequences, FiniteSets

CONSTANTS
  Acts, Blocks,
  KindOf,          \* [Acts -> {"update", "insert", "delete"}]
  BlockOf          \* the block each act names

ASSUME SaveQueueAssumption ==
  /\ KindOf \in [Acts -> {"update", "insert", "delete"}]
  /\ BlockOf \in [Acts -> Blocks]

FailureKinds == {"network", "stale", "locked", "session", "refused"}
PauseReasons == {"stale", "locked", "session"}

\* inFlight is a sequence of at most one entry.
Queue(Entries) ==
  [entries : Entries, inFlight : Entries,
   status : {"saved", "saving", "failed", "paused"},
   lastFailure : FailureKinds \cup {"none"},
   pauseReason : PauseReasons \cup {"none"}]

CreateQueue ==
  [entries |-> <<>>, inFlight |-> <<>>, status |-> "saved",
   lastFailure |-> "none", pauseReason |-> "none"]

EntryOf(a, ready) ==
  [kind |-> KindOf[a], block |-> BlockOf[a], acts |-> {a}, ready |-> ready]

HoldsAfterNetworkFailure(q) == q.status = "failed" /\ q.lastFailure = "network"

Held(q) == q.status = "paused" \/ HoldsAfterNetworkFailure(q)

CanSend(q) == q.inFlight = <<>> /\ ~Held(q)

HasPending(q) == q.entries # <<>> \/ q.inFlight # <<>>

SettledStatus(entries) == IF entries # <<>> THEN "saving" ELSE "saved"

-----------------------------------------------------------------------------
TouchesBlock(e, b) == e.block = b

\* The pending update an update of b may merge into: nothing after it touches b.
IsLatestUpdate(entries, i, b) ==
  /\ entries[i].kind = "update" /\ entries[i].block = b
  /\ \A j \in i + 1..Len(entries) :
       ~(entries[j].kind = "update" /\ entries[j].block = b)
MergeIndexUnchecked(entries, b) ==
  {i \in DOMAIN entries : IsLatestUpdate(entries, i, b)}
MergeIndex(entries, b) ==
  {i \in DOMAIN entries :
     /\ IsLatestUpdate(entries, i, b)
     /\ \A j \in i + 1..Len(entries) : ~TouchesBlock(entries[j], b)}

\* Everything already pending becomes ready first when the new act is.
MadeReady(entries, through) ==
  [i \in DOMAIN entries |->
     [entries[i] EXCEPT !.ready = @ \/ i \in through]]

Merged(entries, i, a, ready) ==
  [entries EXCEPT ![i].acts = @ \cup {a}, ![i].ready = @ \/ ready]

Enqueue(q, a, immediate) ==
  LET ready == immediate \/ KindOf[a] # "update"
      pending == MadeReady(q.entries, IF ready THEN DOMAIN q.entries ELSE {})
      into == IF KindOf[a] = "update" THEN MergeIndex(pending, BlockOf[a]) ELSE {}
      entries == IF into = {} THEN Append(pending, EntryOf(a, ready))
                 ELSE Merged(pending, CHOOSE i \in into : TRUE, a, ready)
  IN [q EXCEPT !.entries = entries,
               !.status = IF Held(q) THEN @ ELSE "saving",
               !.lastFailure = IF Held(q) THEN @ ELSE "none"]

\* The idle timer fired, or everything is being flushed.
MarkHeadReady(q) == [q EXCEPT !.entries = MadeReady(@, {1})]
MarkReady(q) == [q EXCEPT !.entries = MadeReady(@, DOMAIN @)]

\* A field of block b lost focus: through the last update of the block.
MarkBlockReady(q, b) ==
  LET last == {i \in DOMAIN q.entries : IsLatestUpdate(q.entries, i, b)}
  IN [q EXCEPT !.entries =
        MadeReady(@, {i \in DOMAIN @ : \E l \in last : i <= l})]

\* The request would be empty: the block it names is gone from the model.
EmptyRequest(e, blocks) == e.kind # "insert" /\ e.block \notin blocks

\* The leading entries that pruneEmpty drops.
Prunable(q, blocks) ==
  IF CanSend(q)
    THEN {n \in DOMAIN q.entries :
            \A i \in 1..n : q.entries[i].ready /\ EmptyRequest(q.entries[i], blocks)}
    ELSE {}

DropHeads(q, n) ==
  LET entries == SubSeq(q.entries, n + 1, Len(q.entries))
  IN [q EXCEPT !.entries = entries,
               !.status = IF @ = "saving" /\ entries = <<>> THEN "saved" ELSE @]

PruneEmpty(q, blocks) ==
  LET gone == Prunable(q, blocks)
  IN IF gone = {} THEN q ELSE DropHeads(q, Cardinality(gone))

CanTake(q) == CanSend(q) /\ q.entries # <<>> /\ Head(q.entries).ready

TakeNext(q) ==
  [q EXCEPT !.entries = Tail(@), !.inFlight = <<Head(q.entries)>>,
            !.status = "saving", !.lastFailure = "none", !.pauseReason = "none"]

OnSuccessKeeping(q) ==
  [q EXCEPT !.status = SettledStatus(q.entries),
            !.lastFailure = "none", !.pauseReason = "none"]
OnSuccess(q) ==
  [q EXCEPT !.inFlight = <<>>, !.status = SettledStatus(q.entries),
            !.lastFailure = "none", !.pauseReason = "none"]

\* The entry in flight goes back to the head, ready or held for a retry.
PutBack(q, ready) ==
  [i \in DOMAIN q.inFlight |-> [q.inFlight[i] EXCEPT !.ready = ready]] \o q.entries

OnFailure(q, kind) ==
  [q EXCEPT !.inFlight = <<>>,
            !.lastFailure = kind,
            !.entries = IF kind = "refused" THEN @ ELSE PutBack(q, kind # "network"),
            !.status = IF kind \in PauseReasons THEN "paused" ELSE "failed",
            !.pauseReason = IF kind \in PauseReasons THEN kind ELSE "none"]

Retry(q) ==
  IF ~Held(q) THEN q
  ELSE [q EXCEPT !.entries = MadeReady(@, {1}),
                 !.status = SettledStatus(q.entries),
                 !.lastFailure = "none", !.pauseReason = "none"]

-----------------------------------------------------------------------------
\* A page tree: its blocks, and the updates whose values still stand in it.
Tree == [blocks : SUBSET Blocks, values : SUBSET Acts]

Apply(e, tree) ==
  CASE e.kind = "insert" -> [tree EXCEPT !.blocks = @ \cup {e.block}]
    [] e.kind = "update" -> [tree EXCEPT !.values = @ \cup e.acts]
    [] e.kind = "delete" ->
         [blocks |-> tree.blocks \ {e.block},
          values |-> {a \in tree.values : BlockOf[a] # e.block}]

PartlyApplied(e, tree) ==
  CASE e.kind = "insert" -> e.block \in tree.blocks
    [] e.kind = "update" -> e.acts \cap tree.values # {}
    [] e.kind = "delete" -> e.block \notin tree.blocks
AlreadyApplied(e, tree) ==
  CASE e.kind = "insert" -> e.block \in tree.blocks
    [] e.kind = "update" -> e.block \in tree.blocks /\ e.acts \subseteq tree.values
    [] e.kind = "delete" -> e.block \notin tree.blocks
=============================================================================
