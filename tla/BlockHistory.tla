---------------------------- MODULE BlockHistory ----------------------------
(***************************************************************************)
(* The properties of the blocks of one page as transactions write them     *)
(* side by side: edit batches and restores that lock the page's row, calls *)
(* of updateBlockProps that lock only the block's, a compaction that locks *)
(* neither, and publications that read them all; the revisions each leaves *)
(* and the pruning of those (packages/pages/src: tree.ts, edit-batch.ts,   *)
(* revisions.ts, compaction.ts, versioning.ts, publish.ts).                *)
(*                                                                         *)
(* All blocks are of one type, that has come to the version Current.  What *)
(* a block says is the call that wrote it, and the form its properties     *)
(* have: that of the version of the type they were written for.            *)
(* Where a block is in the tree is BlockTree's subject.                    *)
(***************************************************************************)
EXTENDS Naturals, FiniteSets, Sequences, Functions, FiniteSetsExt

CONSTANTS
  Blocks, NoBlock,  \* ids of blocks
  Writers,          \* transactions under way at a time
  Pages0,           \* the versions that the first blocks were stored at
  Current,          \* the version of the type now
  Cap,              \* how many batches of saves are kept
  Tolerant,         \* whether an upcaster leaves properties alone that it has upcast
  MaxCalls          \* bound: transactions ever begun

NoOne == "no one"

ASSUME BlockHistoryAssumption ==
  /\ NoBlock \notin Blocks /\ NoOne \notin Writers
  /\ Current \in Nat \ {0, 1} /\ Cap \in Nat \ {0}
  /\ \A p \in Pages0 : DOMAIN p \subseteq Blocks /\ Range(p) \subseteq 1..Current
  /\ Tolerant \in BOOLEAN /\ MaxCalls \in Nat

VARIABLES
  rows,     \* page_blocks: the committed rows by id
  page,     \* the version of the page
  revs,     \* block_revisions
  pubs,     \* page_publications: a snapshot, and the revision of each block in it
  tx,       \* per writer the transaction it is in
  pageLock, \* who holds the page's row
  calls, clock,
  overtaken \* history: blocks written while another had selected them

vars == <<rows, page, revs, pubs, tx, pageLock, calls, clock, overtaken>>

Forms == 1..(2 * Current)
Row(text, form, stored, version) ==
  [text |-> text, form |-> form, stored |-> stored, version |-> version]
Rows == [text : 0..MaxCalls, form : Forms, stored : 1..Current, version : Nat]
\* A revision is known by its batch and its subject; batches by the call.
Rev(batch, b, kind, change, row, at) ==
  [batch |-> batch, block |-> b, kind |-> kind, change |-> change,
   text |-> row.text, form |-> row.form, stored |-> row.stored, at |-> at]

-----------------------------------------------------------------------------
(* Versions of the type.                                                   *)

\* upcastOnRead: from what the row says it is stored at.
Upcast(r) ==
  [r EXCEPT !.form = IF r.stored = Current \/ (Tolerant /\ r.form = Current)
                     THEN @ ELSE @ + Current - r.stored]
Valid(r) == Upcast(r).form = Current

-----------------------------------------------------------------------------
(* Transactions.                                                           *)

Idle == [op |-> "none", pc |-> "idle", id |-> 0, block |-> NoBlock, base |-> 0, seen |-> 0,
         at |-> 0, work |-> <<>>, claimed |-> {}, from |-> 0, doomed |-> {}]
Set(w, t) == tx' = [tx EXCEPT ![w] = t]
Ended(w) == Set(w, Idle) /\ pageLock' = IF pageLock = w THEN NoOne ELSE pageLock
Fails(w) == Ended(w) /\ UNCHANGED <<rows, page, revs, pubs, calls, clock, overtaken>>
Now(n) == clock' = clock + n

\* Who has the row FOR UPDATE, and who references it from rows not yet
\* committed, which locks it FOR KEY SHARE.
Holds(w, b) == tx[w].pc = "held" /\ tx[w].block = b
Refers(w, b) == b \in tx[w].claimed
Others(w) == Writers \ {w}

\* A compaction has read what it will write, and a restore has taken its
\* time, before the rows are theirs.
Selected(w, b) ==
  \/ tx[w].op = "compact" /\ b \in DOMAIN tx[w].work
  \/ tx[w].op = "restore" /\ tx[w].pc = "locked"
Overtakes(w) ==
  overtaken' = overtaken \cup {b \in DOMAIN rows \cap DOMAIN rows' :
                 rows'[b] # rows[b] /\ \E v \in Others(w) : Selected(v, b)}

Begin(w, t) ==
  /\ tx[w].pc = "idle" /\ calls < MaxCalls
  /\ calls' = calls + 1
  /\ Set(w, [t EXCEPT !.pc = "called", !.id = calls + 1])
  /\ UNCHANGED <<rows, page, revs, pubs, pageLock, clock, overtaken>>

\* The caller has read the page and its block before.
CallEdit(w) ==
  \E op \in {"update", "delete"}, b \in DOMAIN rows :
    Begin(w, [Idle EXCEPT !.op = op, !.block = b, !.base = page, !.seen = rows[b].version])
CallUpdateBlockProps(w) ==
  \E b \in DOMAIN rows :
    Begin(w, [Idle EXCEPT !.op = "props", !.block = b, !.seen = rows[b].version])
CallPublish(w) == Begin(w, [Idle EXCEPT !.op = "publish", !.base = page])
CallDraft(w) == Begin(w, [Idle EXCEPT !.op = "draft"])
CallCompact(w) == Begin(w, [Idle EXCEPT !.op = "compact"])
CallRestore(w) ==
  \E batch \in {r.batch : r \in revs} :
    Begin(w, [Idle EXCEPT !.op = "restore", !.from = batch, !.base = page])

LockPage(w) ==
  /\ tx[w].pc = IF tx[w].op = "restore" THEN "previewed" ELSE "called"
  /\ tx[w].op \in {"update", "delete", "publish", "restore"} /\ pageLock = NoOne
  /\ \/ /\ page = tx[w].base
        /\ pageLock' = w /\ Now(1)
        /\ Set(w, [tx[w] EXCEPT !.pc = "locked", !.at = clock])
        /\ UNCHANGED <<rows, page, revs, pubs, calls, overtaken>>
     \/ page # tx[w].base /\ Fails(w)

-----------------------------------------------------------------------------
(* Edits.                                                                  *)

\* pruneBlockRevisions: the batches of saves beyond the cap, from the newest
\* by the clock, but nothing that a publication of the page points at.
Saves(all) == {r \in all : r.kind = "save"}
Batches(all) == {r.batch : r \in Saves(all)}
TimeOf(all, batch) == Min({r.at : r \in {r \in Saves(all) : r.batch = batch}})
Newer(all, k) ==
  {TimeOf(all, j) : j \in {j \in Batches(all) : TimeOf(all, j) > TimeOf(all, k)}}
BeyondOrLast(all) == {k \in Batches(all) : Cardinality(Newer(all, k)) >= Cap - 1}
Beyond(all) == {k \in Batches(all) : Cardinality(Newer(all, k)) >= Cap}
PointedAt == UNION {{<<p.manifest[b], b>> : b \in DOMAIN p.manifest} : p \in pubs}
PrunableByRow(all) == IF Cardinality(all) > Cap THEN {CHOOSE r \in all : \A q \in all : q.at >= r.at} ELSE {}
Prunable(all) == {r \in all : r.batch \in Beyond(all) /\ <<r.batch, r.block>> \notin PointedAt}

\* What an edit writes, and the revision it leaves: of what is deleted the
\* last, of what is changed the new.  The row keeps the version it is stored at.
Written(t, r) == Row(t.id, Current, r.stored, r.version + 1)
RevOfBefore(t) ==
  Rev(t.id, t.block, "save", IF t.op = "delete" THEN "delete" ELSE "update", rows[t.block], t.at)
RevOf(t) ==
  IF t.op = "delete" THEN Rev(t.id, t.block, "save", "delete", rows[t.block], t.at)
  ELSE Rev(t.id, t.block, "save", "update", Written(t, rows[t.block]), t.at)

\* The block's row is taken, written, recorded and the history pruned; nothing
\* of that is seen before the commit.
FreshOrNot(t) == TRUE
Fresh(t) == t.seen = rows[t.block].version
TakeBlock(w) ==
  LET t == tx[w]
      at == IF t.op = "props" THEN clock ELSE t.at
  IN
  /\ \/ t.op \in {"update", "delete"} /\ t.pc = "locked"
     \/ t.op = "props" /\ t.pc = "called"
  /\ \A v \in Others(w) : ~Holds(v, t.block) /\ ~Refers(v, t.block)
  /\ \/ /\ t.block \in DOMAIN rows /\ Fresh(t)
        /\ Now(IF t.op = "props" THEN 1 ELSE 0)
        /\ Set(w, [t EXCEPT !.pc = "held", !.at = at,
                            !.doomed = Prunable(revs \cup {RevOf([t EXCEPT !.at = at])})])
        /\ UNCHANGED <<rows, page, revs, pubs, pageLock, calls, overtaken>>
     \/ ~(t.block \in DOMAIN rows /\ Fresh(t)) /\ Fails(w)

CommitEdit(w) ==
  LET t == tx[w] IN
  /\ t.pc = "held"
  /\ rows' = IF t.op = "delete" THEN Restrict(rows, DOMAIN rows \ {t.block})
             ELSE [rows EXCEPT ![t.block] = Written(t, @)]
  /\ revs' = (revs \cup {RevOf(t)}) \ t.doomed
  /\ page' = IF t.op = "props" THEN page ELSE page + 1
  /\ Overtakes(w) /\ Ended(w) /\ UNCHANGED <<pubs, calls, clock>>

-----------------------------------------------------------------------------
(* Compaction.                                                             *)

\* The rows of older versions are read without a lock; what cannot be upcast
\* is left out.
SelectBlocks(w) ==
  LET old == {b \in DOMAIN rows : rows[b].stored # Current /\ Valid(rows[b])} IN
  /\ tx[w].op = "compact" /\ tx[w].pc = "called"
  /\ Now(1)
  /\ Set(w, [tx[w] EXCEPT !.pc = "selected", !.at = clock, !.work = [b \in old |-> Upcast(rows[b])]])
  /\ UNCHANGED <<rows, page, revs, pubs, pageLock, calls, overtaken>>

\* The revision of one of them; it refers to the block, which must be there.
ClaimBlock(w) ==
  /\ tx[w].pc = "selected"
  /\ \E b \in DOMAIN tx[w].work \ tx[w].claimed :
       /\ \A v \in Others(w) : ~Holds(v, b)
       /\ \/ /\ b \in DOMAIN rows
             /\ Set(w, [tx[w] EXCEPT !.claimed = @ \cup {b}])
             /\ UNCHANGED <<rows, page, revs, pubs, pageLock, calls, clock, overtaken>>
          \/ b \notin DOMAIN rows /\ Fails(w)

\* One statement for all, by id alone.
Compacted(r, v) == Row(v.text, v.form, Current, r.version + 1)
WriteCompaction(w) ==
  LET t == tx[w] IN
  /\ t.pc = "selected" /\ t.claimed = DOMAIN t.work
  /\ rows' = [b \in DOMAIN rows |->
                IF b \in t.claimed THEN Compacted(rows[b], t.work[b]) ELSE rows[b]]
  /\ revs' = revs \cup {Rev(t.id, b, "save", "update", Row(t.work[b].text, Current, Current, 0), t.at) :
                          b \in t.claimed}
  /\ Overtakes(w) /\ Ended(w) /\ UNCHANGED <<page, pubs, calls, clock>>

-----------------------------------------------------------------------------
(* Restoring.                                                              *)

OfBatch(batch) == {r \in revs : r.batch = batch}

\* In the transaction, but before the page is locked.
Preview(w) ==
  LET found == OfBatch(tx[w].from) IN
  /\ tx[w].op = "restore" /\ tx[w].pc = "called"
  /\ \/ /\ found # {} /\ \A r \in found : Valid(r)
        /\ Set(w, [tx[w] EXCEPT !.pc = "previewed", !.work = [b \in {r.block : r \in found} |->
                     Upcast(CHOOSE r \in found : r.block = b)]])
        /\ UNCHANGED <<rows, page, revs, pubs, pageLock, calls, clock, overtaken>>
     \/ ~(found # {} /\ \A r \in found : Valid(r)) /\ Fails(w)

\* The batch is read again under the lock; what is no longer found is passed
\* over.  Deleted blocks come back under new ids, that nothing names.
Unused ==
  Blocks \ (DOMAIN rows \cup {r.block : r \in revs} \cup {tx[v].block : v \in Writers}
             \cup UNION {DOMAIN tx[v].work \cup {r.block : r \in tx[v].doomed} : v \in Writers})
Restored(t) == {b \in DOMAIN t.work : \E r \in revs : r.batch = t.from /\ r.block = b}
RestoreBatch(w) ==
  LET t == tx[w]
      back == {b \in Restored(t) : t.work[b].change = "delete"}
      again == Restored(t) \ back
  IN
  /\ t.op = "restore" /\ t.pc = "locked"
  /\ \A v \in Others(w), b \in again : ~Holds(v, b)
  /\ \/ /\ again \subseteq DOMAIN rows
        /\ \E new \in Injection(back, Unused) :
             LET made == {new[b] : b \in back}
                 Text(b) == t.work[b].text
                 Source(i) == CHOOSE b \in back : new[b] = i
                 next == [b \in DOMAIN rows \cup made |->
                            IF b \in made THEN Row(Text(Source(b)), Current, Current, 1)
                            ELSE IF b \in again
                            THEN Row(Text(b), Current, rows[b].stored, rows[b].version + 1)
                            ELSE rows[b]]
             IN /\ rows' = next
                /\ revs' = revs \cup
                     {Rev(t.id, b, "save", "update", next[b], t.at) : b \in again} \cup
                     {Rev(t.id, b, "save", "create", next[b], t.at) : b \in made}
        /\ page' = page + 1 /\ Overtakes(w) /\ Ended(w) /\ UNCHANGED <<pubs, calls, clock>>
     \/ ~(again \subseteq DOMAIN rows) /\ Fails(w)

-----------------------------------------------------------------------------
(* Publishing.                                                             *)

\* One statement reads the tree; a block that cannot be upcast refuses it.
ReadTree(w) ==
  /\ \/ tx[w].op = "publish" /\ tx[w].pc = "locked"
     \/ tx[w].op = "draft" /\ tx[w].pc = "called"
  /\ \/ /\ \A b \in DOMAIN rows : Valid(rows[b])
        /\ Now(1)
        /\ Set(w, [tx[w] EXCEPT !.pc = "read", !.at = clock,
                                !.work = [b \in DOMAIN rows |-> Upcast(rows[b])]])
        /\ UNCHANGED <<rows, page, revs, pubs, pageLock, calls, overtaken>>
     \/ ~(\A b \in DOMAIN rows : Valid(rows[b])) /\ Fails(w)

\* A revision of every block, the snapshot and what it points at.
Materialise(w) ==
  LET t == tx[w] IN
  /\ t.pc = "read"
  /\ \A v \in Others(w), b \in DOMAIN t.work : ~Holds(v, b)
  /\ \/ /\ DOMAIN t.work \subseteq DOMAIN rows
        /\ revs' = revs \cup {Rev(t.id, b, "publish", "update", t.work[b], t.at) : b \in DOMAIN t.work}
        /\ pubs' = pubs \cup {[draft |-> t.op = "draft",
                               snapshot |-> [b \in DOMAIN t.work |-> t.work[b].text],
                               manifest |-> [b \in DOMAIN t.work |-> t.id]]}
        /\ page' = IF t.op = "publish" THEN page + 1 ELSE page
        /\ Ended(w) /\ UNCHANGED <<rows, calls, clock, overtaken>>
     \/ ~(DOMAIN t.work \subseteq DOMAIN rows) /\ Fails(w)

-----------------------------------------------------------------------------
Init ==
  /\ \E stored \in Pages0 : rows = [b \in DOMAIN stored |-> Row(0, stored[b], stored[b], 1)]
  /\ page = 1 /\ revs = {} /\ pubs = {} /\ tx = [w \in Writers |-> Idle]
  /\ pageLock = NoOne /\ calls = 0 /\ clock = 1 /\ overtaken = {}

Next ==
  \E w \in Writers :
    \/ CallEdit(w) \/ CallUpdateBlockProps(w) \/ CallPublish(w) \/ CallDraft(w)
    \/ CallCompact(w) \/ CallRestore(w)
    \/ LockPage(w) \/ TakeBlock(w) \/ CommitEdit(w)
    \/ SelectBlocks(w) \/ ClaimBlock(w) \/ WriteCompaction(w)
    \/ Preview(w) \/ RestoreBatch(w)
    \/ ReadTree(w) \/ Materialise(w)

Spec == Init /\ [][Next]_vars

-----------------------------------------------------------------------------
(* Properties.                                                             *)

TypeOK ==
  /\ DOMAIN rows \subseteq Blocks /\ Range(rows) \subseteq Rows
  /\ page \in Nat /\ calls \in 0..MaxCalls /\ pageLock \in Writers \cup {NoOne}
  /\ \A r \in revs : r.batch \in 1..calls /\ r.block \in Blocks /\ r.at < clock
  /\ \A w \in Writers : pageLock = w <=> tx[w].op \in {"update", "delete", "publish", "restore"}
                                          /\ tx[w].pc \in {"locked", "held", "read"}

\* Whatever is stored, read, compacted, copied to the history and brought back
\* from it comes out in the form of the current version: the version a row
\* names and the form of its properties never part (versioning.ts).
ReadsAreCurrent == (\A b \in DOMAIN rows : Valid(rows[b])) /\ (\A r \in revs : Valid(r))

\* Every revision that a publication points at is there and says what the
\* snapshot shows, however much has been pruned since (pruneBlockRevisions).
ManifestResolves ==
  \A p \in pubs : \A b \in DOMAIN p.manifest :
    \E r \in revs : r.batch = p.manifest[b] /\ r.block = b /\ r.text = p.snapshot[b]

\* Pruning takes only what is beyond the cap, also when the transactions that
\* prune do not see each other's revisions.
KeepsTheNewest ==
  [][\A r \in revs \ revs' :
       Cardinality({k \in Batches(revs') : TimeOf(revs', k) > r.at}) >= Cap]_vars

\* The newest revision of a block by the clock, which is how the history is
\* listed, says what the block says, unless a compaction or a restore had
\* taken its time before the block was written by another.
NewestTells ==
  \A b \in DOMAIN rows \ overtaken :
    \A r \in {r \in Saves(revs) : r.block = b /\ r.change \in {"create", "update"}} :
      \/ r.text = rows[b].text
      \/ \E q \in Saves(revs) : q.block = b /\ q.change \in {"create", "update"} /\ q.at > r.at

\* What an edit writes over is what its caller has read, whoever was waited
\* for in between; and a compaction that nobody overtakes leaves every text as
\* it is (compaction.ts).
NoBlindOverwrite ==
  [][\A w \in Writers : (tx'[w] = Idle /\ rows' # rows) =>
       LET t == tx[w] IN
       /\ t.op \in {"update", "delete", "props"} => rows[t.block].version = t.seen
       /\ t.op = "compact" => \A b \in t.claimed \ overtaken : rows'[b].text = rows[b].text]_vars

\* A restore brings back all of a batch or, when the batch has been pruned
\* while it waited, nothing of it.
RestoreIsWhole ==
  [][\A w \in Writers : (tx[w].op = "restore" /\ tx'[w] = Idle /\ page' # page) =>
       \/ rows' = rows
       \/ \A b \in DOMAIN tx[w].work :
            \E i \in DOMAIN rows' :
              /\ i = b \/ (tx[w].work[b].change = "delete" /\ i \notin DOMAIN rows)
              /\ rows'[i].text = tx[w].work[b].text]_vars

\* What is stored is of its kind, reads in the current form, backs what the
\* publications show and tells what the blocks say.
StoreInv == TypeOK /\ ReadsAreCurrent /\ ManifestResolves /\ NewestTells
=============================================================================
