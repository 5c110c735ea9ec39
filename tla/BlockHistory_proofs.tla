------------------------ MODULE BlockHistory_proofs -------------------------
(***************************************************************************)
(* For any blocks, writers, caps and versions of the type: no edit writes  *)
(* over what its caller has not seen, pruning takes only what is beyond    *)
(* the cap, a restore brings back all of a batch or nothing, and what is   *)
(* stored reads in the current form, is what the publications point at and *)
(* what the newest revision tells.                                         *)
(***************************************************************************)
EXTENDS BlockHistory, FiniteSetTheorems, TLAPS

TxParts == {"op", "pc", "id", "block", "base", "seen", "at", "work", "claimed", "from", "doomed"}
IsFunction(f) == f = [x \in DOMAIN f |-> f[x]]
BlockOps == {"update", "delete", "props"}
Revs == [batch : 1..calls, block : Blocks, kind : {"save", "publish"},
         change : {"create", "update", "delete"},
         text : 0..MaxCalls, form : Forms, stored : 1..Current, at : 0..clock - 1]

\* What is known of a transaction wherever it is.
Shaped(t) ==
  /\ t = [x \in TxParts |-> t[x]]
  /\ t.op \in BlockOps \cup {"publish", "draft", "compact", "restore"} \/ t = Idle
  /\ t.pc \in {"called", "previewed", "locked", "held", "selected", "read"} \/ t = Idle
  /\ t.pc = "called" => t.work = <<>>
  /\ t.pc = "previewed" => t.op = "restore"
  /\ t.pc = "locked" => t.op \in {"update", "delete", "publish", "restore"}
  /\ t.pc = "held" => t.op \in BlockOps
  /\ t.pc = "selected" => t.op = "compact"
  /\ t.pc = "read" => t.op \in {"publish", "draft"}
  /\ t.op \in BlockOps => t.block \in Blocks /\ t.seen \in Nat
  /\ t.op \in BlockOps => t.work = <<>>
  /\ t.pc # "held" => t.doomed = {}
  /\ t.pc # "selected" => t.claimed = {}
  /\ t.pc # "idle" => t.id \in 1..calls
  /\ t.pc \in {"locked", "held", "selected", "read"} => t.at \in 0..clock - 1
  /\ IsFunction(t.work) /\ DOMAIN t.work \subseteq Blocks /\ t.claimed \subseteq DOMAIN t.work
  /\ t.pc \in {"selected", "read"} => \A b \in DOMAIN t.work : t.work[b] \in Rows
  /\ t.op = "restore" => t.from \in 1..calls /\ \A b \in DOMAIN t.work : t.work[b] \in Revs

\* The revisions that are there or that a transaction has found to prune.
Known == revs \cup UNION {tx[w].doomed : w \in Writers}
\* Those of them that have been committed.
Past == {r \in Known : \A w \in Writers : r.batch # tx[w].id}
IsWrite(r) == r.kind = "save" /\ r.change \in {"create", "update"}

\* Ids of calls are new, and what one call records is of one time and kind.
Typed ==
  /\ IsFunction(rows) /\ DOMAIN rows \subseteq Blocks /\ \A b \in DOMAIN rows : rows[b] \in Rows
  /\ page \in Nat /\ calls \in 0..MaxCalls /\ clock \in Nat \ {0} /\ overtaken \subseteq Blocks
  /\ IsFunction(tx) /\ DOMAIN tx = Writers /\ \A w \in Writers : Shaped(tx[w])
  /\ pageLock \in Writers \cup {NoOne}
  /\ \A w \in Writers : pageLock = w <=> tx[w].op \in {"update", "delete", "publish", "restore"}
                                          /\ tx[w].pc \in {"locked", "held", "read"}
  /\ Known \subseteq Revs
Apart ==
  /\ \A r \in revs, w \in Writers : r.batch # tx[w].id
  /\ \A v, w \in Writers : v # w /\ tx[v].pc # "idle" => tx[v].id # tx[w].id
  /\ \A v, w \in Writers : v # w => \A r \in tx[v].doomed : r.batch # tx[w].id
  /\ \A v, w \in Writers : tx[v].op = "restore" => tx[v].from # tx[w].id
  /\ \A q, r \in Known : q.batch = r.batch => q.at = r.at /\ q.kind = r.kind

\* A block is held by one, and nobody refers to it from what is not committed.
Exclusive ==
  /\ \A v, w \in Writers, b \in Blocks : v # w /\ Holds(w, b) => ~Holds(v, b) /\ ~Refers(v, b)
  /\ \A w \in Writers : tx[w].claimed \subseteq DOMAIN rows

\* Nothing that has been committed of a block is later than this transaction.
Later(w, b) == \A q \in Past : q.block = b /\ IsWrite(q) => q.at < tx[w].at

\* What a caller has read of a block, and what of it still holds.
Sees(w) ==
  LET t == tx[w] IN
  /\ t.op \in BlockOps /\ t.block \in DOMAIN rows => t.seen <= rows[t.block].version
  /\ t.pc = "locked" /\ t.op \in BlockOps /\ t.block \in DOMAIN rows /\ Fresh(t) => Later(w, t.block)
  /\ t.pc = "held" => t.block \in DOMAIN rows /\ Fresh(t) /\ Later(w, t.block)
  /\ t.pc = "selected" =>
       \A b \in (DOMAIN t.work \cap DOMAIN rows) \ overtaken :
         Later(w, b) /\ rows[b].text = t.work[b].text
  /\ t.pc = "locked" /\ t.op = "restore" => \A b \in DOMAIN rows \ overtaken : Later(w, b)

\* What a transaction is about to prune: whole batches, for which there will be
\* enough that are newer, and of a block the oldest.
Kept(w) == (revs \cup {RevOf(tx[w])}) \ tx[w].doomed
NewerKept(w, r) == {q.batch : q \in {q \in Saves(Kept(w)) : q.at > r.at}}
Prunes(w) ==
  tx[w].pc = "held" =>
    /\ \A r \in tx[w].doomed :
         /\ r.kind = "save" /\ (r.batch = tx[w].id => r.block = tx[w].block)
         /\ Cardinality(NewerKept(w, r)) >= Cap
         /\ \A q \in revs : q.batch = r.batch => q \in tx[w].doomed
         /\ \A q \in revs \ tx[w].doomed :
              IsWrite(q) /\ IsWrite(r) /\ q.block = r.block /\ r.block \in DOMAIN rows \ overtaken => q.at > r.at

\* A batch to be restored is there whole or not at all.
Whole(w) ==
  tx[w].op = "restore" /\ tx[w].pc \in {"previewed", "locked"} =>
    \A b \in DOMAIN tx[w].work :
      (\E r \in revs : r.batch = tx[w].from) => \E r \in revs : r.batch = tx[w].from /\ r.block = b

Manifested ==
  \A p \in pubs : \A b \in DOMAIN p.manifest :
    \E r \in revs : r.batch = p.manifest[b] /\ r.block = b /\ r.text = p.snapshot[b] /\ r.kind = "publish"

\* What compactions and publications have read is in the current form.
HasRead(w) ==
  tx[w].pc \in {"selected", "read"} => \A b \in DOMAIN tx[w].work : tx[w].work[b].form = Current

IInv ==
  /\ Typed /\ Apart /\ Exclusive /\ Manifested /\ NewestTells /\ (Tolerant => ReadsAreCurrent)
  /\ \A w \in Writers : Sees(w) /\ Prunes(w) /\ Whole(w) /\ HasRead(w)

USE BlockHistoryAssumption

-----------------------------------------------------------------------------
(* What the invariant says of the properties, and that it holds at first.  *)

LEMMA TellsStore == ASSUME Tolerant PROVE IInv => StoreInv
<1> SUFFICES ASSUME IInv PROVE StoreInv
  OBVIOUS
<1>1. TypeOK
  <2> USE DEF IInv, Typed
  <2>1. \A r \in revs : r.batch \in 1..calls /\ r.block \in Blocks /\ r.at < clock
    BY DEF Known, Revs
  <2>2. Range(rows) \subseteq Rows
    BY DEF Range
  <2> QED
    BY <2>1, <2>2 DEF TypeOK
<1>2. ManifestResolves
  BY DEF IInv, Manifested, ManifestResolves
<1> QED
  BY <1>1, <1>2 DEF IInv, StoreInv

LEMMA NothingIsEmpty == DOMAIN <<>> = {} /\ IsFunction(<<>>)
BY DEF IsFunction

LEMMA InitInv == Init => IInv
<1> SUFFICES ASSUME Init PROVE IInv
  OBVIOUS
<1> USE DEF Init
<1> PICK stored \in Pages0 : rows = [b \in DOMAIN stored |-> Row(0, stored[b], stored[b], 1)]
  OBVIOUS
<1>1. \A b \in DOMAIN rows : rows[b] \in Rows /\ rows[b].form = rows[b].stored
  BY DEF BlockHistoryAssumption, Range, Row, Rows, Forms
<1>2. \A w \in Writers : tx[w] = Idle
  OBVIOUS
<1>3. Shaped(Idle)
  BY NothingIsEmpty DEF Shaped, Idle, TxParts, BlockOps
<1>4. Known = {}
  BY <1>2 DEF Known, Idle
<1>5. Typed
  BY <1>1, <1>2, <1>3, <1>4, NothingIsEmpty DEF Typed, IsFunction, BlockHistoryAssumption, Idle
<1>6. Apart /\ Exclusive /\ Manifested /\ NewestTells
  BY <1>2, <1>4 DEF Apart, Exclusive, Manifested, NewestTells, Idle, Holds, Refers, Known, Saves
<1>7. ReadsAreCurrent
  BY <1>1 DEF ReadsAreCurrent, Valid, Upcast, Rows, BlockHistoryAssumption, Forms
<1>8. \A w \in Writers : Sees(w) /\ Prunes(w) /\ Whole(w) /\ HasRead(w)
  BY <1>2 DEF Sees, Prunes, Whole, HasRead, Idle, BlockOps
<1> QED
  BY <1>5, <1>6, <1>7, <1>8 DEF IInv

-----------------------------------------------------------------------------
(* Steps that commit nothing.                                              *)

\* One transaction goes on, starts or ends.
Moves(w) ==
  /\ IsFunction(tx') /\ DOMAIN tx' = Writers /\ \A v \in Writers \ {w} : tx'[v] = tx[v]
  /\ calls' \in calls..MaxCalls /\ clock' \in Nat /\ clock <= clock'
  /\ Shaped(tx[w])'
  /\ pageLock' \in Writers \cup {NoOne}
  /\ \A v \in Writers :
       pageLock' = v <=> tx'[v].op \in {"update", "delete", "publish", "restore"} /\ tx'[v].pc \in {"locked", "held", "read"}
  /\ \/ tx'[w] = Idle
     \/ tx'[w].id = tx[w].id /\ tx[w].pc # "idle"
     \/ tx'[w].id = calls + 1
Quietly(w) ==
  /\ Moves(w) /\ UNCHANGED <<rows, page, revs, pubs, overtaken>>
  /\ tx[w].pc = "held" => tx'[w] = Idle
  /\ tx'[w].op = "restore" => \/ tx[w].op = "restore" /\ tx'[w].from = tx[w].from
                              \/ \E r \in revs : r.batch = tx'[w].from
  /\ \A r \in tx'[w].doomed : r \in revs \/ (r = RevOf(tx'[w]) /\ r \in Revs')
  /\ \A v \in Writers \ {w}, b \in Blocks :
       /\ Holds(w, b)' => ~Holds(v, b) /\ ~Refers(v, b)
       /\ Refers(w, b)' => ~Holds(v, b)
  /\ tx'[w].claimed \subseteq DOMAIN rows

LEMMA MoreRevs ==
  ASSUME NEW w \in Writers, IInv, calls' \in calls..MaxCalls, clock' \in Nat, clock <= clock'
  PROVE  Revs \subseteq Revs'
BY DEF Revs, IInv, Typed

LEMMA StaysShaped ==
  ASSUME NEW w \in Writers, IInv, calls' \in calls..MaxCalls, clock' \in Nat, clock <= clock', tx'[w] = tx[w]
  PROVE  Shaped(tx[w])'
<1>1. Revs \subseteq Revs'
  BY MoreRevs
<1>2. Shaped(tx[w]) /\ calls \in 0..MaxCalls /\ clock \in Nat \ {0}
  BY DEF IInv, Typed
<1>3. tx[w].pc \in {"locked", "held", "selected", "read"} => tx[w].at \in 0..clock' - 1
  BY <1>2 DEF Shaped
<1>4. tx[w].pc # "idle" => tx[w].id \in 1..calls'
  BY <1>2 DEF Shaped
<1>5. tx[w].op = "restore" => tx[w].from \in 1..calls' /\ \A b \in DOMAIN tx[w].work : tx[w].work[b] \in Revs'
  <2>1. tx[w].op = "restore" => tx[w].from \in 1..calls /\ \A b \in DOMAIN tx[w].work : tx[w].work[b] \in Revs
    BY <1>2 DEF Shaped
  <2>2. 1..calls \subseteq 1..calls'
    BY <1>2
  <2> QED
    BY <1>1, <2>1, <2>2
<1> QED
  BY <1>2, <1>3, <1>4, <1>5 DEF Shaped, IsFunction

LEMMA PastShrinks ==
  ASSUME NEW w \in Writers, IInv, Quietly(w)
  PROVE  /\ Past' \subseteq Past /\ Known' \subseteq Revs'
         /\ \A r \in Known' : r \in Known \/ (r = RevOf(tx'[w]) /\ r.batch = tx'[w].id /\ tx'[w].pc = "held")
<1> USE DEF Quietly, Moves
<1>1. \A r \in Known' : r \in Known \/ (r \in tx'[w].doomed /\ r \notin revs /\ r = RevOf(tx'[w]))
  BY DEF Known
<1>2. \A r \in tx'[w].doomed : tx'[w].pc = "held" /\ RevOf(tx'[w]).batch = tx'[w].id
  BY DEF Shaped, RevOf, Rev
<1>3. Known' \subseteq Revs'
  BY <1>1, MoreRevs DEF IInv, Typed
<1>4. ASSUME NEW r \in Past' PROVE r \in Past
  <2>1. r \in Known /\ \A v \in Writers : r.batch # tx'[v].id
    BY <1>1, <1>2, <1>4 DEF Past
  <2>2. r \in revs \/ \E v \in Writers \ {w} : r \in tx[v].doomed
    <3>1. r \in revs \/ (\E v \in Writers : r \in tx'[v].doomed)
      BY <1>4 DEF Past, Known
    <3>2. r \in tx'[w].doomed => r \in revs
      BY <1>2, <2>1
    <3> QED
      BY <3>1, <3>2
  <2>3. r.batch # tx[w].id
    BY <2>2 DEF IInv, Apart
  <2> QED
    BY <2>1, <2>3 DEF Past
<1> QED
  BY <1>1, <1>2, <1>3, <1>4

LEMMA QuietApart ==
  ASSUME NEW w \in Writers, IInv, Quietly(w)
  PROVE  Apart'
<1> USE DEF Quietly, Moves
<1>0. /\ \A v \in Writers : Shaped(tx[v]) /\ tx[v].id \in 0..calls
      /\ calls \in Nat /\ \A r \in Known : r.batch \in 1..calls
      /\ Idle.id = 0 /\ Idle.op # "restore" /\ Idle.pc = "idle" /\ Idle.doomed = {}
  BY DEF IInv, Typed, Revs, Shaped, Idle
<1>1. tx'[w].id \in {0, calls + 1} \/ (tx'[w].id = tx[w].id /\ tx[w].pc # "idle")
  BY <1>0
<1>2. \A r \in revs, v \in Writers : r.batch # tx'[v].id
  BY <1>0, <1>1 DEF IInv, Apart, Known
<1>3. \A u, v \in Writers : u # v /\ tx'[v].pc # "idle" => tx'[v].id # tx'[u].id
  <2> SUFFICES ASSUME NEW u \in Writers, NEW v \in Writers, u # v, tx'[v].pc # "idle"
               PROVE  tx'[v].id # tx'[u].id
    OBVIOUS
  <2>1. tx'[w].pc # "idle" => tx'[w].id \in Nat \ {0}
    BY <1>0 DEF Shaped
  <2>2. \A x, y \in Writers : x # y /\ tx[x].pc # "idle" => tx[x].id # tx[y].id
    BY DEF IInv, Apart
  <2>3. CASE v = w
    BY <1>0, <1>1, <2>1, <2>2, <2>3
  <2>4. CASE u = w
    <3>0. tx[v].pc # "idle"
      BY <2>4
    <3>1. tx[v].id \in 1..calls
      BY <1>0, <3>0 DEF Shaped
    <3> QED
      BY <1>0, <1>1, <2>2, <2>4, <3>1
  <2> QED
    BY <2>2, <2>3, <2>4
<1>4. \A u, v \in Writers : u # v => \A r \in tx'[v].doomed : r.batch # tx'[u].id
  <2> SUFFICES ASSUME NEW u \in Writers, NEW v \in Writers, u # v, NEW r \in tx'[v].doomed
               PROVE  r.batch # tx'[u].id
    OBVIOUS
  <2>1. CASE v = w
    <3>1. r \in revs \/ (r.batch = tx'[w].id /\ tx'[w].pc = "held")
      BY <2>1 DEF Shaped, RevOf, Rev
    <3> QED
      BY <1>2, <1>3, <2>1, <3>1
  <2>2. CASE v # w
    <3>1. r \in Known /\ r \in tx[v].doomed
      BY <2>2 DEF Known
    <3> QED
      BY <1>0, <1>1, <2>2, <3>1 DEF IInv, Apart
  <2> QED
    BY <2>1, <2>2
<1>5. \A u, v \in Writers : tx'[v].op = "restore" => tx'[v].from # tx'[u].id
  <2> SUFFICES ASSUME NEW u \in Writers, NEW v \in Writers, tx'[v].op = "restore"
               PROVE  tx'[v].from # tx'[u].id
    OBVIOUS
  <2>1. CASE \E r \in revs : r.batch = tx'[v].from
    BY <1>2, <2>1
  <2>2. CASE tx[v].op = "restore" /\ tx'[v].from = tx[v].from
    <3>1. tx[v].from \in 1..calls
      BY <1>0, <2>2 DEF Shaped
    <3> QED
      BY <1>0, <1>1, <2>2, <3>1 DEF IInv, Apart
  <2> QED
    BY <2>1, <2>2
<1>6. \A q, r \in Known' : q.batch = r.batch => q.at = r.at /\ q.kind = r.kind
  <2> SUFFICES ASSUME NEW q \in Known', NEW r \in Known', q.batch = r.batch
               PROVE  q.at = r.at /\ q.kind = r.kind
    OBVIOUS
  <2>1. CASE q \in Known /\ r \in Known
    BY <2>1 DEF IInv, Apart
  <2>2. ASSUME NEW x \in Known', NEW y \in Known', x.batch = y.batch, x \notin Known
        PROVE  x = y
    <3>1. x = RevOf(tx'[w]) /\ x.batch = tx'[w].id /\ tx'[w].pc = "held"
      BY <2>2, PastShrinks
    <3>2. CASE y \notin Known
      BY <2>2, <3>1, <3>2, PastShrinks
    <3>3. CASE y \in Known
      <4>1. tx'[w].id # calls + 1
        BY <1>0, <2>2, <3>1, <3>3
      <4>2. tx'[w].id = tx[w].id
        BY <3>1, <4>1, <1>0
      <4>3. y \in tx[w].doomed
        BY <1>0, <2>2, <3>1, <3>3, <4>2 DEF Known, IInv, Apart
      <4>4. tx[w].pc = "held" /\ tx'[w].pc # "idle"
        BY <1>0, <3>1, <4>3 DEF Shaped
      <4> QED
        BY <1>0, <4>4
    <3> QED
      BY <3>2, <3>3
  <2> QED
    BY <2>1, <2>2
<1> QED
  BY <1>2, <1>3, <1>4, <1>5, <1>6 DEF Apart

LEMMA QuietKeeps ==
  ASSUME NEW w \in Writers, IInv, Quietly(w), Sees(w)', Prunes(w)', Whole(w)', HasRead(w)'
  PROVE  IInv'
<1> USE DEF Quietly, Moves
<1>1. Typed'
  <2>1. \A v \in Writers : Shaped(tx[v])'
    BY StaysShaped
  <2> QED
    BY <2>1, PastShrinks DEF IInv, Typed
<1>2. Apart'
  BY QuietApart
<1>3. Exclusive'
  <2> SUFFICES ASSUME NEW u \in Writers, NEW v \in Writers, NEW b \in Blocks, u # v, Holds(v, b)'
               PROVE  ~Holds(u, b)' /\ ~Refers(u, b)'
    <3>1. \A v \in Writers : tx'[v].claimed \subseteq DOMAIN rows
      BY DEF IInv, Exclusive
    <3> QED
      BY <3>1 DEF Exclusive
  <2> QED
    BY DEF IInv, Exclusive, Holds, Refers
<1>4. Manifested' /\ NewestTells' /\ (Tolerant => ReadsAreCurrent')
  BY DEF IInv, Manifested, NewestTells, ReadsAreCurrent, Valid, Upcast, Saves
<1>5. ASSUME NEW v \in Writers, v # w
      PROVE  Sees(v)' /\ Prunes(v)' /\ Whole(v)' /\ HasRead(v)'
  <2>1. Past' \subseteq Past /\ tx'[v] = tx[v]
    BY <1>5, PastShrinks
  <2>2. \A b \in Blocks : Later(v, b) => Later(v, b)'
    BY <2>1 DEF Later
  <2>3. Sees(v)'
    <3>1. Sees(v) /\ DOMAIN rows \subseteq Blocks /\ (tx[v].op \in BlockOps => tx[v].block \in Blocks)
      BY DEF IInv, Typed, Shaped
    <3> QED
      BY <2>1, <2>2, <3>1 DEF Sees, Fresh
  <2>4. Prunes(v)'
    <3>1. Prunes(v) /\ Kept(v)' = Kept(v)
      BY <2>1 DEF IInv, Kept, RevOf, Rev, Written, Row
    <3>2. \A r : NewerKept(v, r)' = NewerKept(v, r)
      BY <3>1 DEF NewerKept, Saves
    <3> QED
      BY <2>1, <3>1, <3>2 DEF Prunes
  <2> QED
    BY <2>1, <2>3, <2>4 DEF IInv, Whole, HasRead
<1> QED
  BY <1>1, <1>2, <1>3, <1>4, <1>5 DEF IInv

LEMMA SetMoves ==
  ASSUME NEW w \in Writers, IInv, NEW t, Set(w, t)
  PROVE  /\ IsFunction(tx') /\ DOMAIN tx' = Writers /\ tx'[w] = t
         /\ \A v \in Writers \ {w} : tx'[v] = tx[v]
BY DEF IInv, Typed, Set, IsFunction

LEMMA FailsKeeps == ASSUME NEW w \in Writers, IInv, Fails(w) PROVE IInv'
<1> USE DEF Fails, Ended
<1>1. /\ IsFunction(tx') /\ DOMAIN tx' = Writers /\ tx'[w] = Idle
      /\ \A v \in Writers \ {w} : tx'[v] = tx[v]
  BY SetMoves
<1>2. Shaped(tx[w])'
  <2>1. /\ Idle = [x \in TxParts |-> Idle[x]] /\ Idle.op = "none" /\ Idle.pc = "idle"
        /\ Idle.work = <<>> /\ Idle.claimed = {} /\ Idle.doomed = {}
    BY DEF Idle, TxParts
  <2>2. IsFunction(Idle.work) /\ DOMAIN Idle.work = {}
    BY <2>1, NothingIsEmpty
  <2> QED
    BY <1>1, <2>1, <2>2 DEF Shaped, BlockOps
<1>3. Idle.op = "none" /\ Idle.pc = "idle" /\ Idle.doomed = {} /\ Idle.claimed = {}
  BY DEF Idle
<1>4. Quietly(w)
  <2>1. Moves(w)
    BY <1>1, <1>2, <1>3 DEF Moves, IInv, Typed, BlockHistoryAssumption
  <2> QED
    BY <1>1, <1>3, <2>1 DEF Quietly, Holds, Refers
<1> QED
  BY <1>1, <1>3, <1>4, QuietKeeps DEF Sees, Prunes, Whole, HasRead, BlockOps

LEMMA BeginKeeps ==
  ASSUME NEW w \in Writers, IInv, NEW t, Begin(w, t),
         t = [x \in TxParts |-> t[x]], t.work = <<>>, t.claimed = {}, t.doomed = {},
         t.op \in BlockOps \cup {"publish", "draft", "compact", "restore"},
         t.op \in BlockOps => t.block \in DOMAIN rows /\ t.seen = rows[t.block].version,
         t.op = "restore" => \E r \in revs : r.batch = t.from
  PROVE  IInv'
<1> USE DEF Begin
<1> DEFINE x == [t EXCEPT !.pc = "called", !.id = calls + 1]
<1>1. /\ IsFunction(tx') /\ DOMAIN tx' = Writers /\ tx'[w] = x
      /\ \A v \in Writers \ {w} : tx'[v] = tx[v]
  BY SetMoves
<1>2. /\ x = [y \in TxParts |-> x[y]] /\ x.pc = "called" /\ x.id = calls + 1 /\ x.work = <<>> /\ x.claimed = {}
      /\ x.doomed = {} /\ x.op = t.op /\ x.block = t.block /\ x.seen = t.seen /\ x.from = t.from
  BY DEF TxParts
<1> HIDE DEF x
<1>3. calls \in Nat /\ calls' = calls + 1 /\ calls' \in 0..MaxCalls /\ clock \in Nat \ {0}
  BY DEF IInv, Typed, BlockHistoryAssumption
<1>4. \A b \in DOMAIN rows : b \in Blocks /\ rows[b].version \in Nat
  BY DEF IInv, Typed, Rows
<1>5. t.op = "restore" => t.from \in 1..calls
  BY DEF IInv, Typed, Known, Revs
<1>6. Shaped(tx[w])'
  <2>1. IsFunction(x.work) /\ DOMAIN x.work = {}
    BY <1>2, NothingIsEmpty
  <2> QED
    <3>1. x.id \in 1..calls'
      BY <1>2, <1>3
    <3>2. x.op \in BlockOps => x.block \in Blocks /\ x.seen \in Nat
      BY <1>2, <1>4
    <3>3. x.op = "restore" => x.from \in 1..calls'
      BY <1>2, <1>3, <1>5
    <3>4. x.op \in BlockOps \cup {"publish", "draft", "compact", "restore"}
      BY <1>2
    <3> QED
      BY <1>1, <1>2, <2>1, <3>1, <3>2, <3>3, <3>4 DEF Shaped
<1>7. Quietly(w)
  <2>1. Moves(w)
    BY <1>1, <1>2, <1>3, <1>6 DEF Moves, IInv, Typed
  <2> QED
    BY <1>1, <1>2, <2>1 DEF Quietly, Holds, Refers
<1>8. Sees(w)'
  BY <1>1, <1>2, <1>4 DEF Sees, BlockOps
<1> QED
  BY <1>1, <1>2, <1>7, <1>8, QuietKeeps DEF Prunes, Whole, HasRead

LEMMA CallKeeps ==
  ASSUME NEW w \in Writers, IInv,
         CallEdit(w) \/ CallUpdateBlockProps(w) \/ CallPublish(w) \/ CallDraft(w) \/ CallCompact(w) \/ CallRestore(w)
  PROVE  IInv'
<1>1. CASE CallEdit(w)
  <2> PICK op \in {"update", "delete"}, b \in DOMAIN rows :
        Begin(w, [Idle EXCEPT !.op = op, !.block = b, !.base = page, !.seen = rows[b].version])
    BY <1>1 DEF CallEdit
  <2> QED
    BY BeginKeeps DEF Idle, TxParts, BlockOps
<1>2. CASE CallUpdateBlockProps(w)
  <2> PICK b \in DOMAIN rows : Begin(w, [Idle EXCEPT !.op = "props", !.block = b, !.seen = rows[b].version])
    BY <1>2 DEF CallUpdateBlockProps
  <2> QED
    BY BeginKeeps DEF Idle, TxParts, BlockOps
<1>3. CASE CallPublish(w)
  BY <1>3, BeginKeeps DEF CallPublish, Idle, TxParts, BlockOps
<1>4. CASE CallDraft(w)
  BY <1>4, BeginKeeps DEF CallDraft, Idle, TxParts, BlockOps
<1>5. CASE CallCompact(w)
  BY <1>5, BeginKeeps DEF CallCompact, Idle, TxParts, BlockOps
<1>6. CASE CallRestore(w)
  <2> PICK batch \in {r.batch : r \in revs} : Begin(w, [Idle EXCEPT !.op = "restore", !.from = batch, !.base = page])
    BY <1>6 DEF CallRestore
  <2> QED
    BY BeginKeeps DEF Idle, TxParts, BlockOps
<1> QED
  BY <1>1, <1>2, <1>3, <1>4, <1>5, <1>6

LEMMA NowIsLater ==
  ASSUME NEW w \in Writers, IInv, Quietly(w), tx'[w].at = clock
  PROVE  \A b : Later(w, b)'
<1>1. \A q \in Past' : q \in Revs
  BY PastShrinks DEF Past, IInv, Typed
<1>2. clock \in Nat \ {0}
  BY DEF IInv, Typed
<1> QED
  BY <1>1, <1>2 DEF Later, Revs

LEMMA LockPageKeeps == ASSUME NEW w \in Writers, IInv, LockPage(w) PROVE IInv'
<1>1. CASE page # tx[w].base /\ Fails(w)
  BY <1>1, FailsKeeps
<1>2. CASE /\ page = tx[w].base
           /\ pageLock' = w /\ Now(1)
           /\ Set(w, [tx[w] EXCEPT !.pc = "locked", !.at = clock])
           /\ UNCHANGED <<rows, page, revs, pubs, calls, overtaken>>
  <2> DEFINE t == tx[w]
             x == [t EXCEPT !.pc = "locked", !.at = clock]
  <2>0. Shaped(t) /\ clock \in Nat \ {0} /\ clock' = clock + 1 /\ calls' = calls
        /\ calls \in 0..MaxCalls /\ MaxCalls \in Nat
    BY <1>2 DEF IInv, Typed, Now, BlockHistoryAssumption
  <2>1. /\ IsFunction(tx') /\ DOMAIN tx' = Writers /\ tx'[w] = x
        /\ \A v \in Writers \ {w} : tx'[v] = tx[v]
    BY <1>2, SetMoves
  <2>2. /\ x = [y \in TxParts |-> x[y]] /\ x.pc = "locked" /\ x.at = clock /\ x.id = t.id /\ x.work = t.work
        /\ x.claimed = t.claimed /\ x.doomed = t.doomed /\ x.op = t.op /\ x.block = t.block /\ x.seen = t.seen
        /\ x.from = t.from
    BY <2>0 DEF Shaped, TxParts
  <2>3. t.op \in {"update", "delete", "publish", "restore"} /\ t.pc \in {"called", "previewed"} /\ pageLock = NoOne
        /\ (t.op = "restore" <=> t.pc = "previewed")
    BY DEF LockPage
  <2>4. t.id \in 1..calls /\ t.claimed = {} /\ t.doomed = {}
    BY <2>0, <2>3 DEF Shaped
  <2>5. Revs \subseteq Revs'
    BY <2>0, MoreRevs
  <2> HIDE DEF x
  <2>6. Shaped(tx[w])'
    <3>1. x.at \in 0..clock' - 1
      BY <2>0, <2>2
    <3>2. x.op = "restore" => x.from \in 1..calls' /\ \A b \in DOMAIN x.work : x.work[b] \in Revs'
      BY <2>0, <2>2, <2>5 DEF Shaped
    <3>3. x.op \in BlockOps => x.block \in Blocks /\ x.seen \in Nat /\ x.work = <<>>
      BY <2>0, <2>2 DEF Shaped
    <3>4. IsFunction(x.work) /\ DOMAIN x.work \subseteq Blocks
      BY <2>0, <2>2 DEF Shaped
    <3>5. x.op \in BlockOps \cup {"publish", "draft", "compact", "restore"} /\ x.id \in 1..calls'
      BY <2>0, <2>2, <2>3, <2>4 DEF BlockOps
    <3> QED
      BY <2>0, <2>1, <2>2, <2>3, <2>4, <3>1, <3>2, <3>3, <3>4, <3>5 DEF Shaped
  <2>7. Quietly(w)
    <3>1. Moves(w)
      BY <1>2, <2>0, <2>1, <2>2, <2>3, <2>4, <2>6 DEF Moves, IInv, Typed, BlockHistoryAssumption
    <3> QED
      BY <1>2, <2>1, <2>2, <2>3, <2>4, <3>1 DEF Quietly, Holds, Refers
  <2>8. Sees(w)'
    <3>1. Sees(w)
      BY DEF IInv
    <3> QED
      BY <1>2, <2>1, <2>2, <2>7, <3>1, NowIsLater DEF Sees
  <2>9. Prunes(w)' /\ Whole(w)' /\ HasRead(w)'
    <3>1. Whole(w)
      BY DEF IInv
    <3> QED
      BY <1>2, <2>1, <2>2, <2>3, <3>1 DEF Prunes, Whole, HasRead
  <2> QED
    BY <2>7, <2>8, <2>9, QuietKeeps
<1> QED
  BY <1>1, <1>2 DEF LockPage

\* A transaction goes on, with what it has been asked.
GoesOn(w, x) ==
  LET t == tx[w] IN
  /\ Set(w, x) /\ x = [y \in TxParts |-> x[y]]
  /\ x.id = t.id /\ x.op = t.op /\ x.block = t.block /\ x.seen = t.seen /\ x.from = t.from
  /\ UNCHANGED <<rows, page, revs, pubs, pageLock, calls, overtaken>>
  /\ clock' \in Nat /\ clock <= clock'
  /\ t.pc \notin {"idle", "held"}
  /\ \/ x.pc = "previewed" /\ x.op = "restore" /\ t.pc = "called"
     \/ x.pc = "held" /\ x.op \in BlockOps /\ (x.op = "props" <=> t.pc = "called") /\ t.pc \in {"called", "locked"}
     \/ x.pc = "selected" /\ x.op = "compact"
     \/ x.pc = "read" /\ ((x.op = "publish" /\ t.pc = "locked") \/ (x.op = "draft" /\ t.pc = "called"))
  /\ x.pc \in {"held", "selected", "read"} => x.at \in 0..clock' - 1
  /\ IsFunction(x.work) /\ DOMAIN x.work \subseteq Blocks /\ (x.op \in BlockOps => x.work = t.work)
  /\ x.pc \in {"selected", "read"} => \A b \in DOMAIN x.work : x.work[b] \in Rows
  /\ x.pc = "previewed" => \A b \in DOMAIN x.work : x.work[b] \in Revs
  /\ x.pc # "held" => x.doomed = {}
  /\ \A r \in x.doomed : r \in revs \/ (r = RevOf(x) /\ r \in Revs')
  /\ x.pc # "selected" => x.claimed = {}
  /\ x.claimed \subseteq DOMAIN x.work /\ x.claimed \subseteq DOMAIN rows
  /\ \A v \in Writers \ {w}, b \in Blocks :
       /\ x.pc = "held" /\ x.block = b => ~Holds(v, b) /\ ~Refers(v, b)
       /\ b \in x.claimed => ~Holds(v, b)

LEMMA GoesQuietly ==
  ASSUME NEW w \in Writers, IInv, NEW x, GoesOn(w, x)
  PROVE  Quietly(w) /\ tx'[w] = x
<1> USE DEF GoesOn
<1> DEFINE t == tx[w]
<1>1. /\ IsFunction(tx') /\ DOMAIN tx' = Writers /\ tx'[w] = x
      /\ \A v \in Writers \ {w} : tx'[v] = tx[v]
  BY SetMoves
<1>2. /\ Shaped(t) /\ calls \in 0..MaxCalls /\ MaxCalls \in Nat /\ clock \in Nat \ {0}
      /\ pageLock = w <=> t.op \in {"update", "delete", "publish", "restore"} /\ t.pc \in {"locked", "held", "read"}
  BY DEF IInv, Typed, BlockHistoryAssumption
<1>3. Revs \subseteq Revs'
  BY <1>2, MoreRevs
<1>4. t.op \in BlockOps \cup {"publish", "draft", "compact", "restore"} /\ t # Idle /\ t.id \in 1..calls
      /\ (t.pc = "locked" => t.op \in {"update", "delete", "publish", "restore"})
  BY <1>2 DEF Shaped, Idle
<1>5. x.op \in BlockOps => x.block \in Blocks /\ x.seen \in Nat /\ x.work = <<>>
  BY <1>2 DEF Shaped
<1>6. x.op = "restore" => x.from \in 1..calls
  BY <1>2 DEF Shaped
<1>7. Shaped(x)'
  <2>1. x.op = "restore" => x.pc = "previewed"
    BY DEF BlockOps
  <2>2. x.op = "restore" => \A b \in DOMAIN x.work : x.work[b] \in Revs'
    BY <1>3, <2>1
  <2>3. x.pc \in {"held", "selected", "read", "previewed"}
    OBVIOUS
  <2>4. x.pc = "held" => x.op \in BlockOps
    OBVIOUS
  <2> QED
    BY <1>1, <1>4, <1>5, <1>6, <2>1, <2>2, <2>3, <2>4 DEF Shaped
<1>8. x.op \in {"update", "delete", "publish", "restore"} /\ x.pc \in {"locked", "held", "read"}
        <=> t.op \in {"update", "delete", "publish", "restore"} /\ t.pc \in {"locked", "held", "read"}
  <2>1. CASE x.pc = "held"
    BY <2>1 DEF BlockOps
  <2>2. CASE x.pc # "held"
    BY <1>2, <2>2 DEF BlockOps, Shaped
  <2> QED
    BY <2>1, <2>2
<1>9. Moves(w)
  <2>1. \A v \in Writers :
          pageLock' = v <=> tx'[v].op \in {"update", "delete", "publish", "restore"} /\ tx'[v].pc \in {"locked", "held", "read"}
    BY <1>1, <1>8 DEF IInv, Typed
  <2>2. Shaped(tx[w])'
    BY <1>1, <1>7
  <2> QED
    BY <1>1, <1>2, <2>1, <2>2 DEF Moves, IInv, Typed
<1> QED
  BY <1>1, <1>9 DEF Quietly, Holds, Refers

LEMMA UpcastRow ==
  ASSUME NEW r \in Rows, Valid(r)
  PROVE  Upcast(r) \in Rows /\ Upcast(r).form = Current /\ Upcast(r).text = r.text /\ Upcast(r).stored = r.stored
BY DEF Rows, Valid, Upcast, Forms, BlockHistoryAssumption

LEMMA UpcastRev ==
  ASSUME NEW r \in Revs, Valid(r)
  PROVE  Upcast(r) \in Revs
BY DEF Revs, Valid, Upcast, Forms, BlockHistoryAssumption

LEMMA SelectBlocksKeeps == ASSUME NEW w \in Writers, IInv, SelectBlocks(w) PROVE IInv'
<1> DEFINE t == tx[w]
           old == {b \in DOMAIN rows : rows[b].stored # Current /\ Valid(rows[b])}
           read == [b \in old |-> Upcast(rows[b])]
           x == [t EXCEPT !.pc = "selected", !.at = clock, !.work = read]
<1>0. Shaped(t) /\ clock \in Nat \ {0} /\ clock' = clock + 1
  BY DEF IInv, Typed, SelectBlocks, Now
<1>1. /\ t.op = "compact" /\ t.pc = "called" /\ Set(w, x)
      /\ UNCHANGED <<rows, page, revs, pubs, pageLock, calls, overtaken>>
  BY DEF SelectBlocks
<1>2. /\ x = [y \in TxParts |-> x[y]] /\ x.pc = "selected" /\ x.at = clock /\ x.id = t.id /\ x.work = read
      /\ x.claimed = t.claimed /\ x.doomed = t.doomed /\ x.op = t.op /\ x.block = t.block /\ x.seen = t.seen
      /\ x.from = t.from
  BY <1>0 DEF Shaped, TxParts
<1>3. t.claimed = {} /\ t.doomed = {}
  BY <1>0, <1>1 DEF Shaped
<1>4. IsFunction(read) /\ DOMAIN read = old
  BY DEF IsFunction
<1>5. old \subseteq DOMAIN rows /\ DOMAIN rows \subseteq Blocks
      /\ \A b \in old : read[b] \in Rows /\ read[b].form = Current /\ read[b].text = rows[b].text
  BY UpcastRow DEF IInv, Typed
<1> HIDE DEF x, read, old
<1>6. GoesOn(w, x)
  <2>1. x.at \in 0..clock' - 1
    BY <1>0, <1>2
  <2>2. IsFunction(x.work) /\ DOMAIN x.work \subseteq Blocks /\ \A b \in DOMAIN x.work : x.work[b] \in Rows
    BY <1>2, <1>4, <1>5
  <2>3. x.op \notin BlockOps /\ clock' \in Nat /\ clock <= clock' /\ x.claimed = {} /\ x.doomed = {}
    BY <1>0, <1>1, <1>2, <1>3 DEF BlockOps
  <2> QED
    BY <1>1, <1>2, <2>1, <2>2, <2>3 DEF GoesOn
<1>7. Quietly(w) /\ tx'[w] = x
  BY <1>6, GoesQuietly
<1>8. Sees(w)'
  BY <1>1, <1>2, <1>4, <1>5, <1>7, NowIsLater DEF Sees, BlockOps
<1>9. Prunes(w)' /\ Whole(w)' /\ HasRead(w)'
  BY <1>2, <1>4, <1>5, <1>7 DEF Prunes, Whole, HasRead
<1> QED
  BY <1>7, <1>8, <1>9, QuietKeeps

LEMMA ClaimBlockKeeps == ASSUME NEW w \in Writers, IInv, ClaimBlock(w) PROVE IInv'
<1> DEFINE t == tx[w]
<1> PICK b \in DOMAIN t.work \ t.claimed :
      /\ \A v \in Others(w) : ~Holds(v, b)
      /\ \/ /\ b \in DOMAIN rows
            /\ Set(w, [t EXCEPT !.claimed = @ \cup {b}])
            /\ UNCHANGED <<rows, page, revs, pubs, pageLock, calls, clock, overtaken>>
         \/ b \notin DOMAIN rows /\ Fails(w)
  BY DEF ClaimBlock
<1>1. CASE Fails(w)
  BY <1>1, FailsKeeps
<1>2. CASE /\ b \in DOMAIN rows
           /\ Set(w, [t EXCEPT !.claimed = @ \cup {b}])
           /\ UNCHANGED <<rows, page, revs, pubs, pageLock, calls, clock, overtaken>>
  <2> DEFINE x == [t EXCEPT !.claimed = @ \cup {b}]
  <2>0. Shaped(t) /\ clock \in Nat \ {0} /\ t.pc = "selected"
    BY DEF IInv, Typed, ClaimBlock
  <2>1. /\ x = [y \in TxParts |-> x[y]] /\ x.pc = t.pc /\ x.at = t.at /\ x.id = t.id /\ x.work = t.work
        /\ x.claimed = t.claimed \cup {b} /\ x.doomed = t.doomed /\ x.op = t.op /\ x.block = t.block
        /\ x.seen = t.seen /\ x.from = t.from
    BY <2>0 DEF Shaped, TxParts
  <2>2. t.op = "compact" /\ t.doomed = {} /\ t.at \in 0..clock - 1 /\ IsFunction(t.work) /\ DOMAIN t.work \subseteq Blocks
        /\ \A k \in DOMAIN t.work : t.work[k] \in Rows
    BY <2>0 DEF Shaped, Idle
  <2>3. t.claimed \subseteq DOMAIN t.work
    BY <2>0 DEF Shaped
  <2>4. t.claimed \subseteq DOMAIN rows /\ \A v \in Writers \ {w}, k \in Blocks : k \in t.claimed => ~Holds(v, k)
    BY DEF IInv, Exclusive, Refers
  <2> HIDE DEF x
  <2>5. GoesOn(w, x)
    BY <1>2, <2>0, <2>1, <2>2, <2>3, <2>4 DEF GoesOn, BlockOps, x, Others
  <2>6. Quietly(w) /\ tx'[w] = x
    BY <2>5, GoesQuietly
  <2>7. Sees(w)'
    <3>1. \A k : Later(w, k) => Later(w, k)'
      BY <2>1, <2>6, PastShrinks DEF Later
    <3>2. Sees(w)
      BY DEF IInv
    <3> QED
      BY <1>2, <2>0, <2>1, <2>2, <2>6, <3>1, <3>2 DEF Sees, BlockOps
  <2>8. Prunes(w)' /\ Whole(w)' /\ HasRead(w)'
    BY <2>0, <2>1, <2>2, <2>6 DEF Prunes, Whole, HasRead, IInv
  <2> QED
    BY <2>6, <2>7, <2>8, QuietKeeps
<1> QED
  BY <1>1, <1>2

LEMMA ReadTreeKeeps == ASSUME NEW w \in Writers, IInv, ReadTree(w) PROVE IInv'
<1> DEFINE t == tx[w]
           read == [b \in DOMAIN rows |-> Upcast(rows[b])]
           x == [t EXCEPT !.pc = "read", !.at = clock, !.work = read]
<1>1. CASE Fails(w)
  BY <1>1, FailsKeeps
<1>2. CASE /\ \A b \in DOMAIN rows : Valid(rows[b])
           /\ Now(1) /\ Set(w, x)
           /\ UNCHANGED <<rows, page, revs, pubs, pageLock, calls, overtaken>>
  <2>0. Shaped(t) /\ clock \in Nat \ {0} /\ clock' = clock + 1
        /\ ((t.op = "publish" /\ t.pc = "locked") \/ (t.op = "draft" /\ t.pc = "called"))
    <3>1. Shaped(t) /\ clock \in Nat \ {0}
      BY DEF IInv, Typed
    <3>2. clock' = clock + 1
      BY <1>2 DEF Now
    <3> QED
      BY <3>1, <3>2 DEF ReadTree
  <2>1. /\ x = [y \in TxParts |-> x[y]] /\ x.pc = "read" /\ x.at = clock /\ x.id = t.id /\ x.work = read
        /\ x.claimed = t.claimed /\ x.doomed = t.doomed /\ x.op = t.op /\ x.block = t.block
        /\ x.seen = t.seen /\ x.from = t.from
    BY <2>0 DEF Shaped, TxParts
  <2>2. t.claimed = {} /\ t.doomed = {}
    BY <2>0 DEF Shaped
  <2>3. IsFunction(read) /\ DOMAIN read = DOMAIN rows
    BY DEF IsFunction
  <2>4. DOMAIN rows \subseteq Blocks /\ \A b \in DOMAIN rows : read[b] \in Rows /\ read[b].form = Current
    BY <1>2, UpcastRow DEF IInv, Typed
  <2>5. Set(w, x) /\ UNCHANGED <<rows, page, revs, pubs, pageLock, calls, overtaken>>
    BY <1>2
  <2> HIDE DEF x, read
  <2>6. GoesOn(w, x)
    <3>1. x.at \in 0..clock' - 1
      BY <2>0, <2>1
    <3>2. IsFunction(x.work) /\ DOMAIN x.work \subseteq Blocks /\ \A b \in DOMAIN x.work : x.work[b] \in Rows
      BY <2>1, <2>3, <2>4
    <3>3. x.op \notin BlockOps /\ clock' \in Nat /\ clock <= clock' /\ x.claimed = {} /\ x.doomed = {}
      BY <2>0, <2>1, <2>2 DEF BlockOps
    <3> QED
      BY <2>0, <2>1, <2>5, <3>1, <3>2, <3>3 DEF GoesOn
  <2>7. Quietly(w) /\ tx'[w] = x
    BY <2>6, GoesQuietly
  <2>8. Sees(w)' /\ Prunes(w)' /\ Whole(w)' /\ HasRead(w)'
    BY <2>0, <2>1, <2>3, <2>4, <2>7 DEF Sees, Prunes, Whole, HasRead, BlockOps
  <2> QED
    BY <2>7, <2>8, QuietKeeps
<1> QED
  BY <1>1, <1>2 DEF ReadTree

LEMMA PreviewKeeps == ASSUME NEW w \in Writers, IInv, Preview(w) PROVE IInv'
<1> DEFINE t == tx[w]
           found == OfBatch(t.from)
           read == [b \in {r.block : r \in found} |-> Upcast(CHOOSE r \in found : r.block = b)]
           x == [t EXCEPT !.pc = "previewed", !.work = read]
<1>1. CASE Fails(w)
  BY <1>1, FailsKeeps
<1>2. CASE /\ found # {} /\ \A r \in found : Valid(r)
           /\ Set(w, x)
           /\ UNCHANGED <<rows, page, revs, pubs, pageLock, calls, clock, overtaken>>
  <2>0. Shaped(t) /\ clock \in Nat \ {0} /\ t.op = "restore" /\ t.pc = "called"
    BY <1>2 DEF IInv, Typed, Preview
  <2>1. /\ x = [y \in TxParts |-> x[y]] /\ x.pc = "previewed" /\ x.id = t.id /\ x.work = read
        /\ x.claimed = t.claimed /\ x.doomed = t.doomed /\ x.op = t.op /\ x.block = t.block
        /\ x.seen = t.seen /\ x.from = t.from
    BY <2>0 DEF Shaped, TxParts
  <2>2. t.claimed = {} /\ t.doomed = {}
    BY <2>0 DEF Shaped
  <2>3. IsFunction(read) /\ DOMAIN read = {r.block : r \in found}
    BY DEF IsFunction
  <2>4. found \subseteq Revs /\ \A r \in found : r \in revs /\ r.batch = t.from
    BY DEF OfBatch, IInv, Typed, Known
  <2>5. DOMAIN read \subseteq Blocks /\ \A b \in DOMAIN read : read[b] \in Revs
    <3>1. \A r \in found : r.block \in Blocks
      BY <2>4 DEF Revs
    <3>2. ASSUME NEW b \in DOMAIN read PROVE read[b] \in Revs
      <4>1. \E r \in found : r.block = b
        BY <2>3, <3>2
      <4>2. (CHOOSE r \in found : r.block = b) \in found
        BY <4>1
      <4> QED
        BY <1>2, <2>3, <2>4, <4>2, UpcastRev
    <3>3. DOMAIN read \subseteq Blocks
      BY <2>3, <3>1
    <3> HIDE DEF read
    <3> QED
      BY <3>2, <3>3
  <2>6. Set(w, x) /\ UNCHANGED <<rows, page, revs, pubs, pageLock, calls, clock, overtaken>>
    BY <1>2
  <2>7. \A b \in DOMAIN read : \E r \in revs : r.batch = t.from /\ r.block = b
    BY <2>3, <2>4
  <2> HIDE DEF x, read
  <2>8. GoesOn(w, x)
    BY <2>0, <2>1, <2>2, <2>3, <2>5, <2>6 DEF GoesOn, BlockOps
  <2>9. Quietly(w) /\ tx'[w] = x
    BY <2>8, GoesQuietly
  <2>10. Sees(w)' /\ Prunes(w)' /\ Whole(w)' /\ HasRead(w)'
    BY <2>0, <2>1, <2>6, <2>7, <2>9 DEF Sees, Prunes, Whole, HasRead, BlockOps
  <2> QED
    BY <2>9, <2>10, QuietKeeps
<1> QED
  BY <1>1, <1>2 DEF Preview

-----------------------------------------------------------------------------
(* What is pruned.                                                         *)

LEMMA MaxExists ==
  ASSUME NEW S \in SUBSET Nat, S # {}, NEW n \in Nat, \A s \in S : s <= n
  PROVE  \E m \in S : \A s \in S : s <= m
<1> DEFINE Above(s) == {t \in S : t > s}
           T == {Above(s) : s \in S}
<1>1. IsFiniteSet(S)
  BY FS_BoundedSetOfNaturals
<1>2. \A s \in S : Above(s) \in SUBSET S /\ IsFiniteSet(Above(s))
  BY <1>1, FS_Subset
<1>3. T \subseteq FiniteSubsetsOf(S) /\ T # {}
  <2>1. \A s \in S : Above(s) \in FiniteSubsetsOf(S)
    BY <1>2 DEF FiniteSubsetsOf
  <2>2. \E s \in S : Above(s) \in T
    OBVIOUS
  <2>3. \A x \in T : \E s \in S : x = Above(s)
    OBVIOUS
  <2> HIDE DEF T, Above
  <2> QED
    BY <2>1, <2>2, <2>3
<1>4. PICK x \in T : \A y \in T : ~ (<<y, x>> \in StrictSubsetOrdering(S))
  <2> HIDE DEF T
  <2> QED
    BY <1>3, FS_StrictSubsetOrderingWellFounded, WFMin
<1>5. PICK m \in S : x = Above(m)
  OBVIOUS
<1>6. ASSUME NEW s \in S, s > m PROVE FALSE
  <2>1. Above(s) \subseteq Above(m) /\ s \in Above(m) /\ s \notin Above(s)
    <3>1. \A t \in S : t > s => t > m
      <4> TAKE t \in S
      <4>1. s \in Nat /\ m \in Nat /\ t \in Nat
        OBVIOUS
      <4> QED
        BY <1>6, <4>1
    <3>2. ~ (s > s)
      <4>1. s \in Nat
        OBVIOUS
      <4> QED
        BY <4>1
    <3>3. Above(s) \subseteq Above(m)
      BY <3>1
    <3>4. s \in Above(m)
      BY <1>6
    <3>5. s \notin Above(s)
      BY <3>2
    <3> QED
      BY <3>3, <3>4, <3>5
  <2>2. <<Above(s), x>> \in StrictSubsetOrdering(S)
    BY <1>2, <1>5, <2>1 DEF StrictSubsetOrdering
  <2> QED
    BY <1>4, <2>2
<1>7. \A s \in S : s <= m
  BY <1>6
<1> QED
  BY <1>7

\* A history in which what one call has recorded is of one time and kind.
History(all) ==
  /\ \A r \in all : r.batch \in 1..MaxCalls /\ r.at \in 0..clock'
  /\ \A q, r \in all : q.batch = r.batch => q.at = r.at /\ q.kind = r.kind

LEMMA OneTime ==
  ASSUME NEW all, History(all), NEW q \in Saves(all)
  PROVE  TimeOf(all, q.batch) = q.at
<1>1. {r.at : r \in {r \in Saves(all) : r.batch = q.batch}} = {q.at}
  BY DEF History, Saves
<1>2. q.at \in Int
  BY DEF History, Saves
<1>3. Min({q.at}) = q.at
  BY <1>2 DEF Min
<1> QED
  BY <1>1, <1>3 DEF TimeOf

LEMMA FewBatches ==
  ASSUME NEW all, History(all)
  PROVE  /\ IsFiniteSet(Batches(all))
         /\ \A k \in Batches(all) : IsFiniteSet(Newer(all, k)) /\ TimeOf(all, k) \in Nat
<1>1. Batches(all) \subseteq 1..MaxCalls
  BY DEF History, Batches, Saves
<1>2. IsFiniteSet(1..MaxCalls)
  BY FS_Interval DEF BlockHistoryAssumption
<1>3. IsFiniteSet(Batches(all))
  BY <1>1, <1>2, FS_Subset
<1>4. ASSUME NEW k \in Batches(all) PROVE TimeOf(all, k) \in 0..clock' /\ TimeOf(all, k) \in Nat
  <2> PICK q \in Saves(all) : q.batch = k
    BY DEF Batches
  <2> QED
    BY OneTime DEF History, Saves
<1>5. ASSUME NEW k \in Batches(all) PROVE IsFiniteSet(Newer(all, k))
  <2> DEFINE N == {j \in Batches(all) : TimeOf(all, j) > TimeOf(all, k)}
             f == [j \in N |-> TimeOf(all, j)]
  <2>1. f \in Surjection(N, Newer(all, k))
    BY DEF Surjection, Newer
  <2>2. IsFiniteSet(N)
    BY <1>3, FS_Subset
  <2> QED
    BY <2>1, <2>2, FS_Surjection
<1> QED
  BY <1>3, <1>4, <1>5

LEMMA OldestGo ==
  ASSUME NEW all, History(all), NEW q \in Saves(all), NEW r \in Saves(all),
         q.batch \in Beyond(all), r.batch \notin Beyond(all)
  PROVE  r.at > q.at
<1>1. q.at \in Nat /\ r.at \in Nat
  BY DEF History, Saves
<1>2. q.batch \in Batches(all) /\ r.batch \in Batches(all)
  BY DEF Batches
<1>3. SUFFICES ASSUME r.at <= q.at PROVE FALSE
  BY <1>1
<1>4. Newer(all, q.batch) \subseteq Newer(all, r.batch)
  <2>1. TimeOf(all, q.batch) = q.at /\ TimeOf(all, r.batch) = r.at
    BY OneTime
  <2>2. \A j \in Batches(all) : TimeOf(all, j) \in Nat
    BY FewBatches
  <2> QED
    BY <1>1, <1>3, <2>1, <2>2 DEF Newer
<1>5. Cardinality(Newer(all, q.batch)) <= Cardinality(Newer(all, r.batch))
  BY <1>2, <1>4, FewBatches, FS_Subset
<1>6. Cardinality(Newer(all, q.batch)) \in Nat /\ Cardinality(Newer(all, r.batch)) \in Nat /\ Cap \in Nat
  BY <1>2, FewBatches, FS_CardinalityType DEF BlockHistoryAssumption
<1> QED
  BY <1>2, <1>5, <1>6 DEF Beyond

LEMMA CapStays ==
  ASSUME NEW all, History(all), clock' \in Nat, NEW r \in Saves(all), r.batch \in Beyond(all)
  PROVE  Cardinality({q.batch : q \in {q \in Saves(all) : q.batch \notin Beyond(all) /\ q.at > r.at}}) >= Cap
<1> DEFINE S == {q.at : q \in {q \in Saves(all) : q.batch \in Beyond(all)}}
           N == {q.batch : q \in {q \in Saves(all) : q.batch \notin Beyond(all) /\ q.at > r.at}}
<1>1. S \in SUBSET Nat /\ r.at \in S /\ \A s \in S : s <= clock'
  BY DEF History, Saves
<1>2. PICK m \in Saves(all) : m.batch \in Beyond(all) /\ \A s \in S : s <= m.at
  <2>1. S # {}
    BY <1>1
  <2>2. \E x \in S : \A s \in S : s <= x
    <3> HIDE DEF S
    <3> QED
      BY <1>1, <2>1, MaxExists
  <2> QED
    BY <2>2
<1>3. m.at \in Nat /\ r.at \in Nat /\ r.at <= m.at
  BY <1>1, <1>2
<1>4. N \subseteq Batches(all) /\ m.batch \in Batches(all)
  BY DEF Batches
<1>5. IsFiniteSet(N)
  BY <1>4, FewBatches, FS_Subset
<1> DEFINE f == [k \in N |-> TimeOf(all, k)]
           Image == {f[k] : k \in N}
<1>6. IsFiniteSet(Image) /\ Cardinality(Image) <= Cardinality(N)
  <2>1. f \in Surjection(N, Image)
    BY DEF Surjection
  <2> QED
    BY <1>5, <2>1, FS_Surjection
<1>7. Newer(all, m.batch) \subseteq Image
  <2> SUFFICES ASSUME NEW j \in Batches(all), TimeOf(all, j) > TimeOf(all, m.batch)
               PROVE  TimeOf(all, j) \in Image
    BY DEF Newer
  <2>1. PICK q \in Saves(all) : q.batch = j
    BY DEF Batches
  <2>2. TimeOf(all, j) = q.at /\ TimeOf(all, m.batch) = m.at
    BY <2>1, OneTime
  <2>3. q.at \in Nat
    BY DEF History, Saves
  <2>4. q.batch \notin Beyond(all)
    BY <1>2, <1>3, <2>2, <2>3
  <2>5. j \in N
    BY <1>3, <2>1, <2>2, <2>3, <2>4
  <2> QED
    BY <2>5
<1>8. Cardinality(Newer(all, m.batch)) <= Cardinality(Image)
  BY <1>6, <1>7, FS_Subset
<1>9. Cardinality(Newer(all, m.batch)) >= Cap
  BY <1>2 DEF Beyond
<1>10. Cardinality(Newer(all, m.batch)) \in Nat /\ Cardinality(Image) \in Nat /\ Cardinality(N) \in Nat /\ Cap \in Nat
  BY <1>4, <1>5, <1>6, FewBatches, FS_CardinalityType DEF BlockHistoryAssumption
<1> QED
  BY <1>6, <1>8, <1>9, <1>10


\* A publication points at no save: of what is beyond the cap nothing is kept.
LEMMA AllBeyondGo ==
  ASSUME NEW all, History(all), Manifested, revs \subseteq all, NEW r \in all
  PROVE  /\ r \in Prunable(all) <=> r.batch \in Beyond(all)
         /\ r \in Prunable(all) => r.kind = "save"
<1>1. ASSUME r.batch \in Beyond(all) PROVE r.kind = "save"
  <2> PICK q \in Saves(all) : q.batch = r.batch
    BY <1>1 DEF Beyond, Batches
  <2> QED
    BY DEF History, Saves
<1>2. ASSUME <<r.batch, r.block>> \in PointedAt PROVE r.kind = "publish"
  <2> PICK p \in pubs : \E b \in DOMAIN p.manifest : <<r.batch, r.block>> = <<p.manifest[b], b>>
    BY <1>2 DEF PointedAt
  <2> PICK b \in DOMAIN p.manifest : <<r.batch, r.block>> = <<p.manifest[b], b>>
    OBVIOUS
  <2> PICK q \in revs : q.batch = p.manifest[b] /\ q.kind = "publish"
    BY DEF Manifested
  <2> QED
    BY DEF History
<1> QED
  BY <1>1, <1>2 DEF Prunable

LEMMA TakeBlockKeeps == ASSUME NEW w \in Writers, IInv, TakeBlock(w) PROVE IInv'
<1> DEFINE t == tx[w]
           at == IF t.op = "props" THEN clock ELSE t.at
           all == revs \cup {RevOf([t EXCEPT !.at = at])}
           x == [t EXCEPT !.pc = "held", !.at = at, !.doomed = Prunable(all)]
<1>1. CASE Fails(w)
  BY <1>1, FailsKeeps
<1>2. CASE /\ t.block \in DOMAIN rows /\ Fresh(t)
           /\ Now(IF t.op = "props" THEN 1 ELSE 0)
           /\ Set(w, x)
           /\ UNCHANGED <<rows, page, revs, pubs, pageLock, calls, overtaken>>
  <2>0. Shaped(t) /\ clock \in Nat \ {0} /\ calls \in 0..MaxCalls /\ MaxCalls \in Nat
        /\ (t.pc = IF t.op = "props" THEN "called" ELSE "locked")
        /\ t.op \in BlockOps
    <3>1. Shaped(t) /\ clock \in Nat \ {0} /\ calls \in 0..MaxCalls /\ MaxCalls \in Nat
      BY DEF IInv, Typed, BlockHistoryAssumption
    <3> QED
      BY <3>1 DEF TakeBlock, BlockOps
  <2>1. clock' = clock + (IF t.op = "props" THEN 1 ELSE 0) /\ clock' \in Nat /\ clock <= clock'
    BY <1>2, <2>0 DEF Now
  <2>2. at \in 0..clock' - 1
    BY <2>0, <2>1 DEF Shaped
  <2>3. /\ x = [y \in TxParts |-> x[y]] /\ x.pc = "held" /\ x.at = at /\ x.id = t.id /\ x.work = t.work
        /\ x.claimed = t.claimed /\ x.doomed = Prunable(all) /\ x.op = t.op /\ x.block = t.block
        /\ x.seen = t.seen /\ x.from = t.from
    BY <2>0 DEF Shaped, TxParts
  <2>4. all = revs \cup {RevOf(x)} /\ RevOf(x).batch = t.id /\ RevOf(x).at = at /\ RevOf(x).kind = "save"
        /\ RevOf(x).block = t.block
    <3>1. /\ [t EXCEPT !.at = at].op = t.op /\ [t EXCEPT !.at = at].id = t.id
          /\ [t EXCEPT !.at = at].block = t.block /\ [t EXCEPT !.at = at].at = at
      BY <2>0 DEF Shaped, TxParts
    <3> HIDE DEF at, x
    <3>2. RevOf([t EXCEPT !.at = at]) = RevOf(x)
      BY <2>3, <3>1 DEF RevOf, Rev, Written, Row
    <3> QED
      BY <2>3, <3>2 DEF RevOf, Rev
  <2>5. Set(w, x) /\ UNCHANGED <<rows, page, revs, pubs, pageLock, calls, overtaken>>
        /\ t.block \in DOMAIN rows /\ Fresh(t)
    BY <1>2
  <2>6. t.claimed = {} /\ t.work = <<>> /\ t.id \in 1..calls /\ t.block \in Blocks
    BY <2>0 DEF Shaped, Idle, BlockOps
  <2>7. \A v \in Writers \ {w} : ~Holds(v, t.block) /\ ~Refers(v, t.block)
    BY DEF TakeBlock, Others
  <2> HIDE DEF x, at, all
  <2>8. RevOf(x) \in Revs'
    <3>1. rows[t.block] \in Rows /\ Current \in Forms /\ x.id \in 0..MaxCalls
      BY <2>0, <2>3, <2>5, <2>6 DEF IInv, Typed, Forms, BlockHistoryAssumption
    <3>2. x.id \in 1..calls' /\ x.block \in Blocks /\ x.at \in 0..clock' - 1
      BY <2>2, <2>3, <2>5, <2>6
    <3> QED
      BY <2>3, <2>5, <3>1, <3>2 DEF RevOf, Rev, Written, Row, Rows, Revs
  <2>9. revs \subseteq Revs /\ \A r \in revs : r \in Known /\ r.batch # t.id
    BY DEF IInv, Typed, Apart, Known
  <2>10. History(all)
    <3>1. \A r \in all : r.batch \in 1..MaxCalls /\ r.at \in 0..clock'
      BY <2>0, <2>1, <2>2, <2>4, <2>6, <2>9 DEF Revs
    <3>2. \A q, r \in all : q.batch = r.batch => q.at = r.at /\ q.kind = r.kind
      BY <2>4, <2>9 DEF IInv, Apart
    <3> QED
      BY <3>1, <3>2 DEF History
  <2>11. \A r \in all : /\ r \in Prunable(all) <=> r.batch \in Beyond(all)
                        /\ r \in Prunable(all) => r.kind = "save"
    BY <2>4, <2>10, AllBeyondGo DEF IInv
  <2>12. \A r \in Prunable(all) : r \in all
    BY DEF Prunable
  <2>13. GoesOn(w, x)
    <3>1. \A r \in x.doomed : r \in revs \/ (r = RevOf(x) /\ r \in Revs')
      BY <2>3, <2>4, <2>8, <2>12
    <3>2. IsFunction(x.work) /\ DOMAIN x.work = {} /\ x.claimed = {}
      BY <2>3, <2>6, NothingIsEmpty
    <3>3. \A v \in Writers \ {w}, b \in Blocks :
            /\ x.pc = "held" /\ x.block = b => ~Holds(v, b) /\ ~Refers(v, b)
            /\ b \in x.claimed => ~Holds(v, b)
      BY <2>3, <2>6, <2>7
    <3>4. x.pc = "held" /\ x.op \in BlockOps /\ (x.op = "props" <=> t.pc = "called") /\ t.pc \in {"called", "locked"}
      BY <2>0, <2>3
    <3> QED
      BY <2>1, <2>2, <2>3, <2>5, <3>1, <3>2, <3>3, <3>4 DEF GoesOn
  <2>14. Quietly(w) /\ tx'[w] = x
    BY <2>13, GoesQuietly
  <2>15. Sees(w)'
    <3>1. Later(w, t.block)'
      <4>1. CASE t.op = "props"
        BY <2>3, <2>14, <4>1, NowIsLater DEF at
      <4>2. CASE t.op # "props"
        <5>1. Sees(w)
          BY DEF IInv
        <5>2. Later(w, t.block)
          BY <2>0, <2>5, <4>2, <5>1 DEF Sees
        <5>3. x.at = t.at
          BY <2>3, <4>2 DEF at
        <5> QED
          BY <2>3, <2>14, <5>2, <5>3, PastShrinks DEF Later
      <4> QED
        BY <4>1, <4>2
    <3>2. t.seen <= rows[t.block].version
      BY <2>0, <2>5 DEF IInv, Sees
    <3> QED
      BY <2>3, <2>5, <2>14, <3>1, <3>2 DEF Sees, Fresh
  <2>16. Prunes(w)'
    <3>1. Kept(w)' = all \ Prunable(all)
      BY <2>3, <2>4, <2>5, <2>14 DEF Kept, RevOf, Rev, Written, Row
    <3> SUFFICES ASSUME NEW r \in Prunable(all)
                 PROVE  /\ r.kind = "save" /\ (r.batch = t.id => r.block = t.block)
                        /\ Cardinality(NewerKept(w, r)') >= Cap
                        /\ \A q \in revs : q.batch = r.batch => q \in Prunable(all)
                        /\ \A q \in revs \ Prunable(all) :
                             IsWrite(q) /\ IsWrite(r) /\ q.block = r.block /\ r.block \in DOMAIN rows \ overtaken => q.at > r.at
      BY <2>3, <2>5, <2>14 DEF Prunes
    <3>2. r \in all /\ r.batch \in Beyond(all) /\ r \in Saves(all) /\ (r.batch = t.id => r.block = t.block)
      BY <2>4, <2>9, <2>11, <2>12 DEF Saves
    <3>3. NewerKept(w, r)' = {q.batch : q \in {q \in Saves(all) : q.batch \notin Beyond(all) /\ q.at > r.at}}
      <4>1. {q \in Saves(Kept(w)') : q.at > r.at} = {q \in Saves(all) : q.batch \notin Beyond(all) /\ q.at > r.at}
        BY <2>11, <3>1 DEF Saves
      <4> QED
        BY <4>1 DEF NewerKept, Saves
    <3>4. Cardinality(NewerKept(w, r)') >= Cap
      BY <2>1, <2>10, <3>2, <3>3, CapStays
    <3>5. \A q \in revs : q.batch = r.batch => q \in Prunable(all)
      BY <2>4, <2>11, <3>2
    <3>6. \A q \in revs \ Prunable(all) : q.kind = "save" => q.at > r.at
      BY <2>4, <2>10, <2>11, <3>2, OldestGo DEF Saves
    <3> QED
      BY <2>11, <3>2, <3>4, <3>5, <3>6 DEF IsWrite
  <2>17. Whole(w)' /\ HasRead(w)'
    BY <2>0, <2>3, <2>14 DEF Whole, HasRead, BlockOps
  <2> QED
    BY <2>14, <2>15, <2>16, <2>17, QuietKeeps
<1> QED
  BY <1>1, <1>2 DEF TakeBlock

-----------------------------------------------------------------------------
(* Steps that commit.                                                      *)

\* What a transaction changes of the rows, and that it is known to nobody else.
Changes(b) == b \in DOMAIN rows \cap DOMAIN rows' /\ rows'[b] # rows[b]
Rewrites(w) ==
  /\ IsFunction(rows') /\ DOMAIN rows' \subseteq Blocks /\ \A b \in DOMAIN rows' : rows'[b] \in Rows
  /\ \A b \in DOMAIN rows : Changes(b) => rows'[b].version > rows[b].version
  /\ \A v \in Writers \ {w}, b \in DOMAIN rows :
       /\ Changes(b) \/ b \notin DOMAIN rows' => ~Holds(v, b)
       /\ b \notin DOMAIN rows' => ~Refers(v, b)
  /\ \A b \in DOMAIN rows' \ DOMAIN rows :
       b \in Unused /\ \A v \in Writers \ {w} : ~ (tx[v].op = "restore" /\ tx[v].pc = "locked")
  /\ overtaken' = overtaken \cup {b \in DOMAIN rows \cap DOMAIN rows' :
                    rows'[b] # rows[b] /\ \E v \in Writers \ {w} : Selected(v, b)}
  /\ Tolerant => \A b \in DOMAIN rows' : Valid(rows'[b]) \/ (b \in DOMAIN rows /\ rows'[b] = rows[b])

\* What it records: all of it, and of a block nothing but the latest.
Records(w, news) ==
  /\ revs' = (revs \cup news) \ tx[w].doomed
  /\ \A r \in news : /\ r \in Revs /\ r.batch = tx[w].id /\ r.at = tx[w].at
                     /\ r.kind = IF tx[w].pc = "read" THEN "publish" ELSE "save"
                     /\ Tolerant => Valid(r)
  /\ tx[w].pc = "held" => RevOf(tx[w]) \in news
  /\ \A b \in DOMAIN rows' :
       \/ b \in DOMAIN rows /\ rows'[b] = rows[b]
       \/ \E r \in news : IsWrite(r) /\ r.block = b
  /\ \A r \in news : IsWrite(r) =>
       /\ r.block \in DOMAIN rows' /\ r.text = rows'[r.block].text
       /\ r.block \in DOMAIN rows => Changes(r.block) /\ (r.block \in overtaken' \/ Later(w, r.block))
  /\ \A p \in pubs' \ pubs : \A b \in DOMAIN p.manifest :
       \E r \in news : r.batch = p.manifest[b] /\ r.block = b /\ r.text = p.snapshot[b] /\ r.kind = "publish"

Lands(w, news) ==
  /\ tx[w].pc # "idle" /\ Ended(w) /\ UNCHANGED <<calls, clock>> /\ page' \in Nat
  /\ Rewrites(w) /\ Records(w, news)

LEMMA LandsMoves ==
  ASSUME NEW w \in Writers, IInv, NEW news, Lands(w, news)
  PROVE  /\ Moves(w) /\ tx'[w] = Idle /\ Revs' = Revs
         /\ Idle.id = 0 /\ Idle.op = "none" /\ Idle.pc = "idle" /\ Idle.doomed = {} /\ Idle.claimed = {}
<1> USE DEF Lands, Ended
<1>1. /\ IsFunction(tx') /\ DOMAIN tx' = Writers /\ tx'[w] = Idle
      /\ \A v \in Writers \ {w} : tx'[v] = tx[v]
  BY SetMoves
<1>2. /\ Idle = [x \in TxParts |-> Idle[x]] /\ Idle.op = "none" /\ Idle.pc = "idle" /\ Idle.id = 0
      /\ Idle.work = <<>> /\ Idle.claimed = {} /\ Idle.doomed = {}
  BY DEF Idle, TxParts
<1>3. Shaped(tx[w])'
  <2>1. IsFunction(Idle.work) /\ DOMAIN Idle.work = {}
    BY <1>2, NothingIsEmpty
  <2> QED
    BY <1>1, <1>2, <2>1 DEF Shaped, BlockOps
<1>4. Moves(w)
  BY <1>1, <1>2, <1>3 DEF Moves, IInv, Typed, BlockHistoryAssumption
<1> QED
  BY <1>1, <1>2, <1>4 DEF Revs

LEMMA LandsKnown ==
  ASSUME NEW w \in Writers, IInv, NEW news, Lands(w, news)
  PROVE  /\ Known' \subseteq Known \cup news /\ Known' \subseteq Revs /\ Past' \subseteq Past \cup news
         /\ \A v \in Writers \ {w} : \A r \in tx[v].doomed : r.batch # tx[w].id
<1>1. Moves(w) /\ tx'[w] = Idle /\ Idle.doomed = {}
  BY LandsMoves
<1> USE DEF Lands, Records, Moves
<1>2. Known' \subseteq Known \cup news
  BY <1>1 DEF Known
<1>3. Known' \subseteq Revs
  BY <1>2 DEF IInv, Typed
<1>4. \A v \in Writers \ {w} : \A r \in tx[v].doomed : r.batch # tx[w].id
  BY DEF IInv, Apart
<1>5. ASSUME NEW r \in Past', r \notin news PROVE r \in Past
  <2>1. r \in Known /\ \A v \in Writers \ {w} : r.batch # tx[v].id
    BY <1>1, <1>2, <1>5 DEF Past
  <2>2. r \in revs \/ \E v \in Writers \ {w} : r \in tx[v].doomed
    BY <1>1, <1>5 DEF Past, Known
  <2>3. r.batch # tx[w].id
    BY <1>4, <2>2 DEF IInv, Apart
  <2> QED
    BY <2>1, <2>3 DEF Past
<1> QED
  BY <1>2, <1>3, <1>4, <1>5

LEMMA LandsTyped ==
  ASSUME NEW w \in Writers, IInv, NEW news, Lands(w, news)
  PROVE  Typed'
<1>1. Moves(w) /\ Known' \subseteq Revs' /\ calls' = calls
  BY LandsMoves, LandsKnown DEF Lands
<1>2. \A v \in Writers : Shaped(tx[v])'
  BY <1>1, StaysShaped DEF Moves
<1>3. overtaken' \subseteq Blocks
  BY DEF Lands, Rewrites, IInv, Typed
<1> QED
  BY <1>1, <1>2, <1>3 DEF Moves, Lands, Rewrites, IInv, Typed

LEMMA LandsApart ==
  ASSUME NEW w \in Writers, IInv, NEW news, Lands(w, news)
  PROVE  Apart'
<1> USE DEF Lands, Records
<1>0. /\ Moves(w) /\ tx'[w] = Idle /\ Idle.id = 0 /\ Idle.op = "none" /\ Idle.pc = "idle" /\ Idle.doomed = {}
      /\ \A v \in Writers \ {w} : tx'[v] = tx[v]
  BY LandsMoves DEF Moves
<1>1. /\ \A v \in Writers : Shaped(tx[v]) /\ calls \in Nat
      /\ \A r \in Known \cup news : r.batch \in 1..calls
  BY DEF IInv, Typed, Revs
<1>2. \A v \in Writers \ {w} : tx[v].id # tx[w].id
  BY DEF IInv, Apart
<1>3. \A r \in revs', v \in Writers : r.batch # tx'[v].id
  BY <1>0, <1>1, <1>2 DEF IInv, Apart, Known
<1>4. \A u, v \in Writers : u # v /\ tx'[v].pc # "idle" => tx'[v].id # tx'[u].id
  <2> SUFFICES ASSUME NEW u \in Writers, NEW v \in Writers, u # v, tx'[v].pc # "idle"
               PROVE  tx'[v].id # tx'[u].id
    OBVIOUS
  <2>1. v # w /\ tx[v].pc # "idle" /\ tx'[v] = tx[v]
    BY <1>0
  <2>2. tx[v].id \in 1..calls
    BY <1>1, <2>1 DEF Shaped
  <2> QED
    BY <1>0, <1>1, <2>1, <2>2 DEF IInv, Apart
<1>5. \A u, v \in Writers : u # v => \A r \in tx'[v].doomed : r.batch # tx'[u].id
  <2> SUFFICES ASSUME NEW u \in Writers, NEW v \in Writers, u # v, NEW r \in tx'[v].doomed
               PROVE  r.batch # tx'[u].id
    OBVIOUS
  <2>1. v # w /\ r \in tx[v].doomed
    BY <1>0
  <2>2. r.batch \in 1..calls
    BY <1>1, <2>1 DEF Known
  <2> QED
    BY <1>0, <1>1, <2>1, <2>2 DEF IInv, Apart
<1>6. \A u, v \in Writers : tx'[v].op = "restore" => tx'[v].from # tx'[u].id
  <2> SUFFICES ASSUME NEW u \in Writers, NEW v \in Writers, tx'[v].op = "restore"
               PROVE  tx'[v].from # tx'[u].id
    OBVIOUS
  <2>1. v # w /\ tx[v].op = "restore" /\ tx'[v] = tx[v]
    BY <1>0
  <2>2. tx[v].from \in 1..calls
    <3>1. Shaped(tx[v])
      BY <1>1
    <3> QED
      BY <2>1, <3>1 DEF Shaped
  <2> QED
    BY <1>0, <1>1, <2>1, <2>2 DEF IInv, Apart
<1>7. \A q, r \in Known' : q.batch = r.batch => q.at = r.at /\ q.kind = r.kind
  <2>1. \A r \in Known' : r \in news \/ (r \in Known /\ r.batch # tx[w].id)
    <3>1. \A r \in Known' : r \in news \/ r \in revs \/ \E v \in Writers \ {w} : r \in tx[v].doomed
      BY <1>0 DEF Known
    <3> QED
      BY <3>1, LandsKnown DEF IInv, Apart, Known
  <2>2. \A q, r \in news : q.at = r.at /\ q.kind = r.kind
    OBVIOUS
  <2>3. \A r \in news : r.batch = tx[w].id
    OBVIOUS
  <2>4. \A q, r \in Known : q.batch = r.batch => q.at = r.at /\ q.kind = r.kind
    BY DEF IInv, Apart
  <2> QED
    BY <2>1, <2>2, <2>3, <2>4
<1> QED
  BY <1>3, <1>4, <1>5, <1>6, <1>7 DEF Apart

LEMMA UnusedIsNew ==
  ASSUME NEW b \in Unused
  PROVE  /\ \A r \in Known : r.block # b
         /\ \A v \in Writers : tx[v].block # b /\ b \notin DOMAIN tx[v].work
<1>1. b \notin UNION {DOMAIN tx[v].work \cup {r.block : r \in tx[v].doomed} : v \in Writers}
      /\ b \notin {r.block : r \in revs} /\ b \notin {tx[v].block : v \in Writers}
  BY DEF Unused
<1>2. \A v \in Writers : b \notin DOMAIN tx[v].work \cup {r.block : r \in tx[v].doomed}
  BY <1>1
<1> QED
  BY <1>1, <1>2 DEF Known

LEMMA LandsExclusive ==
  ASSUME NEW w \in Writers, IInv, NEW news, Lands(w, news)
  PROVE  Exclusive'
<1>1. /\ tx'[w].pc = "idle" /\ tx'[w].claimed = {}
      /\ \A v \in Writers \ {w} : tx'[v] = tx[v]
  BY LandsMoves DEF Moves
<1>2. ASSUME NEW u \in Writers, NEW v \in Writers, NEW b \in Blocks, u # v, Holds(v, b)'
      PROVE  ~Holds(u, b)' /\ ~Refers(u, b)'
  BY <1>1, <1>2 DEF IInv, Exclusive, Holds, Refers
<1>3. ASSUME NEW v \in Writers PROVE tx'[v].claimed \subseteq DOMAIN rows'
  BY <1>1 DEF IInv, Exclusive, Lands, Rewrites, Refers
<1> QED
  BY <1>2, <1>3 DEF Exclusive

\* Nothing but saves is pruned, and of a batch all or nothing.
LEMMA LandsPruned ==
  ASSUME NEW w \in Writers, IInv
  PROVE  \A r \in tx[w].doomed :
           /\ tx[w].pc = "held" /\ r.kind = "save"
           /\ \A q \in revs : q.batch = r.batch => q \in tx[w].doomed
BY DEF IInv, Prunes, Typed, Shaped

LEMMA LandsManifested ==
  ASSUME NEW w \in Writers, IInv, NEW news, Lands(w, news)
  PROVE  Manifested' /\ (Tolerant => ReadsAreCurrent')
<1>1. Manifested'
  <2> SUFFICES ASSUME NEW p \in pubs', NEW b \in DOMAIN p.manifest
               PROVE  \E r \in revs' : r.batch = p.manifest[b] /\ r.block = b /\ r.text = p.snapshot[b] /\ r.kind = "publish"
    BY DEF Manifested
  <2>1. PICK r \in revs \cup news : r.batch = p.manifest[b] /\ r.block = b /\ r.text = p.snapshot[b] /\ r.kind = "publish"
    BY DEF IInv, Manifested, Lands, Records
  <2>2. r \notin tx[w].doomed
    BY <2>1, LandsPruned
  <2> QED
    BY <2>1, <2>2 DEF Lands, Records
<1>2. ASSUME Tolerant PROVE ReadsAreCurrent'
  <2>1. \A b \in DOMAIN rows' : Valid(rows'[b])
    BY <1>2 DEF Lands, Rewrites, IInv, ReadsAreCurrent
  <2>2. \A r \in revs' : Valid(r)
    BY <1>2 DEF Lands, Records, IInv, ReadsAreCurrent
  <2> QED
    BY <2>1, <2>2 DEF ReadsAreCurrent, Valid, Upcast
<1> QED
  BY <1>1, <1>2

\* What is new of a block is later than all that was there.
LEMMA NewsAreLater ==
  ASSUME NEW w \in Writers, IInv, NEW news, Lands(w, news),
         NEW n \in news, NEW r \in Past, IsWrite(n), IsWrite(r), n.block = r.block, n.block \notin overtaken'
  PROVE  n.block \in DOMAIN rows /\ r.at < n.at
<1>1. n.block \in DOMAIN rows' /\ n.at = tx[w].at
      /\ (n.block \in DOMAIN rows => Later(w, n.block))
  BY DEF Lands, Records
<1>2. n.block \in DOMAIN rows
  <2>1. n.block \notin Unused
    BY UnusedIsNew DEF Past
  <2> QED
    BY <1>1, <2>1 DEF Lands, Rewrites
<1> QED
  BY <1>1, <1>2 DEF Later

LEMMA RevsArePast == ASSUME IInv PROVE revs \subseteq Past
BY DEF IInv, Apart, Past, Known

LEMMA LandsTells ==
  ASSUME NEW w \in Writers, IInv, NEW news, Lands(w, news)
  PROVE  NewestTells'
<1> USE DEF Lands, Records
<1> SUFFICES ASSUME NEW b \in DOMAIN rows', b \notin overtaken', NEW r \in revs', r.block = b, IsWrite(r), r.text # rows'[b].text
             PROVE  \E q \in revs' : q.block = b /\ IsWrite(q) /\ q.at > r.at
  BY DEF NewestTells, Saves, IsWrite
<1>1. r \in revs /\ r \notin tx[w].doomed /\ r \in Past
  BY RevsArePast
<1>2. b \in DOMAIN rows
  BY <1>1, UnusedIsNew DEF Rewrites, Known
<1>3. b \notin overtaken
  BY DEF Rewrites
<1>4. \A q \in tx[w].doomed : IsWrite(q) /\ q.block = b => r.at > q.at
  BY <1>1, <1>2, <1>3, LandsPruned DEF IInv, Prunes
<1>5. \A q \in Known \cup news : q.at \in Nat
  BY DEF IInv, Typed, Revs
<1>6. CASE rows'[b] = rows[b]
  <2>1. PICK q \in revs : q.block = b /\ IsWrite(q) /\ q.at > r.at
    BY <1>1, <1>2, <1>3, <1>6 DEF IInv, NewestTells, Saves, IsWrite
  <2>2. q \notin tx[w].doomed
    BY <1>1, <1>4, <1>5, <2>1 DEF Known
  <2> QED
    BY <2>1, <2>2
<1>7. CASE rows'[b] # rows[b]
  <2>1. PICK n \in news : IsWrite(n) /\ n.block = b
    BY <1>7
  <2>2. r.at < n.at
    BY <1>1, <2>1, NewsAreLater
  <2>3. n \notin tx[w].doomed
    BY <1>1, <1>4, <1>5, <2>1, <2>2 DEF Known
  <2> QED
    BY <1>1, <1>5, <2>1, <2>2, <2>3 DEF Known
<1> QED
  BY <1>6, <1>7

LEMMA LandsSees ==
  ASSUME NEW w \in Writers, IInv, NEW news, Lands(w, news), NEW v \in Writers, v # w
  PROVE  Sees(v)'
<1> USE DEF Lands
<1> DEFINE t == tx[v]
<1>0. tx'[v] = t /\ Shaped(t) /\ Sees(v)
  BY LandsMoves DEF Moves, IInv, Typed
<1>1. ASSUME NEW b \in Blocks, Later(v, b), \A n \in news : IsWrite(n) => n.block # b
      PROVE  Later(v, b)'
  BY <1>0, <1>1, LandsKnown DEF Later
<1>2. ASSUME NEW b \in DOMAIN rows \cap DOMAIN rows', rows'[b] = rows[b]
      PROVE  b \in Blocks /\ (Later(v, b) => Later(v, b)')
  <2>1. \A n \in news : IsWrite(n) => n.block # b
    BY <1>2 DEF Records, Changes
  <2> QED
    BY <1>1, <2>1 DEF Rewrites, IInv, Typed
<1>3. \A b \in DOMAIN rows' : b \in DOMAIN rows \/ (t.block # b /\ b \notin DOMAIN t.work)
  BY UnusedIsNew DEF Rewrites
<1>4. \A b \in DOMAIN rows \cap DOMAIN rows' :
        /\ rows'[b].version \in Nat /\ rows[b].version \in Nat
        /\ rows'[b] = rows[b] \/ rows'[b].version > rows[b].version
  BY DEF Rewrites, Changes, IInv, Typed, Rows
<1>5. \A b \in DOMAIN rows \cap DOMAIN rows' : b \notin overtaken' /\ Selected(v, b) => rows'[b] = rows[b]
  BY DEF Rewrites
<1>6. overtaken \subseteq overtaken'
  BY DEF Rewrites
<1>7. t.op \in BlockOps /\ t.block \in DOMAIN rows' =>
        /\ t.block \in DOMAIN rows /\ t.seen \in Nat /\ t.seen <= rows[t.block].version
        /\ t.seen <= rows'[t.block].version
  <2> SUFFICES ASSUME t.op \in BlockOps, t.block \in DOMAIN rows' PROVE
        /\ t.block \in DOMAIN rows /\ t.seen \in Nat /\ t.seen <= rows[t.block].version
        /\ t.seen <= rows'[t.block].version
    OBVIOUS
  <2>1. t.block \in DOMAIN rows
    BY <1>3
  <2>2. t.seen \in Nat /\ t.seen <= rows[t.block].version
    BY <1>0, <2>1 DEF Sees, Shaped
  <2>3. rows'[t.block].version \in Nat /\ rows[t.block].version \in Nat /\ rows[t.block].version <= rows'[t.block].version
    BY <1>4, <2>1
  <2> QED
    BY <2>1, <2>2, <2>3
<1>8. t.pc = "locked" /\ t.op \in BlockOps /\ t.block \in DOMAIN rows' /\ t.seen = rows'[t.block].version =>
        Later(v, t.block)'
  <2> SUFFICES ASSUME t.pc = "locked", t.op \in BlockOps, t.block \in DOMAIN rows', t.seen = rows'[t.block].version
               PROVE  Later(v, t.block)'
    BY <1>0
  <2>1. rows'[t.block] = rows[t.block] /\ t.block \in DOMAIN rows
    BY <1>4, <1>7
  <2>2. Later(v, t.block)
    BY <1>0, <2>1 DEF Sees, Fresh
  <2> QED
    BY <1>0, <1>2, <2>1, <2>2
<1>9. t.pc = "held" => t.block \in DOMAIN rows' /\ t.seen = rows'[t.block].version /\ Later(v, t.block)'
  <2> SUFFICES ASSUME t.pc = "held"
               PROVE  t.block \in DOMAIN rows' /\ t.seen = rows'[t.block].version /\ Later(v, t.block)'
    BY <1>0
  <2>1. t.block \in DOMAIN rows /\ Fresh(t) /\ Later(v, t.block) /\ Holds(v, t.block)
    BY <1>0 DEF Sees, Holds
  <2>2. t.block \in DOMAIN rows' /\ rows'[t.block] = rows[t.block]
    BY <2>1 DEF Rewrites, Changes
  <2> QED
    BY <1>0, <1>2, <2>1, <2>2 DEF Fresh
<1>10. t.pc = "selected" =>
         \A b \in (DOMAIN t.work \cap DOMAIN rows') \ overtaken' :
           Later(v, b)' /\ rows'[b].text = t.work[b].text
  <2> SUFFICES ASSUME t.pc = "selected", NEW b \in (DOMAIN t.work \cap DOMAIN rows') \ overtaken'
               PROVE  Later(v, b)' /\ rows'[b].text = t.work[b].text
    BY <1>0
  <2>1. b \in DOMAIN rows /\ Selected(v, b)
    BY <1>0, <1>3 DEF Selected, Shaped, Idle
  <2>2. rows'[b] = rows[b] /\ b \notin overtaken
    BY <1>5, <1>6, <2>1
  <2>3. Later(v, b) /\ rows[b].text = t.work[b].text
    BY <1>0, <2>1, <2>2 DEF Sees
  <2> QED
    BY <1>0, <1>2, <2>1, <2>2, <2>3
<1>11. t.pc = "locked" /\ t.op = "restore" => \A b \in DOMAIN rows' \ overtaken' : Later(v, b)'
  <2> SUFFICES ASSUME t.pc = "locked", t.op = "restore", NEW b \in DOMAIN rows' \ overtaken'
               PROVE  Later(v, b)'
    BY <1>0
  <2>1. b \in DOMAIN rows /\ Selected(v, b)
    BY DEF Selected, Rewrites
  <2>2. rows'[b] = rows[b] /\ b \notin overtaken
    BY <1>5, <1>6, <2>1
  <2> QED
    BY <1>0, <1>2, <2>1, <2>2 DEF Sees
<1> QED
  BY <1>0, <1>7, <1>8, <1>9, <1>10, <1>11 DEF Sees, Fresh

\* Of two that prune, neither takes what the other counts on.
LEMMA LandsPrunes ==
  ASSUME NEW w \in Writers, IInv, NEW news, Lands(w, news), NEW v \in Writers, v # w
  PROVE  Prunes(v)'
<1> USE DEF Lands
<1>0. tx'[v] = tx[v] /\ Shaped(tx[v]) /\ Sees(v) /\ Prunes(v) /\ Prunes(w) /\ clock \in Nat /\ Cap \in Nat
      /\ clock' = clock /\ MaxCalls \in Nat /\ calls \in 0..MaxCalls
  BY LandsMoves DEF Moves, IInv, Typed, BlockHistoryAssumption
<1> SUFFICES ASSUME tx[v].pc = "held", NEW r \in tx[v].doomed
             PROVE  /\ r.kind = "save" /\ (r.batch = tx[v].id => r.block = tx[v].block)
                    /\ Cardinality(NewerKept(v, r)') >= Cap
                    /\ \A q \in revs' : q.batch = r.batch => q \in tx[v].doomed
                    /\ \A q \in revs' \ tx[v].doomed :
                         IsWrite(q) /\ IsWrite(r) /\ q.block = r.block /\ r.block \in DOMAIN rows' \ overtaken' => q.at > r.at
  BY <1>0 DEF Prunes
<1>1. r.kind = "save" /\ (r.batch = tx[v].id => r.block = tx[v].block)
  BY <1>0 DEF Prunes
<1>2. \A q \in news : q.batch # r.batch
  <2>1. r.batch # tx[w].id
    BY DEF IInv, Apart
  <2> QED
    BY <2>1 DEF Records
<1>3. \A q \in revs' : q.batch = r.batch => q \in tx[v].doomed
  BY <1>0, <1>2 DEF Prunes, Records
<1>4. tx[v].block \in DOMAIN rows \cap DOMAIN rows' /\ rows'[tx[v].block] = rows[tx[v].block]
  <2>1. tx[v].block \in DOMAIN rows /\ Holds(v, tx[v].block)
    BY <1>0 DEF Sees, Holds
  <2> QED
    BY <2>1 DEF Rewrites, Changes
<1>5. RevOf(tx[v])' = RevOf(tx[v])
  BY <1>0, <1>4 DEF RevOf, Rev, Written, Row
<1>6. \A q \in tx[v].doomed \cup tx[w].doomed : q.at \in 0..clock - 1 /\ q.at \in Nat
  BY DEF Known, Revs, IInv, Typed
<1>7. PICK m \in tx[v].doomed \cup tx[w].doomed : \A q \in tx[v].doomed \cup tx[w].doomed : q.at <= m.at
  <2> DEFINE S == {q.at : q \in tx[v].doomed \cup tx[w].doomed}
  <2>1. S \in SUBSET Nat /\ S # {} /\ \A s \in S : s <= clock
    BY <1>0, <1>6
  <2>2. \E s \in S : \A q \in S : q <= s
    <3> HIDE DEF S
    <3> QED
      BY <1>0, <2>1, MaxExists
  <2> QED
    BY <2>2
<1>8. Kept(v)' = (revs' \cup {RevOf(tx[v])}) \ tx[v].doomed
  BY <1>0, <1>5 DEF Kept
<1>9. PICK u \in {v, w} : m \in tx[u].doomed
  OBVIOUS
<1>10. tx[u].pc = "held" /\ Cardinality(NewerKept(u, m)) >= Cap
  BY <1>0, <1>9, LandsPruned DEF Prunes
<1>11. NewerKept(u, m) \subseteq NewerKept(v, r)'
  <2> SUFFICES ASSUME NEW q \in Saves(Kept(u)), q.at > m.at
               PROVE  q \in Saves(Kept(v)') /\ q.at > r.at
    BY DEF NewerKept
  <2>1. q \in revs \cup {RevOf(tx[u])} /\ q.kind = "save"
    BY DEF Saves, Kept
  <2>2. q.at \in Int
    <3>1. u \in Writers /\ Shaped(tx[u])
      BY <1>9 DEF IInv, Typed
    <3>2. RevOf(tx[u]).at = tx[u].at
      BY DEF RevOf, Rev
    <3>3. RevOf(tx[u]).at \in Int
      BY <1>0, <1>10, <3>1, <3>2 DEF Shaped
    <3>4. \A p \in revs : p.at \in Int
      BY DEF IInv, Typed, Known, Revs
    <3> QED
      BY <2>1, <3>3, <3>4
  <2>3. q \notin tx[v].doomed \cup tx[w].doomed /\ q.at > r.at
    <3>1. q.at \in Int /\ m.at \in Nat /\ r.at \in Nat /\ q.at > m.at
      BY <1>6, <2>2
    <3>2. q \in tx[v].doomed \cup tx[w].doomed => q.at <= m.at
      BY <1>7
    <3>3. r.at <= m.at
      BY <1>7
    <3> QED
      BY <3>1, <3>2, <3>3
  <2>4. q \in revs' \cup {RevOf(tx[v])}
    BY <1>9, <1>10, <2>1, <2>3 DEF Records
  <2> QED
    BY <1>8, <2>1, <2>3, <2>4 DEF Saves
<1>12. IsFiniteSet(NewerKept(v, r)')
  <2>1. \A q \in revs' \cup {RevOf(tx[v])} : q.batch \in 1..MaxCalls
    <3>1. \A q \in revs' : q.batch \in 1..calls
      BY LandsKnown DEF Known, Revs
    <3>2. RevOf(tx[v]).batch = tx[v].id
      BY DEF RevOf, Rev
    <3>3. tx[v].id \in 1..calls
      BY <1>0 DEF Shaped, Idle
    <3> QED
      BY <1>0, <3>1, <3>2, <3>3
  <2>2. NewerKept(v, r)' \subseteq 1..MaxCalls
    BY <1>8, <2>1 DEF NewerKept, Saves
  <2>3. IsFiniteSet(1..MaxCalls)
    BY <1>0, FS_Interval
  <2> QED
    BY <2>2, <2>3, FS_Subset
<1>13. Cardinality(NewerKept(v, r)') >= Cap
  <2>1. /\ IsFiniteSet(NewerKept(u, m)) /\ Cardinality(NewerKept(u, m)) <= Cardinality(NewerKept(v, r)')
        /\ Cardinality(NewerKept(u, m)) \in Nat /\ Cardinality(NewerKept(v, r)') \in Nat
    BY <1>11, <1>12, FS_Subset, FS_CardinalityType
  <2> QED
    BY <1>0, <1>10, <2>1
<1>14. ASSUME NEW q \in revs' \ tx[v].doomed, IsWrite(q), IsWrite(r), q.block = r.block, r.block \in DOMAIN rows' \ overtaken'
       PROVE  q.at > r.at
  <2>1. r \in Known /\ r.block \in DOMAIN rows \ overtaken
    BY <1>14, UnusedIsNew DEF Rewrites, Known
  <2>2. CASE q \in revs
    BY <1>0, <1>14, <2>1, <2>2 DEF Prunes
  <2>3. CASE q \in news
    <3>1. r.block # tx[v].block
      BY <1>4, <1>14, <2>1, <2>3 DEF Records, Changes
    <3>2. r \in Past
      BY <1>1, <2>1, <3>1 DEF Past, IInv, Apart
    <3>3. r.at < q.at
      BY <1>14, <2>3, <3>2, NewsAreLater
    <3>4. r.at \in Nat /\ q.at \in Nat
      BY <2>1, <2>3 DEF Records, Revs, IInv, Typed
    <3> QED
      BY <3>3, <3>4
  <2> QED
    BY <2>2, <2>3 DEF Records
<1> QED
  BY <1>1, <1>3, <1>13, <1>14

LEMMA LandsKeeps ==
  ASSUME NEW w \in Writers, IInv, NEW news, Lands(w, news)
  PROVE  IInv'
<1>0. /\ tx'[w] = Idle /\ Idle.op = "none" /\ Idle.pc = "idle"
      /\ \A v \in Writers \ {w} : tx'[v] = tx[v]
  BY LandsMoves DEF Moves
<1>1. Typed' /\ Apart' /\ Exclusive' /\ Manifested' /\ NewestTells' /\ (Tolerant => ReadsAreCurrent')
  BY LandsTyped, LandsApart, LandsExclusive, LandsManifested, LandsTells
<1>2. Sees(w)' /\ Prunes(w)' /\ Whole(w)' /\ HasRead(w)'
  BY <1>0 DEF Sees, Prunes, Whole, HasRead, BlockOps
<1>3. ASSUME NEW v \in Writers, v # w
      PROVE  Sees(v)' /\ Prunes(v)' /\ Whole(v)' /\ HasRead(v)'
  <2>1. Sees(v)' /\ Prunes(v)'
    BY <1>3, LandsSees, LandsPrunes
  <2>2. tx'[v] = tx[v] /\ Whole(v) /\ HasRead(v)
    BY <1>0, <1>3 DEF IInv
  <2>3. Whole(v)'
    <3> SUFFICES ASSUME tx[v].op = "restore", tx[v].pc \in {"previewed", "locked"},
                        NEW b \in DOMAIN tx[v].work, NEW r \in revs', r.batch = tx[v].from
                 PROVE  \E q \in revs' : q.batch = tx[v].from /\ q.block = b
      BY <2>2 DEF Whole
    <3>1. r \in revs \ tx[w].doomed
      BY DEF Lands, Records, IInv, Apart
    <3>2. PICK q \in revs : q.batch = tx[v].from /\ q.block = b
      BY <2>2, <3>1 DEF Whole
    <3>3. q \notin tx[w].doomed
      BY <3>1, <3>2, LandsPruned
    <3> QED
      BY <3>2, <3>3 DEF Lands, Records
  <2>4. HasRead(v)'
    BY <2>2 DEF HasRead
  <2> QED
    BY <2>1, <2>3, <2>4
<1> QED
  BY <1>1, <1>2, <1>3 DEF IInv

EditNews(w) == {RevOf(tx[w])}
LEMMA EditLands == ASSUME NEW w \in Writers, IInv, CommitEdit(w) PROVE Lands(w, EditNews(w))
<1> DEFINE t == tx[w]
           r == RevOf(t)
<1>0. /\ Shaped(t) /\ Sees(w) /\ t.pc = "held"
      /\ rows' = IF t.op = "delete" THEN Restrict(rows, DOMAIN rows \ {t.block})
                 ELSE [rows EXCEPT ![t.block] = Written(t, @)]
      /\ revs' = (revs \cup {RevOf(t)}) \ t.doomed
      /\ page' = IF t.op = "props" THEN page ELSE page + 1
      /\ Overtakes(w) /\ Ended(w) /\ UNCHANGED <<pubs, calls, clock>>
  BY DEF CommitEdit, IInv, Typed
<1>1. /\ t.op \in BlockOps /\ t.block \in Blocks /\ t.id \in 1..calls /\ t.at \in 0..clock - 1
      /\ t.block \in DOMAIN rows /\ Later(w, t.block)
  BY <1>0 DEF Shaped, Sees, Idle
<1>2. /\ IsFunction(rows) /\ DOMAIN rows \subseteq Blocks /\ \A b \in DOMAIN rows : rows[b] \in Rows
      /\ page \in Nat /\ MaxCalls \in Nat /\ calls \in 0..MaxCalls /\ Current \in Forms
  BY DEF IInv, Typed, Forms, BlockHistoryAssumption
<1>3. Written(t, rows[t.block]) \in Rows /\ Written(t, rows[t.block]).version > rows[t.block].version
      /\ Written(t, rows[t.block]).form = Current /\ Written(t, rows[t.block]).text = t.id
  BY <1>1, <1>2 DEF Written, Row, Rows
<1>4. t.op = "delete" => /\ DOMAIN rows' = DOMAIN rows \ {t.block} /\ IsFunction(rows')
                         /\ \A b \in DOMAIN rows' : rows'[b] = rows[b]
  BY <1>0, <1>1 DEF Restrict, IsFunction
<1>5. t.op # "delete" => /\ DOMAIN rows' = DOMAIN rows /\ IsFunction(rows')
                         /\ rows'[t.block] = Written(t, rows[t.block])
                         /\ \A b \in DOMAIN rows' \ {t.block} : rows'[b] = rows[b]
  BY <1>0, <1>1, <1>2 DEF IsFunction
<1>6. \A b \in DOMAIN rows : Changes(b) => b = t.block /\ t.op # "delete"
  BY <1>4, <1>5 DEF Changes
<1>7. t.op # "delete" => Changes(t.block) /\ t.block \in DOMAIN rows' /\ rows'[t.block].text = t.id
  <2> SUFFICES ASSUME t.op # "delete" PROVE Changes(t.block) /\ t.block \in DOMAIN rows' /\ rows'[t.block].text = t.id
    OBVIOUS
  <2>1. rows'[t.block].version > rows[t.block].version /\ rows[t.block].version \in Nat
    BY <1>1, <1>2, <1>3, <1>5 DEF Rows
  <2>2. rows'[t.block] # rows[t.block]
    BY <2>1
  <2> QED
    BY <1>1, <1>3, <1>5, <2>2 DEF Changes
<1>8. /\ r.batch = t.id /\ r.at = t.at /\ r.kind = "save" /\ r.block = t.block
      /\ r.change = IF t.op = "delete" THEN "delete" ELSE "update"
      /\ t.op # "delete" => r.text = t.id /\ r.form = Current
      /\ t.op = "delete" => r.form = rows[t.block].form /\ r.stored = rows[t.block].stored
      /\ r \in Revs
  BY <1>1, <1>2 DEF RevOf, Rev, Written, Row, Rows, Revs
<1> HIDE DEF r
<1>9. Tolerant => \A b \in DOMAIN rows : Valid(rows[b])
  BY DEF IInv, ReadsAreCurrent
<1>10. Tolerant => Valid(r)
  <2>1. CASE t.op = "delete"
    BY <1>1, <1>8, <1>9, <2>1 DEF Valid, Upcast, Revs, Rows
  <2>2. CASE t.op # "delete"
    BY <1>8, <2>2 DEF Valid, Upcast, Revs
  <2> QED
    BY <2>1, <2>2
<1>11. Rewrites(w)
  <2>1. \A v \in Writers \ {w}, b \in DOMAIN rows :
          /\ Changes(b) \/ b \notin DOMAIN rows' => ~Holds(v, b)
          /\ b \notin DOMAIN rows' => ~Refers(v, b)
    <3>1. Holds(w, t.block)
      BY <1>0 DEF Holds
    <3>2. \A v \in Writers \ {w} : ~Holds(v, t.block) /\ ~Refers(v, t.block)
      BY <1>1, <3>1 DEF IInv, Exclusive
    <3> QED
      BY <1>4, <1>5, <1>6, <3>2
  <2>2. Tolerant => \A b \in DOMAIN rows' : Valid(rows'[b]) \/ (b \in DOMAIN rows /\ rows'[b] = rows[b])
    <3>1. Tolerant => Valid(Written(t, rows[t.block]))
      BY <1>3 DEF Valid, Upcast, Rows
    <3> QED
      BY <1>4, <1>5, <3>1
  <2>3. \A b \in DOMAIN rows : Changes(b) => rows'[b].version > rows[b].version
    BY <1>3, <1>5, <1>6
  <2>4. IsFunction(rows') /\ DOMAIN rows' \subseteq DOMAIN rows /\ \A b \in DOMAIN rows' : rows'[b] \in Rows
    BY <1>2, <1>3, <1>4, <1>5
  <2> QED
    BY <1>0, <1>2, <2>1, <2>2, <2>3, <2>4 DEF Rewrites, Overtakes, Others
<1>12. Records(w, EditNews(w))
  <2>1. \A b \in DOMAIN rows' : \/ b \in DOMAIN rows /\ rows'[b] = rows[b]
                                \/ IsWrite(r) /\ r.block = b
    BY <1>4, <1>5, <1>8 DEF IsWrite
  <2>2. IsWrite(r) => r.block \in DOMAIN rows' /\ r.text = rows'[r.block].text /\ Changes(r.block) /\ Later(w, r.block)
    BY <1>1, <1>7, <1>8 DEF IsWrite
  <2> QED
    BY <1>0, <1>8, <1>10, <2>1, <2>2 DEF Records, EditNews, r
<1> QED
  BY <1>0, <1>2, <1>11, <1>12 DEF Lands

CompactionNews(w) ==
  LET t == tx[w] IN
  {Rev(t.id, b, "save", "update", Row(t.work[b].text, Current, Current, 0), t.at) : b \in t.claimed}
LEMMA CompactionLands == ASSUME NEW w \in Writers, IInv, WriteCompaction(w) PROVE Lands(w, CompactionNews(w))
<1> DEFINE t == tx[w]
           new(b) == Rev(t.id, b, "save", "update", Row(t.work[b].text, Current, Current, 0), t.at)
<1>0. /\ Shaped(t) /\ Sees(w) /\ HasRead(w) /\ t.pc = "selected" /\ t.claimed = DOMAIN t.work
      /\ rows' = [b \in DOMAIN rows |-> IF b \in t.claimed THEN Compacted(rows[b], t.work[b]) ELSE rows[b]]
      /\ revs' = revs \cup CompactionNews(w)
      /\ Overtakes(w) /\ Ended(w) /\ UNCHANGED <<page, pubs, calls, clock>>
  BY DEF WriteCompaction, CompactionNews, IInv, Typed
<1>1. /\ t.op = "compact" /\ t.id \in 1..calls /\ t.at \in 0..clock - 1 /\ t.doomed = {}
      /\ DOMAIN t.work \subseteq Blocks /\ \A b \in DOMAIN t.work : t.work[b] \in Rows
  BY <1>0 DEF Shaped, Idle
<1>2. /\ IsFunction(rows) /\ DOMAIN rows \subseteq Blocks /\ \A b \in DOMAIN rows : rows[b] \in Rows
      /\ page \in Nat /\ MaxCalls \in Nat /\ calls \in 0..MaxCalls /\ Current \in Forms /\ Current \in 1..Current
  BY DEF IInv, Typed, Forms, BlockHistoryAssumption
<1>3. t.claimed \subseteq DOMAIN rows /\ \A b \in t.claimed : t.work[b].form = Current /\ t.work[b].text \in 0..MaxCalls
  BY <1>0, <1>1 DEF IInv, Exclusive, HasRead, Rows
<1>4. IsFunction(rows') /\ DOMAIN rows' = DOMAIN rows
      /\ \A b \in DOMAIN rows : rows'[b] = IF b \in t.claimed THEN Compacted(rows[b], t.work[b]) ELSE rows[b]
  BY <1>0 DEF IsFunction
<1>5. ASSUME NEW b \in t.claimed
      PROVE  /\ rows'[b] \in Rows /\ rows'[b].version > rows[b].version /\ Changes(b)
             /\ rows'[b].text = t.work[b].text /\ Valid(rows'[b])
  <2>1. rows'[b] = Row(t.work[b].text, Current, Current, rows[b].version + 1) /\ rows[b].version \in Nat
    BY <1>2, <1>3, <1>4 DEF Compacted, Rows
  <2>2. rows'[b] \in Rows /\ rows'[b].version > rows[b].version /\ rows'[b].text = t.work[b].text
    BY <1>2, <1>3, <2>1 DEF Row, Rows
  <2>3. Valid(rows'[b])
    BY <2>1 DEF Valid, Upcast, Row
  <2>4. rows'[b] # rows[b]
    BY <2>1, <2>2
  <2> QED
    BY <1>3, <1>4, <2>2, <2>3, <2>4 DEF Changes
<1>6. \A b \in DOMAIN rows : Changes(b) => b \in t.claimed
  BY <1>4 DEF Changes
<1>7. ASSUME NEW b \in t.claimed
      PROVE  /\ new(b) \in Revs /\ new(b).batch = t.id /\ new(b).at = t.at /\ new(b).kind = "save" /\ Valid(new(b))
             /\ new(b).block = b /\ IsWrite(new(b)) /\ new(b).text = rows'[b].text
  <2>1. b \in Blocks /\ t.work[b].text \in 0..MaxCalls
    BY <1>0, <1>1, <1>3
  <2> QED
    BY <1>1, <1>2, <1>5, <2>1 DEF Rev, Row, Revs, Valid, Upcast, IsWrite
<1>8. /\ \A r \in CompactionNews(w) : \E b \in t.claimed : r = new(b)
      /\ \A b \in t.claimed : new(b) \in CompactionNews(w)
  BY DEF CompactionNews
<1> HIDE DEF new
<1>9. Rewrites(w)
  <2>1. \A v \in Writers \ {w}, b \in DOMAIN rows :
          /\ Changes(b) \/ b \notin DOMAIN rows' => ~Holds(v, b)
          /\ b \notin DOMAIN rows' => ~Refers(v, b)
    BY <1>2, <1>4, <1>6 DEF IInv, Exclusive, Refers
  <2>2. \A b \in DOMAIN rows' : Valid(rows'[b]) \/ (b \in DOMAIN rows /\ rows'[b] = rows[b])
    BY <1>4, <1>5
  <2>3. \A b \in DOMAIN rows' : rows'[b] \in Rows
    BY <1>2, <1>4, <1>5
  <2> QED
    BY <1>0, <1>2, <1>4, <1>5, <1>6, <2>1, <2>2, <2>3 DEF Rewrites, Overtakes, Others
<1>10. Records(w, CompactionNews(w))
  <2>1. overtaken \subseteq overtaken'
    BY <1>9 DEF Rewrites
  <2>2. \A b \in t.claimed : Changes(b) /\ (b \in overtaken' \/ Later(w, b))
    BY <1>0, <1>3, <1>5, <2>1 DEF Sees
  <2>3. \A r \in CompactionNews(w) :
          /\ r \in Revs /\ r.batch = t.id /\ r.at = t.at /\ r.kind = "save" /\ Valid(r)
          /\ r.block \in DOMAIN rows' /\ r.text = rows'[r.block].text /\ Changes(r.block)
          /\ r.block \in overtaken' \/ Later(w, r.block)
    <3> TAKE r \in CompactionNews(w)
    <3> PICK b \in t.claimed : r = new(b)
      BY <1>8
    <3> QED
      BY <1>3, <1>4, <1>7, <2>2
  <2>4. \A b \in DOMAIN rows' : \/ b \in DOMAIN rows /\ rows'[b] = rows[b]
                                \/ \E r \in CompactionNews(w) : IsWrite(r) /\ r.block = b
    BY <1>4, <1>7, <1>8
  <2> QED
    BY <1>0, <1>1, <2>3, <2>4 DEF Records
<1> QED
  BY <1>0, <1>2, <1>9, <1>10 DEF Lands

PublicationNews(w) == {Rev(tx[w].id, b, "publish", "update", tx[w].work[b], tx[w].at) : b \in DOMAIN tx[w].work}
LEMMA PublicationLands ==
  ASSUME NEW w \in Writers, IInv, Materialise(w), ~Fails(w) PROVE Lands(w, PublicationNews(w))
<1> DEFINE t == tx[w]
           new(b) == Rev(t.id, b, "publish", "update", t.work[b], t.at)
           pub == [draft |-> t.op = "draft",
                   snapshot |-> [b \in DOMAIN t.work |-> t.work[b].text],
                   manifest |-> [b \in DOMAIN t.work |-> t.id]]
<1>0. /\ Shaped(t) /\ HasRead(w) /\ t.pc = "read"
      /\ revs' = revs \cup PublicationNews(w) /\ pubs' = pubs \cup {pub}
      /\ page' = IF t.op = "publish" THEN page + 1 ELSE page
      /\ Ended(w) /\ UNCHANGED <<rows, calls, clock, overtaken>>
  BY DEF Materialise, PublicationNews, IInv, Typed
<1>1. /\ t.id \in 1..calls /\ t.at \in 0..clock - 1 /\ t.doomed = {}
      /\ DOMAIN t.work \subseteq Blocks /\ \A b \in DOMAIN t.work : t.work[b] \in Rows /\ t.work[b].form = Current
  BY <1>0 DEF Shaped, HasRead, Idle
<1>2. /\ IsFunction(rows) /\ DOMAIN rows \subseteq Blocks /\ \A b \in DOMAIN rows : rows[b] \in Rows
      /\ page \in Nat /\ MaxCalls \in Nat /\ calls \in 0..MaxCalls
  BY DEF IInv, Typed, BlockHistoryAssumption
<1>3. \A b \in DOMAIN t.work : /\ t.work[b].text \in 0..MaxCalls /\ t.work[b].form \in Forms
                               /\ t.work[b].stored \in 1..Current
  BY <1>1 DEF Rows
<1>4. ASSUME NEW b \in DOMAIN t.work
      PROVE  /\ new(b) \in Revs /\ new(b).batch = t.id /\ new(b).at = t.at /\ new(b).kind = "publish"
             /\ new(b).block = b /\ new(b).text = t.work[b].text /\ (Tolerant => Valid(new(b)))
  BY <1>1, <1>2, <1>3, <1>4 DEF Rev, Revs, Valid, Upcast
<1>5. /\ \A r \in PublicationNews(w) : \E b \in DOMAIN t.work : r = new(b)
      /\ \A b \in DOMAIN t.work : new(b) \in PublicationNews(w)
  BY DEF PublicationNews
<1>6. DOMAIN pub.manifest = DOMAIN t.work
      /\ \A b \in DOMAIN t.work : pub.manifest[b] = t.id /\ pub.snapshot[b] = t.work[b].text
  OBVIOUS
<1> HIDE DEF new, pub
<1>7. \A b : ~Changes(b)
  BY <1>0 DEF Changes
<1>8. Rewrites(w)
  BY <1>0, <1>2, <1>7 DEF Rewrites, Changes
<1>9. Records(w, PublicationNews(w))
  <2>1. \A r \in PublicationNews(w) :
          r \in Revs /\ r.batch = t.id /\ r.at = t.at /\ r.kind = "publish" /\ (Tolerant => Valid(r)) /\ ~IsWrite(r)
    BY <1>4, <1>5 DEF IsWrite
  <2>2. \A p \in pubs' \ pubs : \A b \in DOMAIN p.manifest :
          \E r \in PublicationNews(w) : r.batch = p.manifest[b] /\ r.block = b /\ r.text = p.snapshot[b] /\ r.kind = "publish"
    BY <1>0, <1>4, <1>5, <1>6
  <2> QED
    BY <1>0, <1>1, <2>1, <2>2 DEF Records
<1> QED
  BY <1>0, <1>2, <1>8, <1>9 DEF Lands

\* What a restore writes, given the ids that what it brings back comes under.
Again(t) == {b \in Restored(t) : t.work[b].change # "delete"}
Back(t) == {b \in Restored(t) : t.work[b].change = "delete"}
RestoreNews(w, made) ==
  LET t == tx[w] IN
  {Rev(t.id, b, "save", "update", rows'[b], t.at) : b \in Again(t)} \cup
  {Rev(t.id, b, "save", "create", rows'[b], t.at) : b \in made}
Restores(w, made) ==
  LET t == tx[w] IN
  /\ t.op = "restore" /\ t.pc = "locked"
  /\ \A v \in Writers \ {w}, b \in Again(t) : ~Holds(v, b)
  /\ Again(t) \subseteq DOMAIN rows /\ made \subseteq Unused
  /\ IsFunction(rows') /\ DOMAIN rows' = DOMAIN rows \cup made
  /\ \A b \in Again(t) : rows'[b] = Row(t.work[b].text, Current, rows[b].stored, rows[b].version + 1)
  /\ \A b \in DOMAIN rows \ Again(t) : rows'[b] = rows[b]
  /\ \A i \in made : \E b \in Back(t) : rows'[i] = Row(t.work[b].text, Current, Current, 1)
  /\ \A b \in Back(t) : \E i \in made : rows'[i] = Row(t.work[b].text, Current, Current, 1)
  /\ revs' = revs \cup RestoreNews(w, made)
  /\ page' = page + 1 /\ Overtakes(w) /\ Ended(w) /\ UNCHANGED <<pubs, calls, clock>>

LEMMA RestoreRestores ==
  ASSUME NEW w \in Writers, RestoreBatch(w), ~Fails(w)
  PROVE  \E made : Restores(w, made)
<1> DEFINE t == tx[w]
           back == {b \in Restored(t) : t.work[b].change = "delete"}
           again == Restored(t) \ back
<1>1. again = Again(t) /\ back = Back(t)
  BY DEF Again, Back
<1>2. /\ t.op = "restore" /\ t.pc = "locked"
      /\ \A v \in Writers \ {w}, b \in again : ~Holds(v, b)
      /\ again \subseteq DOMAIN rows
      /\ page' = page + 1 /\ Overtakes(w) /\ Ended(w) /\ UNCHANGED <<pubs, calls, clock>>
  BY DEF RestoreBatch, Others
<1>3. PICK new \in Injection(back, Unused) :
        LET made == {new[b] : b \in back}
            Text(b) == t.work[b].text
            Source(i) == CHOOSE b \in back : new[b] = i
            next == [b \in DOMAIN rows \cup made |->
                       IF b \in made THEN Row(Text(Source(b)), Current, Current, 1)
                       ELSE IF b \in again
                       THEN Row(Text(b), Current, rows[b].stored, rows[b].version + 1)
                       ELSE rows[b]]
        IN /\ rows' = next
           /\ revs' = revs \cup
                {Rev(t.id, b, "save", "update", next[b], t.at) : b \in again} \cup
                {Rev(t.id, b, "save", "create", next[b], t.at) : b \in made}
  BY DEF RestoreBatch
<1> DEFINE made == {new[b] : b \in back}
           Source(i) == CHOOSE b \in back : new[b] = i
           next == [b \in DOMAIN rows \cup made |->
                      IF b \in made THEN Row(t.work[Source(b)].text, Current, Current, 1)
                      ELSE IF b \in again
                      THEN Row(t.work[b].text, Current, rows[b].stored, rows[b].version + 1)
                      ELSE rows[b]]
<1>4. /\ rows' = next
      /\ revs' = revs \cup
           {Rev(t.id, b, "save", "update", next[b], t.at) : b \in again} \cup
           {Rev(t.id, b, "save", "create", next[b], t.at) : b \in made}
  BY <1>3
<1>5. \A b \in back : new[b] \in Unused /\ \A k \in back : new[k] = new[b] => k = b
  BY DEF Injection, IsInjective
<1>6. made \subseteq Unused /\ \A i \in made : i \notin DOMAIN rows
  BY <1>5 DEF Unused
<1>7. \A b \in back : Source(new[b]) = b
  BY <1>5
<1>8. \A i \in made : \E b \in back : i = new[b]
  OBVIOUS
<1>9. \A b \in back : new[b] \in made
  OBVIOUS
<1> HIDE DEF made, Source, back, again
<1>10. IsFunction(rows') /\ DOMAIN rows' = DOMAIN rows \cup made
  BY <1>4 DEF IsFunction
<1>11. \A b \in again : rows'[b] = Row(t.work[b].text, Current, rows[b].stored, rows[b].version + 1)
  BY <1>2, <1>4, <1>6
<1>12. \A b \in DOMAIN rows \ again : rows'[b] = rows[b]
  BY <1>4, <1>6
<1>13. \A b \in back : rows'[new[b]] = Row(t.work[b].text, Current, Current, 1)
  BY <1>4, <1>7, <1>9
<1>14. revs' = revs \cup RestoreNews(w, made)
  BY <1>1, <1>4 DEF RestoreNews
<1> QED
  BY <1>1, <1>2, <1>6, <1>8, <1>9, <1>10, <1>11, <1>12, <1>13, <1>14 DEF Restores

LEMMA RestoreLands ==
  ASSUME NEW w \in Writers, IInv, NEW made, Restores(w, made)
  PROVE  Lands(w, RestoreNews(w, made))
<1> USE DEF Restores
<1> DEFINE t == tx[w]
           new(b, change) == Rev(t.id, b, "save", change, rows'[b], t.at)
<1>0. Shaped(t) /\ Sees(w) /\ t.op = "restore" /\ t.pc = "locked"
  BY DEF IInv, Typed
<1>1. /\ t.id \in 1..calls /\ t.at \in 0..clock - 1 /\ t.doomed = {}
      /\ \A b \in DOMAIN t.work : t.work[b] \in Revs
  BY <1>0 DEF Shaped, Idle
<1>2. /\ IsFunction(rows) /\ DOMAIN rows \subseteq Blocks /\ \A b \in DOMAIN rows : rows[b] \in Rows
      /\ page \in Nat /\ MaxCalls \in Nat /\ calls \in 0..MaxCalls /\ Current \in Forms /\ Current \in 1..Current
  BY DEF IInv, Typed, Forms, BlockHistoryAssumption
<1>3. \A b \in Again(t) \cup Back(t) : t.work[b].text \in 0..MaxCalls
  BY <1>1 DEF Again, Back, Restored, Revs
<1>4. made \subseteq Blocks \ DOMAIN rows
  BY DEF Unused
<1>5. ASSUME NEW b \in Again(t)
      PROVE  rows'[b] \in Rows /\ rows'[b].version > rows[b].version /\ Changes(b) /\ (Tolerant => Valid(rows'[b]))
  <2>1. b \in DOMAIN rows /\ rows'[b] = Row(t.work[b].text, Current, rows[b].stored, rows[b].version + 1)
        /\ rows[b].stored \in 1..Current /\ rows[b].version \in Nat /\ t.work[b].text \in 0..MaxCalls
    BY <1>2, <1>3 DEF Rows
  <2>2. rows'[b] \in Rows /\ rows'[b].version > rows[b].version
    BY <1>2, <2>1 DEF Row, Rows
  <2>3. Tolerant => Valid(rows'[b])
    BY <2>1 DEF Row, Valid, Upcast
  <2>4. rows'[b] # rows[b]
    BY <2>1, <2>2
  <2> QED
    BY <2>1, <2>2, <2>3, <2>4 DEF Changes
<1>6. ASSUME NEW i \in made PROVE rows'[i] \in Rows /\ Valid(rows'[i])
  <2> PICK b \in Back(t) : rows'[i] = Row(t.work[b].text, Current, Current, 1)
    OBVIOUS
  <2> QED
    BY <1>2, <1>3 DEF Row, Rows, Valid, Upcast
<1>7. \A b \in DOMAIN rows : Changes(b) => b \in Again(t)
  BY DEF Changes
<1>8. ASSUME NEW b \in Again(t) \cup made, NEW change \in {"create", "update"}
      PROVE  /\ new(b, change) \in Revs /\ new(b, change).batch = t.id /\ new(b, change).at = t.at
             /\ new(b, change).kind = "save" /\ (Tolerant => Valid(new(b, change)))
             /\ new(b, change).block = b /\ IsWrite(new(b, change)) /\ new(b, change).text = rows'[b].text
  <2>1. b \in Blocks /\ rows'[b] \in Rows
    BY <1>2, <1>4, <1>5, <1>6
  <2>2. Tolerant => Valid(rows'[b])
    BY <1>5, <1>6
  <2>3. new(b, change) \in Revs
    BY <1>1, <1>2, <2>1 DEF Rev, Revs, Rows
  <2>4. Tolerant => Valid(new(b, change))
    BY <2>1, <2>2, <2>3 DEF Rev, Revs, Rows, Valid, Upcast
  <2> QED
    BY <2>3, <2>4 DEF Rev, IsWrite
<1>9. /\ \A r \in RestoreNews(w, made) : \E b \in Again(t) \cup made, change \in {"create", "update"} : r = new(b, change)
      /\ \A b \in Again(t) : new(b, "update") \in RestoreNews(w, made)
      /\ \A b \in made : new(b, "create") \in RestoreNews(w, made)
  BY DEF RestoreNews
<1> HIDE DEF new
<1>10. Rewrites(w)
  <2>1. \A v \in Writers \ {w} : ~ (tx[v].op = "restore" /\ tx[v].pc = "locked")
    BY <1>0 DEF IInv, Typed
  <2>2. Tolerant => \A b \in DOMAIN rows' : Valid(rows'[b]) \/ (b \in DOMAIN rows /\ rows'[b] = rows[b])
    BY <1>5, <1>6
  <2>3. \A b \in DOMAIN rows' : rows'[b] \in Rows
    BY <1>2, <1>5, <1>6
  <2>4. \A b \in DOMAIN rows : Changes(b) => rows'[b].version > rows[b].version
    BY <1>5, <1>7
  <2> QED
    BY <1>2, <1>4, <1>7, <2>1, <2>2, <2>3, <2>4 DEF Rewrites, Overtakes, Others
<1>11. Records(w, RestoreNews(w, made))
  <2>1. overtaken \subseteq overtaken'
    BY <1>10 DEF Rewrites
  <2>2. \A b \in Again(t) : Changes(b) /\ (b \in overtaken' \/ Later(w, b))
    BY <1>0, <1>5, <2>1 DEF Sees
  <2>3. \A r \in RestoreNews(w, made) :
          /\ r \in Revs /\ r.batch = t.id /\ r.at = t.at /\ r.kind = "save" /\ (Tolerant => Valid(r))
          /\ r.block \in DOMAIN rows' /\ r.text = rows'[r.block].text
          /\ r.block \in DOMAIN rows => Changes(r.block) /\ (r.block \in overtaken' \/ Later(w, r.block))
    <3> TAKE r \in RestoreNews(w, made)
    <3> PICK b \in Again(t) \cup made, change \in {"create", "update"} : r = new(b, change)
      BY <1>9
    <3>1. r.block = b /\ b \in DOMAIN rows'
      BY <1>8
    <3>2. b \in DOMAIN rows => Changes(b) /\ (b \in overtaken' \/ Later(w, b))
      BY <1>4, <2>2
    <3> QED
      BY <1>8, <3>1, <3>2
  <2>4. \A b \in DOMAIN rows' : \/ b \in DOMAIN rows /\ rows'[b] = rows[b]
                                \/ \E r \in RestoreNews(w, made) : IsWrite(r) /\ r.block = b
    BY <1>8, <1>9
  <2> QED
    BY <1>0, <1>1, <2>3, <2>4 DEF Records
<1> QED
  BY <1>0, <1>2, <1>10, <1>11 DEF Lands

-----------------------------------------------------------------------------
(* The theorems.                                                           *)

\* A step that changes what is stored is a commit.
Commits(w) ==
  \/ CommitEdit(w) \/ WriteCompaction(w) \/ (Materialise(w) /\ ~Fails(w))
  \/ RestoreBatch(w) /\ ~Fails(w)

LEMMA CommitsLand ==
  ASSUME NEW w \in Writers, IInv, Commits(w)
  PROVE  \E news : Lands(w, news)
<1>1. CASE RestoreBatch(w) /\ ~Fails(w)
  BY <1>1, RestoreRestores, RestoreLands
<1> QED
  BY <1>1, EditLands, CompactionLands, PublicationLands DEF Commits

LEMMA QuietOrCommits ==
  ASSUME Next
  PROVE  \E w \in Writers :
           \/ Commits(w)
           \/ /\ UNCHANGED <<rows, page, revs>>
              /\ \/ Fails(w) \/ LockPage(w) \/ TakeBlock(w) \/ SelectBlocks(w) \/ ClaimBlock(w) \/ Preview(w) \/ ReadTree(w)
                 \/ CallEdit(w) \/ CallUpdateBlockProps(w) \/ CallPublish(w) \/ CallDraft(w) \/ CallCompact(w) \/ CallRestore(w)
<1> PICK w \in Writers :
      \/ CallEdit(w) \/ CallUpdateBlockProps(w) \/ CallPublish(w) \/ CallDraft(w)
      \/ CallCompact(w) \/ CallRestore(w)
      \/ LockPage(w) \/ TakeBlock(w) \/ CommitEdit(w)
      \/ SelectBlocks(w) \/ ClaimBlock(w) \/ WriteCompaction(w)
      \/ Preview(w) \/ RestoreBatch(w)
      \/ ReadTree(w) \/ Materialise(w)
  BY DEF Next
<1>1. CASE Fails(w)
  BY <1>1 DEF Fails
<1>2. CASE CallEdit(w) \/ CallUpdateBlockProps(w) \/ CallPublish(w) \/ CallDraft(w) \/ CallCompact(w) \/ CallRestore(w)
  <2>1. UNCHANGED <<rows, page, revs>>
    BY <1>2 DEF CallEdit, CallUpdateBlockProps, CallPublish, CallDraft, CallCompact, CallRestore, Begin
  <2> QED
    BY <1>2, <2>1
<1>3. CASE LockPage(w) \/ TakeBlock(w)
  <2>1. UNCHANGED <<rows, page, revs>>
    BY <1>3 DEF LockPage, TakeBlock, Fails
  <2> QED
    BY <1>3, <2>1
<1>4. CASE SelectBlocks(w) \/ ClaimBlock(w) \/ Preview(w) \/ ReadTree(w)
  <2>1. UNCHANGED <<rows, page, revs>>
    BY <1>4 DEF SelectBlocks, ClaimBlock, Preview, ReadTree, Fails
  <2> QED
    BY <1>4, <2>1
<1>5. CASE ~Fails(w) /\ (CommitEdit(w) \/ WriteCompaction(w) \/ Materialise(w) \/ RestoreBatch(w))
  BY <1>5 DEF Commits
<1> QED
  BY <1>1, <1>2, <1>3, <1>4, <1>5

LEMMA NextInv == IInv /\ [Next]_vars => IInv'
<1> SUFFICES ASSUME IInv, [Next]_vars PROVE IInv'
  OBVIOUS
<1>1. CASE Next
  <2> PICK w \in Writers :
        \/ Commits(w)
        \/ /\ UNCHANGED <<rows, page, revs>>
           /\ \/ Fails(w) \/ LockPage(w) \/ TakeBlock(w) \/ SelectBlocks(w) \/ ClaimBlock(w) \/ Preview(w) \/ ReadTree(w)
              \/ CallEdit(w) \/ CallUpdateBlockProps(w) \/ CallPublish(w) \/ CallDraft(w) \/ CallCompact(w) \/ CallRestore(w)
    BY <1>1, QuietOrCommits
  <2>1. CASE Commits(w)
    BY <2>1, CommitsLand, LandsKeeps
  <2>2. CASE CallEdit(w) \/ CallUpdateBlockProps(w) \/ CallPublish(w) \/ CallDraft(w) \/ CallCompact(w) \/ CallRestore(w)
    BY <2>2, CallKeeps
  <2> QED
    BY <2>1, <2>2, FailsKeeps, LockPageKeeps, TakeBlockKeeps, SelectBlocksKeeps, ClaimBlockKeeps, PreviewKeeps, ReadTreeKeeps
<1>2. CASE UNCHANGED vars
  <2> USE <1>2 DEF vars
  <2>1. Known' = Known /\ Revs' = Revs /\ Past' = Past
    BY DEF Known, Revs, Past
  <2>2. Typed'
    BY <2>1 DEF IInv, Typed, Shaped, IsFunction
  <2>3. Apart' /\ Exclusive' /\ Manifested' /\ NewestTells' /\ (Tolerant => ReadsAreCurrent')
    BY <2>1 DEF IInv, Apart, Exclusive, Manifested, NewestTells, ReadsAreCurrent, Holds, Refers, Saves, Valid, Upcast
  <2>4. ASSUME NEW w \in Writers PROVE Sees(w)' /\ Prunes(w)' /\ Whole(w)' /\ HasRead(w)'
    <3>1. \A b : Later(w, b)' <=> Later(w, b)
      BY <2>1 DEF Later
    <3>2. Sees(w)' /\ Whole(w)' /\ HasRead(w)'
      BY <3>1 DEF IInv, Sees, Whole, HasRead, Fresh
    <3>3. Kept(w)' = Kept(w)
      BY DEF Kept, RevOf, Rev, Written, Row
    <3>4. Prunes(w)'
      BY <3>3 DEF IInv, Prunes, NewerKept, Saves
    <3> QED
      BY <3>2, <3>4
  <2> QED
    BY <2>2, <2>3, <2>4 DEF IInv
<1> QED
  BY <1>1, <1>2

LEMMA AlwaysIInv == Spec => []IInv
BY InitInv, NextInv, PTL DEF Spec

\* Whatever is written side by side, everything stored reads in the current
\* form, every publication is backed by revisions that say what it shows, and
\* the newest revision of a block that nobody has overtaken says what the block
\* says, provided that upcasting twice changes nothing (versioning.ts,
\* revisions.ts, compaction.ts).
THEOREM StoreSound == ASSUME Tolerant PROVE Spec => []StoreInv
<1>1. IInv => StoreInv
  BY TellsStore
<1> QED
  BY <1>1, AlwaysIInv, PTL

LEMMA CommitKeepsTheNewest ==
  ASSUME IInv, IInv', [Next]_vars, NEW r \in revs \ revs'
  PROVE  Cardinality({k \in Batches(revs') : TimeOf(revs', k) > r.at}) >= Cap
<1>1. PICK w \in Writers : Commits(w)
  BY QuietOrCommits DEF vars
<1>2. PICK news : Lands(w, news)
  BY <1>1, CommitsLand
<1>3. r \in tx[w].doomed /\ tx[w].pc = "held"
  BY <1>2, LandsPruned DEF Lands, Records
<1>4. Cardinality(NewerKept(w, r)) >= Cap
  BY <1>3 DEF IInv, Prunes
<1>5. Kept(w) \subseteq revs'
  BY <1>2, <1>3 DEF Kept, Lands, Records
<1>6. History(revs') /\ MaxCalls \in Nat /\ Cap \in Nat
  BY DEF History, IInv, Typed, Apart, Known, Revs, BlockHistoryAssumption
<1> DEFINE N == {k \in Batches(revs') : TimeOf(revs', k) > r.at}
<1>7. NewerKept(w, r) \subseteq N
  <2> SUFFICES ASSUME NEW q \in Saves(Kept(w)), q.at > r.at PROVE q.batch \in N
    BY DEF NewerKept
  <2>1. q \in Saves(revs')
    BY <1>5 DEF Saves
  <2>2. TimeOf(revs', q.batch) = q.at
    BY <1>6, <2>1, OneTime
  <2> QED
    BY <2>1, <2>2 DEF Batches
<1>8. IsFiniteSet(N)
  <2>1. IsFiniteSet(Batches(revs'))
    BY <1>6, FewBatches
  <2> QED
    BY <2>1, FS_Subset
<1> HIDE DEF N
<1>9. /\ Cardinality(NewerKept(w, r)) <= Cardinality(N)
      /\ Cardinality(NewerKept(w, r)) \in Nat /\ Cardinality(N) \in Nat
  BY <1>7, <1>8, FS_Subset, FS_CardinalityType
<1>10. Cardinality(N) >= Cap
  BY <1>4, <1>6, <1>9
<1> QED
  BY <1>10 DEF N

\* What pruning takes has, after the commit, as many newer batches of saves as
\* the cap allows, although transactions that prune side by side do not see each
\* other's (pruneBlockRevisions).
THEOREM NewestAreKept == Spec => KeepsTheNewest
<1>1. IInv /\ IInv' /\ [Next]_vars =>
        \A r \in revs \ revs' : Cardinality({k \in Batches(revs') : TimeOf(revs', k) > r.at}) >= Cap
  BY CommitKeepsTheNewest
<1> QED
  BY <1>1, AlwaysIInv, PTL DEF Spec, KeepsTheNewest

LEMMA CommitIsNotBlind ==
  ASSUME IInv, [Next]_vars, NEW w \in Writers, tx'[w] = Idle, rows' # rows
  PROVE  /\ tx[w].op \in {"update", "delete", "props"} => rows[tx[w].block].version = tx[w].seen
         /\ tx[w].op = "compact" => \A b \in tx[w].claimed \ overtaken : rows'[b].text = rows[b].text
<1>1. PICK v \in Writers : Commits(v)
  BY QuietOrCommits DEF vars
<1>2. PICK news : Lands(v, news)
  BY <1>1, CommitsLand
<1>3. CASE v # w
  <2>1. tx[w] = Idle
    BY <1>2, <1>3, LandsMoves DEF Moves
  <2> QED
    BY <2>1 DEF Idle
<1>4. CASE v = w
  <2>1. Sees(w) /\ Shaped(tx[w])
    BY DEF IInv, Typed
  <2>2. CASE CommitEdit(w)
    BY <2>1, <2>2 DEF CommitEdit, Shaped, Sees, Fresh, BlockOps, Idle
  <2>3. CASE WriteCompaction(w)
    <3>1. tx[w].pc = "selected" /\ tx[w].op = "compact" /\ tx[w].claimed = DOMAIN tx[w].work
          /\ tx[w].claimed \subseteq DOMAIN rows
      BY <2>1, <2>3 DEF WriteCompaction, Shaped, Idle, IInv, Exclusive
    <3>2. \A b \in tx[w].claimed : rows'[b] = Compacted(rows[b], tx[w].work[b])
      BY <2>3, <3>1 DEF WriteCompaction
    <3>3. \A b \in tx[w].claimed \ overtaken : rows[b].text = tx[w].work[b].text
      BY <2>1, <3>1 DEF Sees
    <3>4. \A b \in tx[w].claimed : rows'[b].text = tx[w].work[b].text
      <4>1. \A r, k : Compacted(r, k).text = k.text
        BY DEF Compacted, Row
      <4> QED
        BY <3>2, <4>1
    <3> QED
      BY <3>1, <3>3, <3>4
  <2>4. CASE RestoreBatch(w)
    BY <2>4 DEF RestoreBatch
  <2>5. CASE Materialise(w)
    BY <2>5 DEF Materialise, Fails
  <2> QED
    BY <1>1, <1>4, <2>2, <2>3, <2>4, <2>5 DEF Commits
<1> QED
  BY <1>3, <1>4

\* Whoever an edit has waited for, what it writes over is the version that its
\* caller has read; and a compaction that nobody overtakes leaves every text as
\* it is (edit-batch.ts, tree.ts, compaction.ts).
THEOREM NothingIsOverwrittenBlindly == Spec => NoBlindOverwrite
<1>1. IInv /\ [Next]_vars =>
        \A w \in Writers : (tx'[w] = Idle /\ rows' # rows) =>
          LET t == tx[w] IN
          /\ t.op \in {"update", "delete", "props"} => rows[t.block].version = t.seen
          /\ t.op = "compact" => \A b \in t.claimed \ overtaken : rows'[b].text = rows[b].text
  BY CommitIsNotBlind
<1> QED
  BY <1>1, AlwaysIInv, PTL DEF Spec, NoBlindOverwrite

LEMMA RestoreBringsAll ==
  ASSUME IInv, [Next]_vars, NEW w \in Writers, tx[w].op = "restore", tx'[w] = Idle, page' # page
  PROVE  \/ rows' = rows
         \/ \A b \in DOMAIN tx[w].work :
              \E i \in DOMAIN rows' :
                /\ i = b \/ (tx[w].work[b].change = "delete" /\ i \notin DOMAIN rows)
                /\ rows'[i].text = tx[w].work[b].text
<1> DEFINE t == tx[w]
<1>1. PICK v \in Writers : Commits(v)
  BY QuietOrCommits DEF vars
<1>2. PICK news : Lands(v, news)
  BY <1>1, CommitsLand
<1>3. v = w
  BY <1>2, LandsMoves DEF Moves
<1>4. Shaped(t) /\ Whole(w)
  BY DEF IInv, Typed
<1>5. RestoreBatch(w) /\ ~Fails(w)
  <2>1. ~CommitEdit(w) /\ ~WriteCompaction(w) /\ ~Materialise(w)
    BY <1>4 DEF CommitEdit, WriteCompaction, Materialise, Shaped, BlockOps, Idle
  <2> QED
    BY <1>1, <1>3, <2>1 DEF Commits
<1>6. PICK made : Restores(w, made)
  BY <1>5, RestoreRestores
<1>7. CASE \E r \in revs : r.batch = t.from
  <2>1. Restored(t) = DOMAIN t.work
    BY <1>4, <1>6, <1>7 DEF Restored, Whole, Restores
  <2> SUFFICES ASSUME NEW b \in DOMAIN t.work
               PROVE  \E i \in DOMAIN rows' :
                        /\ i = b \/ (t.work[b].change = "delete" /\ i \notin DOMAIN rows)
                        /\ rows'[i].text = t.work[b].text
    OBVIOUS
  <2>2. CASE b \in Again(t)
    <3>1. rows'[b] = Row(t.work[b].text, Current, rows[b].stored, rows[b].version + 1) /\ b \in DOMAIN rows'
      BY <1>6, <2>2 DEF Restores
    <3> QED
      BY <3>1 DEF Row
  <2>3. CASE b \in Back(t)
    <3>1. PICK i \in made : rows'[i] = Row(t.work[b].text, Current, Current, 1)
      BY <1>6, <2>3 DEF Restores
    <3>2. i \in DOMAIN rows' /\ i \notin DOMAIN rows
      BY <1>6, <3>1 DEF Restores, Unused
    <3> QED
      BY <2>3, <3>1, <3>2 DEF Back, Row
  <2> QED
    BY <2>1, <2>2, <2>3 DEF Again, Back
<1>8. CASE ~ \E r \in revs : r.batch = t.from
  <2>1. Again(t) = {} /\ Back(t) = {}
    BY <1>8 DEF Again, Back, Restored
  <2>2. made = {} /\ DOMAIN rows' = DOMAIN rows /\ \A b \in DOMAIN rows : rows'[b] = rows[b]
    BY <1>6, <2>1 DEF Restores
  <2>3. IsFunction(rows) /\ IsFunction(rows')
    BY <1>6 DEF Restores, IInv, Typed
  <2> QED
    BY <2>2, <2>3 DEF IsFunction
<1> QED
  BY <1>7, <1>8

\* A restore brings back every block of the batch that its caller was shown, or
\* none of them when the batch has been pruned while it waited for the page
\* (revisions.ts).
THEOREM RestoresAreWhole == Spec => RestoreIsWhole
<1>1. IInv /\ [Next]_vars =>
        \A w \in Writers : (tx[w].op = "restore" /\ tx'[w] = Idle /\ page' # page) =>
          \/ rows' = rows
          \/ \A b \in DOMAIN tx[w].work :
               \E i \in DOMAIN rows' :
                 /\ i = b \/ (tx[w].work[b].change = "delete" /\ i \notin DOMAIN rows)
                 /\ rows'[i].text = tx[w].work[b].text
  BY RestoreBringsAll
<1> QED
  BY <1>1, AlwaysIInv, PTL DEF Spec, RestoreIsWhole
=============================================================================
