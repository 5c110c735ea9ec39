----------------------------- MODULE BlockTree -----------------------------
(***************************************************************************)
(* The blocks of a page: where one may be placed, how its place among its  *)
(* siblings becomes a number, what the operations of an edit batch do to   *)
(* the rows, which revisions they record, and the restore of a batch       *)
(* (packages/pages/src: placement.ts, ordering.ts, subtree.ts, tree.ts,    *)
(* edit-batch.ts, revisions.ts, columns.ts).                               *)
(*                                                                         *)
(* Every operation here holds the lock of the page's row and has compared  *)
(* the page's version, so each is one step; that is PageEdit's subject.    *)
(* What a block says (its properties) is BlockHistory's.  Of a section's   *)
(* layout the number of columns that its ratio names is kept.              *)
(***************************************************************************)
EXTENDS Naturals, SequencesExt

CONSTANTS
  Types, Kind,     \* the registered block types; each is a section, a column or a block
  Takes,           \* pairs: what a section, a block or the page accepts below it
  Starters,        \* what a new block of a type starts with
  Rank(_),         \* the order of the ids, which is not that of their making
  Step,            \* SORT_ORDER_STEP
  MaxSections,     \* sectionNestingDepth
  MaxLevel,        \* blockDepthCeiling
  Cap,             \* how many batches of revisions are kept
  Circles,         \* whether a restore happens that hangs a block below itself
  MaxBlocks        \* bound: ids ever made

Root == 0
Ids == Nat \ {0}
NoType == "page"

ASSUME BlockTreeAssumption ==
  /\ Kind \in [Types -> {"section", "column", "block"}] /\ NoType \notin Types
  /\ Starters \in [Types -> Seq(Types)]
  /\ \A i, j \in 1..MaxBlocks : Rank(i) = Rank(j) => i = j
  /\ Step \in Nat \ {0, 1} /\ MaxSections \in Nat /\ MaxLevel \in Nat
  /\ Cap \in Nat /\ Circles \in BOOLEAN /\ MaxBlocks \in Nat

VARIABLES
  rows,       \* page_blocks: the rows of the page by their id
  log,        \* block_revisions: the batches, oldest first
  fresh,      \* the next id that is made
  restored    \* how many batches have been restored

treeVars == <<rows, log, fresh, restored>>

Row(parent, type, sort, depth, cols) ==
  [parent |-> parent, type |-> type, sort |-> sort, depth |-> depth, cols |-> cols]
Rows == [parent : Ids \cup {Root}, type : Types, sort : Nat, depth : Nat, cols : Nat]
Changes == {"create", "update", "move", "delete"}
\* block is the reference that the database clears when the block goes.
Revision(change, id, row) == [change |-> change, block |-> id, subject |-> id, row |-> row]
Revisions == [change : Changes, block : Ids \cup {Root}, subject : Ids, row : Rows]

-----------------------------------------------------------------------------
(* The shape of a set of rows.                                             *)

KindOf(b, i) == IF i = Root THEN "page" ELSE Kind[b[i].type]
TypeOf(b, i) == IF i = Root THEN NoType ELSE b[i].type

\* The block and all that it is in, found by climbing its parents.
Line(b, i) ==
  LET up[n, j \in Nat] ==
        IF n = 0 \/ j = Root THEN {} ELSE {j} \cup up[n - 1, b[j].parent]
  IN up[Cardinality(DOMAIN b), i]
Subtree(b, i) == {j \in DOMAIN b : i \in Line(b, j)}
SectionsIn(b, ids) == {j \in ids : KindOf(b, j) = "section"}

\* Siblings are read by sort order and then by id.
Earlier(b, i, j) ==
  b[i].sort < b[j].sort \/ (b[i].sort = b[j].sort /\ Rank(i) < Rank(j))
Kids(b, p) == {i \in DOMAIN b : b[i].parent = p}
\* The members of a set by their place in a strict order.
InOrder(S, Precedes(_, _)) ==
  [k \in 1..Cardinality(S) |-> CHOOSE i \in S : Cardinality({j \in S : Precedes(j, i)}) = k - 1]
Ordered(b, p) == InOrder(Kids(b, p), LAMBDA i, j : Earlier(b, i, j))
\* A block and what is below it: parents first, siblings in their order.
Downward(b, i) ==
  InOrder(Subtree(b, i), LAMBDA j, k :
    b[j].depth < b[k].depth \/ (b[j].depth = b[k].depth /\ Earlier(b, j, k)))

Columns(b, s) == {i \in Kids(b, s) : KindOf(b, i) = "column"}
RatioFits(b, s) == b[s].cols = 0 \/ b[s].cols = Cardinality(Columns(b, s))

-----------------------------------------------------------------------------
(* Placement.                                                              *)

DepthUnder(b, p) == IF p = Root THEN 0 ELSE b[p].depth + 1

\* A column is looked through: what counts is the section it is in.
Accepting(b, p) == IF KindOf(b, p) = "column" THEN b[p].parent ELSE p

Placeable(b, type, p) ==
  /\ p = Root => Kind[type] = "section"
  /\ IF Kind[type] = "column" THEN KindOf(b, p) = "section"
     ELSE /\ KindOf(b, p) # "section"
          /\ KindOf(b, p) = "column" => b[p].parent # Root
          /\ <<TypeOf(b, Accepting(b, p)), type>> \in Takes
  /\ Kind[type] = "section" => Cardinality(SectionsIn(b, Line(b, p))) < MaxSections
  /\ DepthUnder(b, p) <= MaxLevel

\* Height and sections along the longest line below a block, itself included.
Height(b, i) == Max({Cardinality(Line(b, j) \cap Subtree(b, i)) : j \in Subtree(b, i)}) - 1
SectionHeight(b, i) ==
  Max({Cardinality(SectionsIn(b, Line(b, j) \cap Subtree(b, i))) : j \in Subtree(b, i)})
\* Asked of a block that moves, beyond its own placement.
FitsBelow(b, i, p) ==
  /\ DepthUnder(b, p) + Height(b, i) <= MaxLevel
  /\ Cardinality(SectionsIn(b, Line(b, p))) + SectionHeight(b, i) <= MaxSections

-----------------------------------------------------------------------------
(* The place among the siblings as a number.                               *)

At(parent, previous, next) == [parent |-> parent, previous |-> previous, next |-> next]
AtEnd(parent) == At(parent, Root, Root)

Siblings(b, pos, moved) == SelectSeq(Ordered(b, pos.parent), LAMBDA i : i # moved)
Place(list, i) == CHOOSE k \in DOMAIN list : list[k] = i

\* InvalidSiblingReferenceError otherwise.
WellNamed(list, pos) ==
  /\ {pos.previous, pos.next} \ {Root} \subseteq Range(list)
  /\ (pos.previous # Root /\ pos.next # Root) => Place(list, pos.previous) < Place(list, pos.next)

PlaceBeforeOrLast(list, pos) ==
  IF pos.previous # Root THEN Place(list, pos.previous) ELSE Len(list)
\* The places of the two neighbours: outside the list where there is none.
PlaceBefore(list, pos) ==
  IF pos.previous # Root THEN Place(list, pos.previous)
  ELSE IF pos.next # Root THEN Place(list, pos.next) - 1 ELSE Len(list)
PlaceAfter(list, pos) ==
  IF pos.next # Root THEN Place(list, pos.next)
  ELSE IF pos.previous # Root THEN Place(list, pos.previous) + 1 ELSE Len(list) + 1
SortAt(b, list, k) == b[list[k]].sort

\* Without a number between the neighbours the siblings are numbered anew.
GapClosed(b, list, pos) ==
  LET k == PlaceBefore(list, pos) l == PlaceAfter(list, pos) IN
  /\ l \in DOMAIN list
  /\ IF k \in DOMAIN list THEN SortAt(b, list, l) < SortAt(b, list, k) + 2
     ELSE SortAt(b, list, l) < 1
Spaced(b, list, pos) ==
  IF GapClosed(b, list, pos)
  THEN [i \in DOMAIN b |-> IF i \in Range(list)
                           THEN [b[i] EXCEPT !.sort = Place(list, i) * Step] ELSE b[i]]
  ELSE b
SortBetween(b, list, pos) ==
  LET k == PlaceBefore(list, pos) l == PlaceAfter(list, pos) IN
  IF k \in DOMAIN list
  THEN IF l \in DOMAIN list THEN (SortAt(b, list, k) + SortAt(b, list, l)) \div 2
       ELSE SortAt(b, list, k) + Step
  ELSE IF l \in DOMAIN list THEN SortAt(b, list, l) \div 2 ELSE Step

-----------------------------------------------------------------------------
(* A transaction under way: the rows as it has them, what it recorded, the *)
(* sections it must look at before it commits, and whether it is refused.  *)

Work(b, next) ==
  [rows |-> b, next |-> next, revs |-> <<>>, bare |-> {}, ratio |-> {}, ok |-> TRUE]
Refused(w) == [w EXCEPT !.ok = FALSE]

InsertBlockRow(w, id, type, cols, pos) ==
  LET list == Siblings(w.rows, pos, Root)
      row == Row(pos.parent, type, SortBetween(Spaced(w.rows, list, pos), list, pos),
                 DepthUnder(w.rows, pos.parent), cols)
  IN IF /\ w.ok /\ id \notin DOMAIN w.rows /\ pos.parent \in {Root} \cup DOMAIN w.rows
        /\ Placeable(w.rows, type, pos.parent) /\ WellNamed(list, pos)
     THEN [w EXCEPT !.rows = Spaced(w.rows, list, pos) @@ (id :> row),
                    !.revs = Append(@, Revision("create", id, row))]
     ELSE Refused(w)

\* What an editor sends to be inserted: nodes, each below an earlier one.
Node(id, type, cols, under) == [id |-> id, type |-> type, cols |-> cols, under |-> under]

\* A node that comes without children gets its type's starters.
WithStarters(nodes, next) ==
  LET parents == {nodes[k].under : k \in DOMAIN nodes}
      Start(list, n) ==
        list \o [k \in DOMAIN Starters[n.type] |->
                   Node(next + Len(list) - Len(nodes) + k - 1, Starters[n.type][k], 0, n.id)]
  IN FoldLeft(Start, nodes, SelectSeq(nodes, LAMBDA n : n.id \notin parents))

InsertNodes(w, op) ==
  LET all == WithStarters(op.nodes, w.next)
      Put(v, n) == InsertBlockRow(v, n.id, n.type, n.cols,
                                  IF n.under = Root THEN op.pos ELSE AtEnd(n.under))
      Made(kind) == {n \in Range(all) : Kind[n.type] = kind}
      sections == {n.id : n \in Made("section")}
      held == {IF n.under = Root THEN op.pos.parent ELSE n.under : n \in Made("column")}
  IN [FoldLeft(Put, w, all) EXCEPT
        !.next = @ + Len(all) - Len(op.nodes),
        !.bare = @ \cup sections, !.ratio = @ \cup sections \cup held]

UpdateBlock(w, op) ==
  IF ~w.ok \/ op.id \notin DOMAIN w.rows THEN Refused(w)
  ELSE LET row == [w.rows[op.id] EXCEPT !.cols = op.cols] IN
       [w EXCEPT !.rows = [@ EXCEPT ![op.id] = row],
                 !.revs = Append(@, Revision("update", op.id, row)),
                 !.ratio = IF Kind[row.type] = "section" THEN @ \cup {op.id} ELSE @]

RehungAlone(b, i, parent, sort) ==
  [b EXCEPT ![i] = [@ EXCEPT !.parent = parent, !.sort = sort, !.depth = DepthUnder(b, parent)]]
\* The row under its new parent, and all below it at their new depths.
Rehung(b, i, parent, sort) ==
  LET shown == DepthUnder(b, parent) IN
  [j \in DOMAIN b |->
     IF j = i THEN [b[j] EXCEPT !.parent = parent, !.sort = sort, !.depth = shown]
     ELSE IF j \in Subtree(b, i)
     THEN [b[j] EXCEPT !.depth = shown + Cardinality(Line(b, j) \cap Subtree(b, i)) - 1]
     ELSE b[j]]

\* The revision of a move says where the block was.
MoveBlockRow(w, i, pos) ==
  LET list == Siblings(w.rows, pos, i)
      old == w.rows[i]
      spaced == Spaced(w.rows, list, pos)
  IN IF /\ w.ok /\ i \in DOMAIN w.rows /\ pos.parent \in {Root} \cup DOMAIN w.rows
        /\ pos.parent \notin Subtree(w.rows, i)
        /\ Placeable(w.rows, old.type, pos.parent) /\ FitsBelow(w.rows, i, pos.parent)
        /\ WellNamed(list, pos)
     THEN [w EXCEPT !.rows = Rehung(spaced, i, pos.parent, SortBetween(spaced, list, pos)),
                    !.revs = Append(@, Revision("move", i, old))]
     ELSE Refused(w)

\* The section that a column is in; nothing for any other block.
SectionOf(w, i) ==
  IF i \in DOMAIN w.rows /\ KindOf(w.rows, i) = "column" THEN {w.rows[i].parent} ELSE {}

MoveBlock(w, op) ==
  [MoveBlockRow(w, op.id, op.pos) EXCEPT
     !.bare = @ \cup SectionOf(w, op.id),
     !.ratio = @ \cup SectionOf(w, op.id) \cup
               (IF SectionOf(w, op.id) = {} THEN {} ELSE {op.pos.parent})]

DeleteRowAlone(w, i) ==
  IF ~w.ok \/ i \notin DOMAIN w.rows THEN Refused(w)
  ELSE [w EXCEPT !.rows = Restrict(@, DOMAIN @ \ {i}),
                 !.revs = Append(@, Revision("delete", i, w.rows[i]))]
DeleteRows(w, i) ==
  IF ~w.ok \/ i \notin DOMAIN w.rows THEN Refused(w)
  ELSE LET gone == Downward(w.rows, i) IN
       [w EXCEPT !.rows = Restrict(@, DOMAIN @ \ Range(gone)),
                 !.revs = @ \o [k \in DOMAIN gone |-> Revision("delete", gone[k], w.rows[gone[k]])]]
DeleteBlock(w, op) ==
  [DeleteRows(w, op.id) EXCEPT !.bare = @ \cup SectionOf(w, op.id),
                               !.ratio = @ \cup SectionOf(w, op.id)]

\* A copy right after the original: what is below it gets ids of its own.
DuplicateBlock(w, op) ==
  IF ~w.ok \/ op.id \notin DOMAIN w.rows THEN Refused(w)
  ELSE
  LET b == w.rows
      from == Downward(b, op.id)
      CopyOf(i) == IF i = op.id THEN op.new ELSE w.next + Place(from, i) - 2
      Put(v, i) == InsertBlockRow(v, CopyOf(i), b[i].type, b[i].cols,
                     IF i = op.id THEN At(b[i].parent, i, Root) ELSE AtEnd(CopyOf(b[i].parent)))
  IN [FoldLeft(Put, w, from) EXCEPT
        !.next = @ + Len(from) - 1,
        !.bare = @ \cup {CopyOf(i) : i \in SectionsIn(b, Range(from))},
        !.ratio = @ \cup SectionOf(w, op.id)]

Apply(w, op) ==
  CASE op.op = "insert" -> InsertNodes(w, op)
    [] op.op = "update" -> UpdateBlock(w, op)
    [] op.op = "move" -> MoveBlock(w, op)
    [] op.op = "delete" -> DeleteBlock(w, op)
    [] op.op = "duplicate" -> DuplicateBlock(w, op)

\* assertSectionsHaveColumns and assertColumnCountsMatchLayout
SectionsKept(w) == \A s \in w.bare \cap DOMAIN w.rows : Columns(w.rows, s) # {}
RatiosKept(w) == \A s \in w.ratio \cap DOMAIN w.rows : RatioFits(w.rows, s)

ApplyAll(ops, next) == FoldLeft(Apply, Work(rows, next), ops)
Accepted(w) == w.ok /\ SectionsKept(w) /\ RatiosKept(w)

-----------------------------------------------------------------------------
(* Saving a transaction.                                                   *)

\* A deleted block is cleared from the revisions that refer to it.
Cleared(batch, b) ==
  [k \in DOMAIN batch |->
     IF batch[k].block \in DOMAIN b THEN batch[k] ELSE [batch[k] EXCEPT !.block = Root]]
\* pruneBlockRevisions; a cap of zero keeps all.
Pruned(batches) ==
  IF Cap = 0 \/ Len(batches) <= Cap THEN batches
  ELSE SubSeq(batches, Len(batches) - Cap + 1, Len(batches))
Logged(w) ==
  LET batches == IF w.revs = <<>> THEN log ELSE Append(log, w.revs) IN
  [k \in DOMAIN batches |-> Cleared(batches[k], w.rows)]

Room(w) == w.next <= MaxBlocks + 1
Save(w, batches) ==
  /\ Room(w)
  /\ rows' = w.rows /\ fresh' = w.next /\ log' = batches

\* The operations of a batch, in order, or none of them; the editor's part
\* has made the ids before next.
ApplyBlockEdit(ops, next) ==
  \E w \in {ApplyAll(ops, next)} :
    Accepted(w) /\ Save(w, Pruned(Logged(w))) /\ UNCHANGED restored

(* The package's own calls: no starters, no look at ratios.                *)
InsertBlock ==
  \E type \in Types, p \in {Root} \cup DOMAIN rows :
  \E w \in {InsertBlockRow(Work(rows, fresh + 1), fresh, type, 0, AtEnd(p))} :
    w.ok /\ Save(w, Pruned(Logged(w))) /\ UNCHANGED restored
MoveBlockCall ==
  \E i \in DOMAIN rows, p \in {Root} \cup DOMAIN rows :
  \E w \in {MoveBlockRow(Work(rows, fresh), i, AtEnd(p))} :
    /\ w.ok /\ SectionsKept([w EXCEPT !.bare = SectionOf(Work(rows, fresh), i)])
    /\ Save(w, Pruned(Logged(w))) /\ UNCHANGED restored
DeleteBlockCall ==
  \E i \in DOMAIN rows :
  \E w \in {DeleteBlock(Work(rows, fresh), [id |-> i])} :
    w.ok /\ SectionsKept(w) /\ Save(w, Pruned(Logged(w))) /\ UNCHANGED restored

\* Opening the page gives every section without columns one.
UpgradedSections(b, next) ==
  LET bare == InOrder({s \in SectionsIn(b, DOMAIN b) : Columns(b, s) = {}}, LAMBDA s, t : s < t)
      Put(w, s) ==
        LET row == Row(s, CHOOSE t \in Types : Kind[t] = "column", Step, b[s].depth + 1, 0) IN
        [w EXCEPT !.rows = @ @@ (w.next :> row), !.next = @ + 1,
                  !.revs = Append(@, Revision("create", w.next, row))]
  IN FoldLeft(Put, Work(b, next), bare)
UpgradeSectionColumns ==
  \E w \in {UpgradedSections(rows, fresh)} : Save(w, Pruned(Logged(w))) /\ UNCHANGED restored

-----------------------------------------------------------------------------
(* Restoring a batch of revisions.                                         *)

\* What was deleted comes back under a new id, below what its parent has
\* become; what was moved goes back below its parent of before; what was made
\* or changed gets its layout of then.
RestoreDeleted(v, rev, parent) ==
  LET id == v.w.next
      row == Row(parent, rev.row.type, rev.row.sort, DepthUnder(v.w.rows, parent), rev.row.cols)
  IN [v EXCEPT !.became = @ @@ (rev.subject :> id),
               !.w = [v.w EXCEPT !.rows = @ @@ (id :> row), !.next = @ + 1,
                        !.revs = Append(@, Revision("create", id, row)),
                        !.bare = IF Kind[row.type] = "section" THEN @ \cup {id} ELSE @]]

RestoreMoved(v, rev, parent) ==
  LET i == rev.block w == v.w IN
  IF i \notin DOMAIN w.rows \/ ~FitsBelow(w.rows, i, parent)
     \/ ~(Circles \/ parent \notin Subtree(w.rows, i)) THEN [v EXCEPT !.w = Refused(w)]
  ELSE [v EXCEPT !.w = [w EXCEPT
          !.rows = Rehung(@, i, parent, rev.row.sort),
          !.revs = Append(@, Revision("move", i, w.rows[i])),
          !.bare = @ \cup (SectionOf(w, i) \ {parent})]]

RestoreChanged(v, rev) ==
  LET i == rev.block w == v.w IN
  IF i \notin DOMAIN w.rows THEN [v EXCEPT !.w = Refused(w)]
  ELSE LET row == [w.rows[i] EXCEPT !.cols = rev.row.cols] IN
       [v EXCEPT !.w = [w EXCEPT !.rows = [@ EXCEPT ![i] = row],
                                 !.revs = Append(@, Revision("update", i, row))]]

RestoreOne(v, rev) ==
  LET known == rev.row.parent \in DOMAIN v.became
      parent == IF known THEN v.became[rev.row.parent] ELSE rev.row.parent
  IN IF ~v.w.ok \/ parent \notin {Root} \cup DOMAIN v.w.rows
        \/ ~Placeable(v.w.rows, rev.row.type, parent)
     THEN [v EXCEPT !.w = Refused(v.w)]
     ELSE CASE rev.change = "delete" -> RestoreDeleted(v, rev, parent)
            [] rev.change = "move" -> RestoreMoved(v, rev, parent)
            [] OTHER -> RestoreChanged(v, rev)

\* Rows of one time come in the order of their random ids, then by depth.
ByDepth(batch) ==
  {s \in {[k \in DOMAIN batch |-> batch[at[k]]] : at \in Permutations(DOMAIN batch)} :
     \A k \in 1..(Len(s) - 1) : s[k].row.depth <= s[k + 1].row.depth}

\* Nothing is pruned here.
RestoreRevisionBatch ==
  \E k \in DOMAIN log : \E order \in ByDepth(log[k]) :
  \E v \in {FoldLeft(RestoreOne, [w |-> Work(rows, fresh), became |-> <<>>], order)} :
    /\ v.w.ok /\ SectionsKept(v.w)
    /\ Save(v.w, Logged(v.w)) /\ restored' = restored + 1
=============================================================================
