--------------------------- MODULE EditorHistory ---------------------------
(***************************************************************************)
(* An editor that changes the blocks of a page, undoes and redoes: which   *)
(* edits it offers, how it turns them into the operations of a batch, and  *)
(* what it keeps to take them back (packages/editor/src/client/session:    *)
(* insertion.ts, column-actions.ts, structure-actions.ts, move-action.ts,  *)
(* inverse.ts, save-queue.ts; drag/slots.ts).  Each edit is saved before   *)
(* the next: the queue between is SaveQueue's and SaveRunner's subject.    *)
(*                                                                         *)
(* Others change the same page through the package's calls, and batches    *)
(* of revisions are restored.  Either makes the editor's version stale; it *)
(* loads the page again and forgets what it could undo.                    *)
(***************************************************************************)
EXTENDS BlockTree

CONSTANTS
  Pages0,      \* the trees to begin with
  Calls,       \* what others do: some of "insert", "move", "delete", "restore"
  MaxEdits,    \* bound: edits and calls
  MaxHistory   \* bound: undos, redos and restores, of which one restore

VARIABLES
  tab,        \* "open", "stale" once another changed the page
  undo, redo, \* the entries, the last is the next to be taken
  edits, turns,
  refused,    \* what the server refused of what the editor offered, if it did
  unmatched   \* history: others left a section's ratio and its columns apart

editorVars == <<tab, undo, redo, refused, unmatched>>
vars == <<treeVars, editorVars, edits, turns>>

Insert(nodes, pos) == [op |-> "insert", nodes |-> nodes, pos |-> pos]
Update(id, cols) == [op |-> "update", id |-> id, cols |-> cols]
Move(id, pos) == [op |-> "move", id |-> id, pos |-> pos]
Delete(id) == [op |-> "delete", id |-> id]
Duplicate(id, new) == [op |-> "duplicate", id |-> id, new |-> new]

-----------------------------------------------------------------------------
(* What the editor offers.                                                 *)

\* The gaps of a list of siblings, without the one that is moved.
Slot(list, p, k) ==
  At(p, IF k = 1 THEN Root ELSE list[k - 1], IF k > Len(list) THEN Root ELSE list[k])
Slots(b, p, moved) ==
  LET list == SelectSeq(Ordered(b, p), LAMBDA i : i # moved) IN
  {Slot(list, p, k) : k \in 1..(Len(list) + 1)}
CurrentPosition(b, i) ==
  LET list == Ordered(b, b[i].parent) k == Place(list, i) IN
  At(b[i].parent, IF k = 1 THEN Root ELSE list[k - 1], IF k = Len(list) THEN Root ELSE list[k + 1])

RatiosFit(b) == \A s \in SectionsIn(b, DOMAIN b) : RatioFits(b, s)
PlacesOf(b) == {Root} \cup DOMAIN b
CanPlace(b, type, p) == Placeable(b, type, p)
CanMove(b, i, p) ==
  p \notin Subtree(b, i) /\ CanPlace(b, b[i].type, p) /\ FitsBelow(b, i, p)

NewBlocks(b, id) ==
  {<<Insert(<<Node(id, type, 0, Root)>>, pos)>> :
     <<type, pos>> \in
       {tp \in {t \in Types : Kind[t] # "column"} \X UNION {Slots(b, p, Root) : p \in PlacesOf(b)} :
          CanPlace(b, tp[1], tp[2].parent)}}

\* A section whose columns change is divided equally again.
KeptRatio(s) == Update(s, rows[s].cols)
Reset(s) == Update(s, 0)
ColumnSlots(b, s) == {pos \in Slots(b, s, Root) : pos.previous # Root}
NewColumns(b, id) ==
  {<<Insert(<<Node(id, b[pos.previous].type, 0, Root)>>, pos), Reset(pos.parent)>> :
     pos \in UNION {ColumnSlots(b, s) : s \in SectionsIn(b, DOMAIN b)}}

Removals(b) ==
  {<<Delete(i)>> : i \in {i \in DOMAIN b : KindOf(b, i) # "column"}} \cup
  {<<Delete(i), Reset(b[i].parent)>> :
     i \in {i \in DOMAIN b : KindOf(b, i) = "column" /\ Columns(b, b[i].parent) # {i}}}
Copies(b, id) ==
  {IF KindOf(b, i) = "column" THEN <<Duplicate(i, id), Reset(b[i].parent)>> ELSE <<Duplicate(i, id)>> :
     i \in {i \in DOMAIN b : CanMove(b, i, b[i].parent)}}
MoveTo(b, i, pos) ==
  IF KindOf(b, i) = "column" /\ pos.parent # b[i].parent
  THEN <<Move(i, pos), Reset(b[i].parent), Reset(pos.parent)>> ELSE <<Move(i, pos)>>
Moves(b) ==
  UNION {{MoveTo(b, i, pos) : pos \in UNION {Slots(b, p, i) : p \in {p \in PlacesOf(b) : CanMove(b, i, p)}}
                                     \ {CurrentPosition(b, i)}} : i \in DOMAIN b}
Ratios(b) ==
  UNION {{<<Update(s, n)>> :
            n \in {n \in {0, Cardinality(Columns(b, s))} : n # 1 /\ n # b[s].cols}} :
         s \in SectionsIn(b, DOMAIN b)}

Offered(b, id) ==
  NewBlocks(b, id) \cup NewColumns(b, id) \cup Removals(b) \cup Copies(b, id)
    \cup Moves(b) \cup Ratios(b)

-----------------------------------------------------------------------------
(* Taking back.                                                            *)

CaptureBlock(b, i) == <<Node(i, b[i].type, b[i].cols, Root)>>
\* A block and all below it, as nodes to be inserted again.
CaptureSubtree(b, i) ==
  LET all == Downward(b, i) IN
  [k \in DOMAIN all |-> Node(all[k], b[all[k]].type, b[all[k]].cols,
                             IF k = 1 THEN Root ELSE b[all[k]].parent)]

Invert(b, op) ==
  CASE op.op = "insert" -> Delete(op.nodes[1].id)
    [] op.op = "duplicate" -> Delete(op.new)
    [] op.op = "delete" -> Insert(CaptureSubtree(b, op.id), CurrentPosition(b, op.id))
    [] op.op = "move" -> Move(op.id, CurrentPosition(b, op.id))
    [] op.op = "update" -> Update(op.id, b[op.id].cols)
\* The members of a group from the last to the first.
InverseOf(b, intent) == [k \in DOMAIN intent |-> Invert(b, Reverse(intent)[k])]

\* The neighbours that are still there; else the front of the list.
ResolvePosition(b, pos, made, moved) ==
  LET list == Siblings(b, pos, moved)
      Survives(i) == i # Root /\ i # moved /\ (i \in Range(list) \/ i \in made)
      Kept(i) == IF Survives(i) THEN i ELSE Root
  IN IF pos.previous = Root /\ pos.next = Root THEN pos
     ELSE IF Survives(pos.previous) \/ Survives(pos.next)
     THEN At(pos.parent, Kept(pos.previous), Kept(pos.next))
     ELSE IF list = <<>> THEN AtEnd(pos.parent) ELSE At(pos.parent, Root, Head(list))

\* What has gone meanwhile is left out.
OpsFor(b, intent) ==
  LET made == UNION {CASE op.op = "insert" -> {n.id : n \in Range(op.nodes)}
                       [] op.op = "duplicate" -> {op.new}
                       [] OTHER -> {} : op \in Range(intent)}
      Known(op) == CASE op.op = "insert" -> TRUE
                     [] op.op = "update" -> op.id \in DOMAIN b \cup made
                     [] OTHER -> op.id \in DOMAIN b
      Built(op) == CASE op.op = "insert" -> [op EXCEPT !.pos = ResolvePosition(b, @, made, Root)]
                     [] op.op = "move" -> [op EXCEPT !.pos = ResolvePosition(b, @, made, op.id)]
                     [] OTHER -> op
      left == SelectSeq(intent, Known)
  IN [k \in DOMAIN left |-> Built(left[k])]

\* What there is to see of the page: no ids, in document order.
Shape(b) ==
  LET seen[i \in PlacesOf(b)] ==
        FoldLeft(LAMBDA list, k : list \o seen[k],
                 IF i = Root THEN <<>> ELSE <<<<b[i].depth, b[i].type, b[i].cols>>>>,
                 Ordered(b, i))
  IN seen[Root]

Entry(intent) ==
  [forward |-> intent, inverse |-> InverseOf(rows, intent), before |-> Shape(rows)]

-----------------------------------------------------------------------------
Init ==
  /\ rows \in Pages0 /\ log = <<>> /\ fresh = Max(DOMAIN rows) + 1 /\ restored = 0
  /\ tab = "open" /\ undo = <<>> /\ redo = <<>> /\ edits = 0 /\ turns = 0 /\ refused = <<>>
  /\ unmatched = FALSE

Counted == edits < MaxEdits /\ edits' = edits + 1 /\ UNCHANGED turns

\* The entry is recorded before the save; a refused one is taken off again.
Edit ==
  /\ tab = "open" /\ Counted
  /\ \E intent \in Offered(rows, fresh) :
       LET ops == OpsFor(rows, intent) IN
       \/ /\ ApplyBlockEdit(ops, fresh + 1)
          /\ undo' = Append(undo, Entry(intent)) /\ redo' = <<>>
          /\ UNCHANGED refused
       \/ /\ ~Accepted(ApplyAll(ops, fresh + 1))
          /\ refused' = intent /\ redo' = <<>>
          /\ UNCHANGED <<treeVars, undo>>
  /\ UNCHANGED <<tab, unmatched>>

\* An undo or a redo that the server refuses is put back on its stack.
Replayed(intent) ==
  LET ops == OpsFor(rows, intent) IN
  /\ IF ops = <<>> THEN UNCHANGED treeVars ELSE ApplyBlockEdit(ops, fresh)
  /\ UNCHANGED refused
TurnedDown(intent) ==
  LET ops == OpsFor(rows, intent) IN
  /\ ops # <<>> /\ ~Accepted(ApplyAll(ops, fresh)) /\ refused' = intent
  /\ UNCHANGED <<treeVars, undo, redo>>
Turn(stack) ==
  /\ tab = "open" /\ stack # <<>> /\ turns < MaxHistory /\ turns' = turns + 1
  /\ UNCHANGED <<tab, unmatched, edits>>

TakeUndo ==
  /\ Turn(undo)
  /\ \/ /\ Replayed(Last(undo).inverse)
        /\ undo' = Front(undo) /\ redo' = Append(redo, Last(undo))
     \/ TurnedDown(Last(undo).inverse)
TakeRedo ==
  /\ Turn(redo)
  /\ \/ /\ Replayed(Last(redo).forward)
        /\ redo' = Front(redo) /\ undo' = Append(undo, Last(redo))
     \/ TurnedDown(Last(redo).forward)

\* Another writer; what the editor has is stale from here on.
Others(call) ==
  /\ call
  /\ tab' = "stale" /\ undo' = <<>> /\ redo' = <<>> /\ UNCHANGED refused
  /\ unmatched' = (unmatched \/ ~RatiosFit(rows'))
InsertByOthers == "insert" \in Calls /\ Counted /\ Others(InsertBlock)
MoveByOthers == "move" \in Calls /\ Counted /\ Others(MoveBlockCall)
DeleteByOthers == "delete" \in Calls /\ Counted /\ Others(DeleteBlockCall)
Restoring ==
  /\ "restore" \in Calls /\ restored = 0 /\ turns < MaxHistory /\ turns' = turns + 1 /\ UNCHANGED edits
  /\ Others(RestoreRevisionBatch)

\* Loading the page again.
Reload ==
  /\ tab = "stale" /\ UpgradeSectionColumns /\ tab' = "open"
  /\ UNCHANGED <<undo, redo, refused, unmatched, edits, turns>>

Next ==
  \/ Edit \/ TakeUndo \/ TakeRedo
  \/ InsertByOthers \/ MoveByOthers \/ DeleteByOthers \/ Restoring
  \/ Reload

Spec == Init /\ [][Next]_vars

-----------------------------------------------------------------------------
(* Properties.                                                             *)

TypeOK ==
  /\ DOMAIN rows \subseteq 1..MaxBlocks /\ \A i \in DOMAIN rows : rows[i] \in Rows
  /\ log \in Seq(Seq(Revisions)) /\ fresh \in 1..(MaxBlocks + 1) /\ restored \in 0..MaxHistory
  /\ tab \in {"open", "stale"}
  /\ \A k \in DOMAIN log : \A r \in Range(log[k]) : r.block \in PlacesOf(rows)

\* The tree stays a tree, and one that its rules allow: every block hangs
\* below a block that is there, its recorded depth is the number of blocks it
\* is in, its parent accepts it and the nesting limits hold, however blocks
\* were moved, copied, restored and re-inserted (placement.ts, subtree.ts).
WellPlaced ==
  \A i \in DOMAIN rows :
    /\ rows[i].parent \in PlacesOf(rows) /\ rows[i].parent \notin Subtree(rows, i)
    /\ rows[i].depth = Cardinality(Line(rows, i)) - 1
    /\ Placeable(rows, rows[i].type, rows[i].parent)

\* No block is cut off from the page: climbing from any of them ends at it
\* (a restore "can never recreate a shape the current registry forbids",
\* revisions.ts).
NothingLost == \A i \in DOMAIN rows : \E j \in Line(rows, i) : rows[j].parent = Root

\* A section that an editor sees has a column, whatever left it and whatever
\* came back (rule D-03, section-columns.ts).
SectionsHaveColumns ==
  tab = "open" => \A s \in SectionsIn(rows, DOMAIN rows) : Columns(rows, s) # {}

\* Without restores, whatever the numbers ran into, no two siblings ever share
\* a sort order: their order never falls back to that of their random ids
\* (resolvePositionSortOrder).
NoTies ==
  restored = 0 => \A i, j \in DOMAIN rows :
                    (i # j /\ rows[i].parent = rows[j].parent) => rows[i].sort # rows[j].sort

\* What the editor offers the server accepts, so that what it shows is what
\* gets saved; except that it offers to take the only column out of a section,
\* and that it does not repair a ratio that others have left behind.
OnlyKnownRefusals ==
  [][refused' # refused =>
       \/ unmatched
       \/ \E k \in DOMAIN refused' :
            /\ refused'[k].op = "move" /\ KindOf(rows, refused'[k].id) = "column"
            /\ Columns(rows, rows[refused'[k].id].parent) = {refused'[k].id}]_vars

\* An editor's edit lands where the editor showed it: between the neighbours
\* that it named, next to each.
LandsWhereShown ==
  [][Len(undo') > Len(undo) =>
       \A op \in Range(Last(undo').forward) :
         (op.op \in {"insert", "move"} /\ restored = 0 /\ redo' = <<>>) =>
           LET i == IF op.op = "insert" THEN op.nodes[1].id ELSE op.id IN
           CurrentPosition(rows', i) = op.pos]_vars

\* An undo takes the page back to what it was before the edit: same blocks, in
\* the same order, at the same places, with the same ratios; also when a
\* redo, other edits and other undos came in between (inverse.ts).
UndoRestores ==
  [][(Len(undo') < Len(undo) /\ Len(redo') > Len(redo)) =>
       Shape(rows') = Last(undo).before]_vars

\* The rows, with their numbers, gaps and depths, keep what Outline promises.
OutlineOf == INSTANCE Outline WITH
  Page <- Root, kids <- [p \in PlacesOf(rows) |-> Ordered(rows, p)]
KeepsOutline == OutlineOf!Spec

\* The rows are one tree below the page that the rules allow, in an order of
\* its own, with its history pointing at blocks that are there or at none.
WellFormed == TypeOK /\ WellPlaced /\ NothingLost /\ SectionsHaveColumns /\ NoTies
=============================================================================
