------------------------------ MODULE PageTree ------------------------------
(***************************************************************************)
(* The tree of pages of one locale: creating, translating, renaming,       *)
(* moving, trashing, restoring, deleting, scheduling, publishing and       *)
(* unpublishing a page, and the change of the URL pattern (packages/pages  *)
(* /src: pages.ts, translations.ts, lifecycle.ts, publish.ts,              *)
(* page-routing.ts).                                                       *)
(*                                                                         *)
(* Every write is a transaction that takes row locks and keeps them to its *)
(* end.  It reads what is committed when a statement starts (READ          *)
(* COMMITTED), so the rows that a statement finds are the rows of that     *)
(* moment, and a row it then waits for is read again once it is free.      *)
(* Writes are seen by others at the commit only: the last statements of a  *)
(* transaction are one action.  Any transaction may fail before it: the    *)
(* refusals that change nothing, a deadlock that the database breaks, a    *)
(* lost connection.  The unique slug among siblings is left to the unique  *)
(* path and page locks to PageLock; when a page is scheduled for is left   *)
(* out, since nothing acts on it.                                          *)
(***************************************************************************)
EXTENDS Naturals, SequencesExt

CONSTANTS
  Pages, NoPage,
  Slugs,
  Patterns,        \* URL patterns
  Writers,         \* transactions that can be open at a time
  MaxDepth,        \* bound: levels of the tree
  MaxCalls         \* bound: transactions begun

ASSUME PageTreeAssumption ==
  /\ NoPage \notin Pages
  /\ MaxDepth \in Nat \ {0} /\ MaxCalls \in Nat

VARIABLES
  rows,      \* the pages table
  pattern,   \* page_engine_settings.url_pattern
  history,   \* page_url_history: a page and the path or address it gave up
  tx,        \* what each open transaction knows and holds, and what was there
  calls,     \* transactions begun
  clock,     \* the last trashed_at: two trashes do not fall into one millisecond
  \* Read by no transaction:
  binned,    \* when each page last went to the trash
  astray,    \* pages that a rename or a move has parted from their parent
  overtaken  \* published pages whose address a change of the pattern has missed

vars == <<rows, pattern, history, tx, calls, clock, binned, astray, overtaken>>

Paths == UNION {[1..n -> Slugs] : n \in 1..MaxDepth}
NoAddress == <<>>
Addresses == {NoAddress} \cup (Patterns \X Paths)

\* computePageResolvedPath
AddressOf(p, path) == <<p, path>>

Row(parent, path, status, address, version, trashed) ==
  [parent |-> parent, path |-> path, status |-> status, address |-> address,
   version |-> version, trashed |-> trashed]
Rows == [parent : Pages \cup {NoPage}, path : Paths \cup {<<>>},
         status : {"unborn", "draft", "scheduled", "published", "trashed", "deleted"},
         address : Addresses, version : Nat, trashed : Nat]
Unborn == Row(NoPage, <<>>, "unborn", NoAddress, 0, 0)

Operations == {"create", "rename", "move", "trash", "restore", "delete",
               "schedule", "unschedule", "publish", "unpublish", "pattern"}

Tx(op, page, arg, base, pc) ==
  [op |-> op, page |-> page, arg |-> arg, base |-> base, pc |-> pc,
   found |-> {}, above |-> <<>>, read |-> <<>>, own |-> {}, share |-> {}, there |-> {}]
Idle == Tx("create", NoPage, <<>>, 0, "idle")

Exists(p) == rows[p].status \notin {"unborn", "deleted"}
Existing == {p \in Pages : Exists(p)}
Slug(p) == Last(rows[p].path)
\* subtreeCondition: the page and what has its path as a prefix.
Below(p) == {q \in Existing : IsPrefix(rows[p].path, rows[q].path)}
PathOf(p) == IF p = NoPage THEN <<>> ELSE rows[p].path

TypeOK ==
  /\ rows \in [Pages -> Rows] /\ pattern \in Patterns
  /\ history \subseteq Pages \X (Paths \cup Addresses)
  /\ calls \in 0..MaxCalls /\ clock \in Nat /\ binned \in [Pages -> Nat] /\ astray \cup overtaken \subseteq Pages
  /\ \A w \in Writers :
       /\ tx[w].op \in Operations /\ tx[w].page \in Pages \cup {NoPage}
       /\ tx[w].own \cup tx[w].share \cup tx[w].found \cup tx[w].there \subseteq Pages
       /\ tx[w].pc = "idle" => tx[w] = Idle

\* Any tree of drafts.
Init ==
  /\ rows \in [Pages -> {Unborn} \cup {Row(q, path, "draft", NoAddress, 1, 0) :
                           q \in Pages \cup {NoPage}, path \in Paths}]
  /\ \A p \in Existing :
       /\ rows[p].parent \in Existing \cup {NoPage}
       /\ rows[p].path = Append(PathOf(rows[p].parent), Slug(p))
  /\ \A p, q \in Existing : p # q => rows[p].path # rows[q].path
  /\ pattern \in Patterns /\ history = {} /\ calls = 0 /\ clock = 0
  /\ tx = [w \in Writers |-> Idle]
  /\ binned = [p \in Pages |-> 0] /\ astray = {} /\ overtaken = {}

-----------------------------------------------------------------------------
\* The call: what the caller has seen of the page is its version.

Call(w, t) ==
  /\ tx[w].pc = "idle" /\ calls < MaxCalls /\ calls' = calls + 1
  /\ tx' = [tx EXCEPT ![w] = t]
  /\ UNCHANGED <<rows, pattern, history, clock, binned, astray, overtaken>>

\* The id of a new page is fresh.  A translation is created below whatever page
\* of this locale translates the parent of the page it translates, and that one
\* and its parent are locked in their own locale.
CallCreate(w) ==
  \E p \in Pages, q \in Existing \cup {NoPage}, slug \in Slugs, pc \in {"parent", "sibling"} :
    /\ rows[p].status = "unborn" /\ \A v \in Writers : tx[v].page # p
    /\ Call(w, Tx("create", p, <<q, slug>>, 0, pc))

CallOn(w, op, arg) ==
  \E p \in Existing : Call(w, Tx(op, p, arg, rows[p].version, "page"))

CallPattern(w) ==
  \E new \in Patterns : Call(w, Tx("pattern", NoPage, new, 0, "settings"))

Begin(w) ==
  \/ CallCreate(w)
  \/ \E slug \in Slugs : CallOn(w, "rename", slug)
  \/ \E q \in Existing \cup {NoPage} : CallOn(w, "move", q)
  \/ \E op \in {"trash", "restore", "delete", "schedule", "unschedule", "publish", "unpublish"} :
       CallOn(w, op, <<>>)
  \/ CallPattern(w)

-----------------------------------------------------------------------------
\* The statements before the write.

Free(w, S) == \A v \in Writers \ {w} : S \cap (tx[v].own \cup tx[v].share) = {}
Shareable(w, p) == \A v \in Writers \ {w} : p \notin tx[v].own

Goes(w, t, pc) ==
  /\ tx' = [tx EXCEPT ![w] = [t EXCEPT !.pc = pc]]
  /\ UNCHANGED <<rows, pattern, history, calls, clock, binned, astray, overtaken>>

CurrentOrNot(t) == TRUE
Current(t) == rows[t.page].version = t.base

StatusAllowed(t) ==
  CASE t.op = "schedule"   -> rows[t.page].status = "draft"
    [] t.op = "unschedule" -> rows[t.page].status = "scheduled"
    [] t.op = "unpublish"  -> rows[t.page].status = "published"
    [] t.op = "trash"      -> rows[t.page].status # "trashed"
    [] t.op = "restore"    -> rows[t.page].status = "trashed"
    [] OTHER               -> TRUE

AfterPage(op) ==
  CASE op \in {"rename", "move"}  -> "parent"
    [] op \in {"trash", "delete"} -> "find"
    [] op = "restore"             -> "ancestors"
    [] op = "publish"             -> "pattern"
    [] OTHER                      -> "write"

\* loadPageForUpdate and the checks every operation begins with.
LoadPage(w) ==
  LET t == tx[w]
  IN /\ t.pc = "page" /\ Free(w, {t.page})
     /\ Exists(t.page) /\ Current(t) /\ StatusAllowed(t)
     /\ Goes(w, [t EXCEPT !.own = {t.page}], AfterPage(t.op))

\* The parent is locked so that its path, which is read here, stays.
Parent(t) ==
  CASE t.op = "create" -> t.arg[1]
    [] t.op = "rename" -> rows[t.page].parent
    [] t.op = "move"   -> t.arg

ParentUnlocked(t, q) == t
ParentLocked(t, q) ==
  IF t.op = "move" THEN [t EXCEPT !.own = @ \cup {q}] ELSE [t EXCEPT !.share = {q}]

ReadParent(w) ==
  LET t == tx[w]
      q == Parent(t)
      next == IF t.op = "create" THEN "write" ELSE "find"
  IN /\ t.pc = "parent"
     /\ \/ q = NoPage /\ Goes(w, t, next)
        \/ /\ q # NoPage /\ Exists(q)
           /\ IF t.op = "move" THEN Free(w, {q}) ELSE Shareable(w, q)
           /\ Goes(w, ParentLocked([t EXCEPT !.above = rows[q].path], q), next)

\* createPageTranslation reads the path of its parent without a lock.
ReadSibling(w) ==
  LET t == tx[w]
      q == t.arg[1]
  IN /\ t.pc = "sibling" /\ q \in Existing \cup {NoPage}
     /\ Goes(w, [t EXCEPT !.above = PathOf(q)], "write")

\* restorePageFromTrash reads the ancestors by their paths, without a lock.
ReadAncestors(w) ==
  LET t == tx[w]
  IN /\ t.pc = "ancestors"
     /\ \A q \in Existing :
          IsStrictPrefix(rows[q].path, rows[t.page].path) => rows[q].status # "trashed"
     /\ Goes(w, t, "find")

\* What the statement for the subtree asks for.
Matching(t) ==
  CASE t.op = "pattern" -> Existing
    [] t.op = "restore" -> {q \in Below(t.page) : rows[q].trashed = rows[t.page].trashed}
    [] OTHER            -> Below(t.page)

\* The rows a statement finds are those of its start ...  What was below the page
\* from then until they are locked is there; no transaction reads this.
FindSubtree(w) ==
  LET t == tx[w]
  IN /\ t.pc = "find"
     /\ Goes(w, [t EXCEPT !.found = Matching(t), !.there = Below(t.page)], "lock")

\* ... and it locks each of them, waiting if it must, and looks at it again:
\* a row that has come to match meanwhile is not among them.
LockFound(w) ==
  LET t == tx[w]
  IN /\ t.pc = "lock" /\ Free(w, t.found)
     /\ Goes(w, [t EXCEPT !.own = @ \cup t.found, !.found = @ \cap Matching(t),
                          !.there = {q \in @ : q \in Below(t.page)}],
             "write")

\* publishPage, once the blocks are read.
ReadPattern(w) ==
  LET t == tx[w]
  IN /\ t.pc = "pattern"
     /\ Goes(w, [t EXCEPT !.read = pattern], "write")

\* setPageUrlPattern: the settings row is locked, the published pages are not.
LockSettings(w) ==
  /\ tx[w].pc = "settings"
  /\ \A v \in Writers \ {w} : tx[v].op = "pattern" => tx[v].pc = "settings"
  /\ Goes(w, tx[w], "read")

ReadPublished(w) ==
  LET t == tx[w]
      published == {q \in Existing : rows[q].status = "published"}
  IN /\ t.pc = "read"
     /\ Goes(w, [t EXCEPT !.read = [q \in published |-> rows[q]],
                          !.found = {q \in published :
                                       AddressOf(t.arg, rows[q].path) # rows[q].address}],
             "lock")

-----------------------------------------------------------------------------
\* The write, and the commit.

\* The unique indexes, the check on resolved_path and the key of the parent.
Admitted(new) ==
  LET there == {q \in Pages : new[q].status \notin {"unborn", "deleted"}}
  IN /\ \A p, q \in there :
          p # q => /\ new[p].path # new[q].path
                   /\ new[p].address = new[q].address => new[p].address = NoAddress
     /\ \A q \in there :
          /\ new[q].address # NoAddress => new[q].status = "published"
          /\ new[q].parent \in there \cup {NoPage}

WithinDepth(new) == \A q \in Pages : Len(new[q].path) <= MaxDepth

Commit(w, op, new, gone) ==
  /\ tx[w].pc = "write" /\ tx[w].op = op
  /\ WithinDepth(new) /\ Admitted(new)
  /\ rows' = new
  /\ history' = history \cup gone
  /\ tx' = [tx EXCEPT ![w] = Idle]
  /\ UNCHANGED calls

Rewritten(S, Change(_)) == [q \in Pages |-> IF q \in S THEN Change(q) ELSE rows[q]]

\* The addresses that the pages of S give up.
AddressesOf(S) == {<<q, rows[q].address>> : q \in {r \in S : rows[r].address # NoAddress}}

\* The foreign key of the parent waits for who holds its row.
CreatePage(w) ==
  LET t == tx[w]
      q == t.arg[1]
      born(p) == Row(q, Append(t.above, t.arg[2]), "draft", NoAddress, 1, 0)
  IN /\ Commit(w, "create", Rewritten({t.page}, born), {})
     /\ Shareable(w, q)
     /\ astray' = astray \cup {p \in {t.page} : t.share = {} /\ t.above # PathOf(q)}
     /\ UNCHANGED <<pattern, clock, binned, overtaken>>

\* applySubtreeRewrite: everything found below the page goes with it.
Rebased(t, prefix, q) ==
  prefix \o SubSeq(rows[q].path, Len(rows[t.page].path) + 1, Len(rows[q].path))

Carried(t, parent, prefix, q) ==
  LET path == Rebased(t, prefix, q)
      address == IF path = rows[q].path THEN rows[q].address ELSE NoAddress
  IN Row(IF q = t.page THEN parent ELSE rows[q].parent, path, rows[q].status,
         address, rows[q].version + 1, rows[q].trashed)

\* recordSubtreeUrlHistory, before the rewrite.
PathsTaken(t, prefix) == {<<q, Rebased(t, prefix, q)>> : q \in t.found}
PathsLeft(t, prefix) ==
  {<<q, rows[q].path>> : q \in {r \in t.found : Rebased(t, prefix, r) # rows[r].path}}

\* Only one of a page and its parent is carried, and not both were there.
Parted(t) ==
  {q \in Existing \ {t.page} :
     /\ (q \in t.found) # (rows[q].parent \in t.found)
     /\ ~({q, rows[q].parent} \subseteq t.there)}

CarryAlong(w, op, parent, prefix) ==
  LET t == tx[w]
      carried(q) == Carried(t, parent, prefix, q)
  IN /\ Commit(w, op, Rewritten(t.found, carried), PathsLeft(t, prefix))
     /\ astray' = (astray \ {t.page}) \cup Parted(t) \cup {p \in {t.page} : parent \in t.found}
     /\ UNCHANGED <<pattern, clock, binned, overtaken>>

RenamePage(w) == CarryAlong(w, "rename", Parent(tx[w]), Append(tx[w].above, tx[w].arg))

\* A page cannot be moved below itself.
MovePage(w) ==
  /\ tx[w].arg \notin tx[w].found
  /\ CarryAlong(w, "move", tx[w].arg, Append(tx[w].above, Slug(tx[w].page)))

\* What an earlier operation put into the trash keeps its trashed_at.
ToTrashAgain(t) == t.found
ToTrash(t) == {q \in t.found : rows[q].status # "trashed"}

TrashPage(w) ==
  LET t == tx[w]
      trashed(q) == Row(rows[q].parent, rows[q].path, "trashed", NoAddress,
                        rows[q].version + 1, clock + 1)
  IN /\ Commit(w, "trash", Rewritten(ToTrash(t), trashed), AddressesOf(ToTrash(t)))
     /\ clock' = clock + 1
     /\ binned' = [q \in Pages |-> IF q \in t.found /\ rows[q].status # "trashed"
                                     THEN clock' ELSE binned[q]]
     /\ UNCHANGED <<pattern, astray, overtaken>>

RestorePage(w) ==
  LET t == tx[w]
      restored(q) == Row(rows[q].parent, rows[q].path, "draft", rows[q].address,
                         rows[q].version + 1, 0)
  IN /\ Commit(w, "restore", Rewritten(t.found, restored), {})
     /\ UNCHANGED <<pattern, clock, binned, astray, overtaken>>

DeletePage(w) ==
  LET t == tx[w]
      deleted(q) == [Unborn EXCEPT !.status = "deleted"]
  IN /\ Commit(w, "delete", Rewritten(t.found, deleted), AddressesOf(t.found))
     /\ UNCHANGED <<pattern, clock, binned, astray, overtaken>>

\* A write to the status of one page.
SetStatus(w, op, status, address, gone) ==
  LET set(q) == Row(rows[q].parent, rows[q].path, status, address,
                    rows[q].version + 1, rows[q].trashed)
  IN /\ Commit(w, op, Rewritten({tx[w].page}, set), gone)
     /\ UNCHANGED <<pattern, clock, binned, astray>>

SchedulePage(w) ==
  /\ SetStatus(w, "schedule", "scheduled", rows[tx[w].page].address, {})
  /\ UNCHANGED overtaken
UnschedulePage(w) ==
  /\ SetStatus(w, "unschedule", "draft", rows[tx[w].page].address, {})
  /\ UNCHANGED overtaken
UnpublishPage(w) ==
  /\ SetStatus(w, "unpublish", "draft", NoAddress, AddressesOf({tx[w].page}))
  /\ UNCHANGED overtaken
\* publishPage asks for no status: a page in the trash can be published.
PublishPage(w) ==
  LET p == tx[w].page
  IN /\ SetStatus(w, "publish", "published", AddressOf(tx[w].read, rows[p].path), {})
     /\ overtaken' = IF tx[w].read = pattern THEN overtaken \ {p} ELSE overtaken \cup {p}

\* setPageUrlPattern writes what it computed from the pages it read, and leaves
\* their versions alone.
SetPageUrlPattern(w) ==
  LET t == tx[w]
      readdressed(q) == Row(rows[q].parent, rows[q].path, rows[q].status,
                            AddressOf(t.arg, t.read[q].path), rows[q].version, rows[q].trashed)
      given == {<<q, t.read[q].address>> : q \in t.found}
      asRead == {q \in DOMAIN t.read : /\ rows[q].path = t.read[q].path
                                       /\ rows[q].address = t.read[q].address}
  IN /\ Commit(w, "pattern", Rewritten(t.found, readdressed),
               {h \in given : h[2] # NoAddress})
     /\ pattern' = t.arg
     /\ overtaken' = {q \in Existing : rows[q].status = "published"} \ asRead
     /\ UNCHANGED <<clock, binned, astray>>

Fail(w) ==
  /\ tx[w].pc # "idle"
  /\ tx' = [tx EXCEPT ![w] = Idle]
  /\ UNCHANGED <<rows, pattern, history, calls, clock, binned, astray, overtaken>>

Step(w) ==
  \/ LoadPage(w) \/ ReadParent(w) \/ ReadSibling(w) \/ ReadAncestors(w) \/ FindSubtree(w)
  \/ LockFound(w) \/ ReadPattern(w) \/ LockSettings(w) \/ ReadPublished(w)
Finish(w) ==
  \/ CreatePage(w) \/ RenamePage(w) \/ MovePage(w) \/ TrashPage(w) \/ RestorePage(w)
  \/ DeletePage(w) \/ SchedulePage(w) \/ UnschedulePage(w) \/ PublishPage(w) \/ UnpublishPage(w)
  \/ SetPageUrlPattern(w)

Next == \E w \in Writers : Begin(w) \/ Step(w) \/ Finish(w) \/ Fail(w)

Spec == Init /\ [][Next]_vars

-----------------------------------------------------------------------------
\* Correctness.

\* A page's path is its parent's path and its own slug, whatever creations,
\* moves and renames of the page, its parent or anything above them overlap
\* (pages.ts: createPage, renamePage, movePage, applySubtreeRewrite).  Three kinds
\* of page go astray until they are renamed or moved themselves: those that come
\* to be below a page once its rename or move has found what is there, with the
\* children that are found below them; translations whose parent moved after its
\* path was read (translations.ts); and a page below which its own parent was
\* moved while it was astray.
PathFollowsParent ==
  \A p \in Existing \ astray : rows[p].path = Append(PathOf(rows[p].parent), Slug(p))

\* A published page that has an address has the one that the URL pattern in
\* force gives its path (publish.ts materialisePublication, page-routing.ts
\* setPageUrlPattern, pages.ts applySubtreeRewrite), unless it was published
\* with a pattern given up meanwhile, or published or carried off after a change
\* of the pattern had read the published pages.
AddressFollowsPath ==
  \A p \in Existing \ overtaken :
    rows[p].address # NoAddress => rows[p].address = AddressOf(pattern, rows[p].path)

Commits(w, op) == tx[w].op = op /\ tx[w].pc = "write" /\ tx'[w].pc = "idle" /\ rows' # rows

\* Restoring a page takes out of the trash what went into it in the same
\* operation as the page and is still below it, where it was all the time since
\* the restore looked: nothing that was trashed on its own before, nothing less
\* (lifecycle.ts trashPage and restorePageFromTrash, which know an operation by
\* its trashed_at).
RestoreUndoesOneTrash ==
  [][\A w \in Writers : Commits(w, "restore") =>
       LET p == tx[w].page
       IN {q \in Pages : rows[q].status = "trashed" /\ rows'[q].status # "trashed"} =
          {q \in Below(p) \cap tx[w].there :
             rows[q].status = "trashed" /\ binned[q] = binned[p]}]_vars

\* Nobody writes over what he has not seen: a page is as its caller saw it when
\* the caller's operation commits, however long it waited for locks, and every
\* change but that of its address alone takes it to a new version (pages.ts
\* loadPageForUpdate and the version checks after it).
NoLostUpdate ==
  [][/\ \A w \in Writers, op \in Operations \ {"create", "pattern"} :
          Commits(w, op) => rows[tx[w].page].version = tx[w].base
     /\ \A p \in Existing :
          LET old == rows[p] new == rows'[p]
          IN new # old /\ new.status # "deleted" =>
               \/ new.version > old.version
               \/ new = [old EXCEPT !.address = new.address]]_vars

\* What visitors may still ask for is in the history: the path that a rename or
\* a move takes a page away from, and the address that a page gives up where it
\* is (recordPageUrlHistory and its callers).  Publishing records nothing, so the
\* address that a change of the pattern has missed may be left without a trace.
LeftIsRecorded ==
  [][\A p \in Existing :
       LET old == rows[p] new == rows'[p]
       IN /\ new.status # "deleted" /\ new.path # old.path => <<p, old.path>> \in history'
          /\ /\ old.address \notin {NoAddress, new.address} /\ p \notin overtaken \cup overtaken'
             /\ new.status = "deleted" \/ new.path = old.path
             => <<p, old.address>> \in history']_vars

\* Paths and addresses follow the tree together.
AddressesFollowTree == TypeOK /\ PathFollowsParent /\ AddressFollowsPath
=============================================================================
