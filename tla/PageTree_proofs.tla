-------------------------- MODULE PageTree_proofs ---------------------------
(***************************************************************************)
(* For any pages, slugs and patterns and any number of transactions: no    *)
(* operation on the page tree writes over what its caller has not seen;    *)
(* paths and addresses follow the tree; what a page leaves is recorded;    *)
(* and a restore undoes one trash.                                         *)
(***************************************************************************)
(* The first inductive invariant, HeldInv, is what the row locks are for:  *)
(* a transaction past its checks owns its page, what it is about to write  *)
(* is among what it owns, and nobody owns what somebody else does.         *)
(*                                                                         *)
(* The second, TreeInv, adds what each transaction has read and may rely   *)
(* on until it writes (Knows): the path above its page, the rows it found, *)
(* the addresses of the published pages.  A commit of another transaction  *)
(* keeps it, since it touches no row that is held (KnowsKept).             *)
(***************************************************************************)
EXTENDS PageTree, SequenceTheorems, TLAPS

IsRow(r) ==
  /\ r = Row(r.parent, r.path, r.status, r.address, r.version, r.trashed)
  /\ r.version \in Nat

IsTx(t) ==
  t = [op |-> t.op, page |-> t.page, arg |-> t.arg, base |-> t.base, pc |-> t.pc,
       found |-> t.found, above |-> t.above, read |-> t.read, own |-> t.own,
       share |-> t.share, there |-> t.there]

Shapes ==
  /\ rows = [p \in Pages |-> rows[p]] /\ \A p \in Pages : IsRow(rows[p])
  /\ tx = [w \in Writers |-> tx[w]] /\ \A w \in Writers : IsTx(tx[w])

\* Only rows that are there, or were, are found and locked.
Locked ==
  \A w \in Writers : \A q \in tx[w].own \cup tx[w].found :
    q \in Pages /\ rows[q].status # "unborn"

Exclusive == \A v, w \in Writers : v # w => tx[v].own \cap tx[w].own = {}

\* Past its checks an operation owns its page, at the version its caller saw.
Checked(t) == t.op \notin {"create", "pattern"} /\ t.pc \notin {"idle", "page"}
PageHeld ==
  \A w \in Writers : Checked(tx[w]) =>
    /\ tx[w].page \in tx[w].own
    /\ rows[tx[w].page].version = tx[w].base

\* What a statement found is locked before it is written.
FoundHeld == \A w \in Writers : tx[w].pc = "write" => tx[w].found \subseteq tx[w].own

\* The row of a page that is being created is nobody's yet.
Creates(t) == t.op = "create" /\ t.pc # "idle"
NewPage ==
  \A w \in Writers : Creates(tx[w]) =>
    /\ tx[w].page \in Pages /\ rows[tx[w].page].status = "unborn"
    /\ \A v \in Writers \ {w} : Creates(tx[v]) => tx[v].page # tx[w].page

\* What a call asks for, until its statements find more.
Asked ==
  \A w \in Writers :
    /\ tx[w].pc = "page" =>
         tx[w].op \in Operations \ {"create", "pattern"} /\ tx[w].page \in Pages
    /\ tx[w].op = "move" => tx[w].arg \in Pages \cup {NoPage}
    /\ tx[w].pc \notin {"lock", "write"} => tx[w].found = {}

HeldInv ==
  Shapes /\ Locked /\ Exclusive /\ PageHeld /\ FoundHeld /\ NewPage /\ Asked

USE PageTreeAssumption

LEMMA HeldInit == Init => HeldInv
<1> SUFFICES ASSUME Init PROVE HeldInv
  OBVIOUS
<1>1. \A p \in Pages : IsRow(rows[p])
  <2> TAKE p \in Pages
  <2>1. rows[p] = Unborn \/ \E q, path : rows[p] = Row(q, path, "draft", NoAddress, 1, 0)
    BY DEF Init
  <2>2. CASE rows[p] = Unborn
    BY <2>2 DEF IsRow, Row, Unborn
  <2>3. ASSUME NEW q, NEW path, rows[p] = Row(q, path, "draft", NoAddress, 1, 0)
        PROVE  IsRow(rows[p])
    BY <2>3 DEF IsRow, Row
  <2> QED
    BY <2>1, <2>2, <2>3
<1>2. \A w \in Writers : tx[w] = Idle
  BY DEF Init
<1>3. /\ IsTx(Idle) /\ Idle.op = "create" /\ Idle.pc = "idle"
      /\ Idle.own = {} /\ Idle.found = {}
  BY DEF Idle, Tx, IsTx
<1>4. Shapes
  BY <1>1, <1>2, <1>3 DEF Init, Shapes
<1> HIDE DEF Init
<1> QED
  BY <1>2, <1>3, <1>4 DEF HeldInv, Locked, Exclusive, PageHeld, Checked, FoundHeld, NewPage, Creates, Asked

\* What a call knows of its page is all it holds.
LEMMA HeldCall ==
  ASSUME HeldInv, NEW w \in Writers, NEW op, NEW p, NEW arg, NEW base, NEW pc,
         Call(w, Tx(op, p, arg, base, pc)),
         op = "create" => /\ p \in Pages /\ rows[p].status = "unborn"
                          /\ \A v \in Writers : tx[v].page # p,
         pc = "page" \/ op \in {"create", "pattern"}, pc \notin {"lock", "write"},
         pc = "page" => op \in Operations \ {"create", "pattern"} /\ p \in Pages,
         op = "move" => arg \in Pages \cup {NoPage}
  PROVE  HeldInv'
<1> DEFINE t == Tx(op, p, arg, base, pc)
<1>2. tx' = [tx EXCEPT ![w] = t] /\ rows' = rows
  BY DEF Call
<1>3. /\ IsTx(t) /\ t.op = op /\ t.page = p /\ t.arg = arg /\ t.pc = pc /\ t.own = {} /\ t.found = {}
  BY DEF Tx, IsTx
<1> HIDE DEF t
<1>4. Shapes'
  BY <1>2, <1>3 DEF HeldInv, Shapes
<1>5. tx'[w] = t /\ \A v \in Writers \ {w} : tx'[v] = tx[v]
  BY <1>2 DEF HeldInv, Shapes
<1>6. Locked' /\ Exclusive' /\ FoundHeld'
  BY <1>2, <1>3, <1>5 DEF HeldInv, Locked, Exclusive, FoundHeld
<1>7. PageHeld' /\ NewPage' /\ Asked'
  BY <1>2, <1>3, <1>5 DEF HeldInv, PageHeld, Checked, NewPage, Creates, Asked
<1> QED
  BY <1>4, <1>6, <1>7 DEF HeldInv

LEMMA HeldBegin ==
  ASSUME HeldInv, NEW w \in Writers, Begin(w)  PROVE HeldInv'
<1>1. CASE CallCreate(w)
  BY <1>1, HeldCall DEF CallCreate
<1>2. CASE CallPattern(w)
  BY <1>2, HeldCall DEF CallPattern
<1>3. ASSUME NEW op \in Operations \ {"create", "pattern"}, NEW arg,
             op = "move" => arg \in Pages \cup {NoPage}, CallOn(w, op, arg)
      PROVE  HeldInv'
  BY <1>3, HeldCall DEF CallOn, Existing
<1> QED
  BY <1>1, <1>2, <1>3 DEF Begin, Operations, Existing

\* A statement before the write adds locks nobody else has.
LEMMA HeldGoes ==
  ASSUME HeldInv, NEW w \in Writers, NEW t, NEW pc, Goes(w, t, pc), IsTx(t),
         t.op = tx[w].op, t.page = tx[w].page, t.base = tx[w].base,
         t.own \subseteq Pages, t.found \subseteq Pages,
         \A q \in t.own \cup t.found : rows[q].status # "unborn",
         \A v \in Writers \ {w} : tx[v].own \cap t.own = {},
         tx[w].pc # "idle",
         pc \notin {"idle", "page"},
         Checked(tx[w]) \/ t.op \in {"create", "pattern"} => tx[w].own \subseteq t.own,
         t.op \notin {"create", "pattern"} =>
           t.page \in t.own /\ rows[t.page].version = t.base,
         pc = "write" => t.found \subseteq t.own,
         t.arg = tx[w].arg, pc \notin {"lock", "write"} => t.found = {}
  PROVE  HeldInv'
<1> DEFINE u == [t EXCEPT !.pc = pc]
<1>1. tx' = [tx EXCEPT ![w] = u] /\ rows' = rows
  BY DEF Goes
<1>2. /\ IsTx(u) /\ u.op = t.op /\ u.page = t.page /\ u.base = t.base /\ u.pc = pc
      /\ u.arg = t.arg /\ u.own = t.own /\ u.found = t.found
  BY DEF IsTx
<1> HIDE DEF u
<1>3. tx'[w] = u /\ \A v \in Writers \ {w} : tx'[v] = tx[v]
  BY <1>1 DEF HeldInv, Shapes
<1>4. Shapes'
  BY <1>1, <1>2 DEF HeldInv, Shapes
<1>5. Locked' /\ Exclusive' /\ FoundHeld'
  BY <1>1, <1>2, <1>3 DEF HeldInv, Locked, Exclusive, FoundHeld
<1>6. PageHeld' /\ NewPage' /\ Asked'
  BY <1>1, <1>2, <1>3 DEF HeldInv, PageHeld, Checked, NewPage, Creates, Asked
<1> QED
  BY <1>4, <1>5, <1>6 DEF HeldInv

\* What matches is there.
LEMMA MatchingExists ==
  ASSUME HeldInv, NEW t  PROVE Matching(t) \subseteq Existing
  BY DEF Matching, Below

\* A transaction that learns something stays the transaction it is.
Learns(t, u) ==
  IsTx(u) /\ u.op = t.op /\ u.page = t.page /\ u.base = t.base /\ u.arg = t.arg /\ u.pc = t.pc

LEMMA OwnChanged ==
  ASSUME NEW t, IsTx(t), NEW S
  PROVE  LET u == [t EXCEPT !.own = S]
         IN Learns(t, u) /\ u.own = S /\ u.found = t.found
  BY DEF IsTx, Learns

LEMMA FoundChanged ==
  ASSUME NEW t, IsTx(t), NEW S
  PROVE  LET u == [t EXCEPT !.found = S]
         IN Learns(t, u) /\ u.found = S /\ u.own = t.own
  BY DEF IsTx, Learns

LEMMA OthersChanged ==
  ASSUME NEW t, IsTx(t), NEW S
  PROVE  /\ LET u == [t EXCEPT !.above = S]
            IN Learns(t, u) /\ u.own = t.own /\ u.found = t.found
         /\ LET u == [t EXCEPT !.share = S]
            IN Learns(t, u) /\ u.own = t.own /\ u.found = t.found
         /\ LET u == [t EXCEPT !.read = S]
            IN Learns(t, u) /\ u.own = t.own /\ u.found = t.found
  BY DEF IsTx, Learns

LEMMA ThereChanged ==
  ASSUME NEW t, IsTx(t), NEW S
  PROVE  LET u == [t EXCEPT !.there = S]
         IN Learns(t, u) /\ u.own = t.own /\ u.found = t.found
  BY DEF IsTx, Learns

LEMMA LearnsMore ==
  ASSUME NEW t, NEW u, NEW v, Learns(t, u), Learns(u, v)  PROVE Learns(t, v)
  BY DEF Learns

LEMMA HeldStep ==
  ASSUME HeldInv, NEW w \in Writers, Step(w)  PROVE HeldInv'
<1> DEFINE t == tx[w]
<1>1. IsTx(t) /\ \A q \in t.own \cup t.found : q \in Pages /\ rows[q].status # "unborn"
  BY DEF HeldInv, Shapes, Locked
<1>2. \A v \in Writers \ {w} : tx[v].own \cap t.own = {}
  BY DEF HeldInv, Exclusive
<1>3. Checked(t) => t.page \in t.own /\ rows[t.page].version = t.base
  BY DEF HeldInv, PageHeld
<1>4. \A p \in Existing : p \in Pages /\ rows[p].status # "unborn"
  BY DEF Existing, Exists
<1>5. /\ t.pc = "page" =>
            t.op \in Operations \ {"create", "pattern"} /\ t.page \in Pages /\ t.own \subseteq t.own
      /\ t.op = "move" => t.arg \in Pages \cup {NoPage}
      /\ t.pc \notin {"lock", "write"} => t.found = {}
  BY DEF HeldInv, Asked
<1> HIDE DEF t
<1>6. CASE LoadPage(w)
  <2> DEFINE u == [t EXCEPT !.own = {t.page}]
  <2>1. /\ t.pc = "page" /\ Free(w, {t.page}) /\ Exists(t.page)
        /\ rows[t.page].version = t.base /\ Goes(w, u, AfterPage(t.op))
    BY <1>6 DEF LoadPage, Current, t
  <2>2. Learns(t, u) /\ u.own = {t.page} /\ u.found = {}
    BY <1>1, <1>5, <2>1, OwnChanged
  <2>3. AfterPage(t.op) \notin {"idle", "page"}
    BY <1>5, <2>1 DEF AfterPage, Operations
  <2>4. \A v \in Writers \ {w} : tx[v].own \cap {t.page} = {}
    BY <2>1 DEF Free
  <2>5. t.page \in Pages /\ rows[t.page].status # "unborn"
    BY <1>5, <2>1 DEF Exists
  <2> HIDE DEF u
  <2> QED
    BY <1>5, <2>1, <2>2, <2>3, <2>4, <2>5, HeldGoes DEF Checked, Learns, t
<1>7. CASE ReadParent(w)
  <2> DEFINE next == IF t.op = "create" THEN "write" ELSE "find"
             q == Parent(t)
             read == [t EXCEPT !.above = rows[q].path]
             u == ParentLocked(read, q)
  <2>1. /\ t.pc = "parent"
        /\ \/ Goes(w, t, next)
           \/ /\ q # NoPage /\ Exists(q) /\ Goes(w, u, next)
              /\ t.op = "move" => Free(w, {q})
    BY <1>7 DEF ReadParent, t
  <2>2. CASE Goes(w, t, next)
    BY <1>1, <1>2, <1>3, <1>5, <2>1, <2>2, HeldGoes DEF Checked, t
  <2>3. Learns(t, read) /\ read.own = t.own /\ read.found = {}
    BY <1>1, <1>5, <2>1, OthersChanged
  <2>4. CASE Goes(w, u, next) /\ t.op = "move" /\ q # NoPage /\ Exists(q) /\ Free(w, {q})
    <3>1. u = [read EXCEPT !.own = t.own \cup {q}]
      BY <2>3, <2>4 DEF ParentLocked, Learns
    <3>2. Learns(t, u) /\ u.own = t.own \cup {q} /\ u.found = {}
      <4> HIDE DEF u, q, read
      <4>1. IsTx(read)
        BY <2>3 DEF Learns
      <4>2. Learns(read, u) /\ u.own = t.own \cup {q} /\ u.found = read.found
        BY <3>1, <4>1, OwnChanged
      <4> QED
        BY <2>3, <4>2, LearnsMore
    <3>3. q \in Pages /\ rows[q].status # "unborn"
      BY <1>5, <2>4 DEF Exists, Parent
    <3>4. \A v \in Writers \ {w} : tx[v].own \cap (t.own \cup {q}) = {}
      BY <1>2, <2>4 DEF Free
    <3> HIDE DEF u, q, read
    <3> QED
      BY <1>1, <1>3, <1>5, <2>1, <2>4, <3>2, <3>3, <3>4, HeldGoes DEF Checked, Learns, t
  <2>5. CASE Goes(w, u, next) /\ t.op # "move"
    <3>1. u = [read EXCEPT !.share = {q}]
      BY <2>3, <2>5 DEF ParentLocked, Learns
    <3>2. Learns(t, u) /\ u.own = t.own /\ u.found = {}
      <4> HIDE DEF u, q, read
      <4>1. IsTx(read)
        BY <2>3 DEF Learns
      <4>2. Learns(read, u) /\ u.own = read.own /\ u.found = read.found
        BY <3>1, <4>1, OthersChanged
      <4> QED
        BY <2>3, <4>2, LearnsMore
    <3> HIDE DEF u, q, read
    <3> QED
      BY <1>1, <1>2, <1>3, <1>5, <2>1, <2>5, <3>2, HeldGoes DEF Checked, Learns, t
  <2> QED
    BY <2>1, <2>2, <2>4, <2>5
<1>8. CASE ReadAncestors(w) \/ LockSettings(w)
  BY <1>1, <1>2, <1>3, <1>5, <1>8, HeldGoes DEF ReadAncestors, LockSettings, Checked, t
<1>9. CASE ReadPattern(w)
  <2> DEFINE u == [t EXCEPT !.read = pattern]
  <2>1. t.pc = "pattern" /\ Goes(w, u, "write")
    BY <1>9 DEF ReadPattern, t
  <2>2. Learns(t, u) /\ u.own = t.own /\ u.found = {}
    BY <1>1, <1>5, <2>1, OthersChanged
  <2> HIDE DEF u
  <2> QED
    BY <1>1, <1>2, <1>3, <1>5, <2>1, <2>2, HeldGoes DEF Checked, Learns, t
<1>10. CASE FindSubtree(w)
  <2> DEFINE found == [t EXCEPT !.found = Matching(t)]
             u == [found EXCEPT !.there = Below(t.page)]
  <2>1. t.pc = "find" /\ Goes(w, u, "lock")
    BY <1>10 DEF FindSubtree, t
  <2>2. Learns(t, found) /\ found.own = t.own /\ found.found \subseteq Existing
    BY <1>1, FoundChanged, MatchingExists
  <2> HIDE DEF found
  <2>3. Learns(found, u) /\ u.own = t.own /\ u.found \subseteq Existing
    BY <2>2, ThereChanged DEF Learns
  <2> HIDE DEF u
  <2>4. Learns(t, u)
    BY <2>2, <2>3, LearnsMore
  <2> QED
    BY <1>1, <1>2, <1>3, <1>4, <2>1, <2>3, <2>4, HeldGoes DEF Checked, Learns, t
<1>11. CASE ReadPublished(w)
  <2>1. PICK S, r :
          S \in SUBSET Existing /\ t.pc = "read" /\ Goes(w, [[t EXCEPT !.read = r] EXCEPT !.found = S], "lock")
    BY <1>11 DEF ReadPublished, t
  <2> DEFINE read == [t EXCEPT !.read = r]
             u == [read EXCEPT !.found = S]
  <2>2. Goes(w, u, "lock")
    BY <2>1
  <2>3. Learns(t, read) /\ read.own = t.own
    BY <1>1, OthersChanged
  <2> HIDE DEF read
  <2>4. Learns(read, u) /\ u.own = t.own /\ u.found = S
    BY <2>3, FoundChanged DEF Learns
  <2> HIDE DEF u
  <2>5. Learns(t, u)
    BY <2>3, <2>4, LearnsMore
  <2> QED
    BY <1>1, <1>2, <1>3, <1>4, <2>1, <2>2, <2>4, <2>5, HeldGoes DEF Checked, Learns, t
<1>12. CASE LockFound(w)
  <2>1. PICK S, B :
          /\ S \in SUBSET t.found /\ t.pc = "lock" /\ Free(w, t.found)
          /\ Goes(w, [[[t EXCEPT !.own = t.own \cup t.found] EXCEPT !.found = S] EXCEPT !.there = B],
                  "write")
    BY <1>12 DEF LockFound, t
  <2> DEFINE locked == [t EXCEPT !.own = t.own \cup t.found]
             seen == [locked EXCEPT !.found = S]
             u == [seen EXCEPT !.there = B]
  <2>2. Goes(w, u, "write")
    BY <2>1
  <2>3. Learns(t, locked) /\ locked.own = t.own \cup t.found
    BY <1>1, OwnChanged
  <2> HIDE DEF locked
  <2>4. Learns(locked, seen) /\ seen.own = t.own \cup t.found /\ seen.found = S
    BY <2>3, FoundChanged DEF Learns
  <2> HIDE DEF seen
  <2>7. Learns(seen, u) /\ u.own = t.own \cup t.found /\ u.found = S
    BY <2>4, ThereChanged DEF Learns
  <2> HIDE DEF u
  <2>5. Learns(t, u)
    BY <2>3, <2>4, <2>7, LearnsMore
  <2>6. \A v \in Writers \ {w} : tx[v].own \cap (t.own \cup t.found) = {}
    BY <1>2, <2>1 DEF Free
  <2> QED
    BY <1>1, <1>3, <2>1, <2>2, <2>5, <2>6, <2>7, HeldGoes DEF Checked, Learns, t
<1>13. CASE ReadSibling(w)
  <2> DEFINE u == [t EXCEPT !.above = PathOf(t.arg[1])]
  <2>1. t.pc = "sibling" /\ Goes(w, u, "write")
    BY <1>13 DEF ReadSibling, t
  <2>2. Learns(t, u) /\ u.own = t.own /\ u.found = {}
    BY <1>1, <1>5, <2>1, OthersChanged
  <2> HIDE DEF u
  <2> QED
    BY <1>1, <1>2, <1>3, <1>5, <2>1, <2>2, HeldGoes DEF Checked, Learns, t
<1> QED
  BY <1>6, <1>7, <1>8, <1>9, <1>10, <1>11, <1>12, <1>13 DEF Step

\* The rows of S are written, by the one transaction that may.
Writes(w, S) ==
  /\ IF tx[w].op = "create" THEN S \subseteq {tx[w].page} ELSE S \subseteq tx[w].own
  /\ rows' = [q \in Pages |-> rows'[q]] /\ \A q \in Pages \ S : rows'[q] = rows[q]
  /\ \A q \in S \cap Pages : IsRow(rows'[q]) /\ rows'[q].status # "unborn"

\* A commit ends its transaction and reaches no row of another's.
LEMMA HeldEnd ==
  ASSUME HeldInv, NEW w \in Writers, NEW S, tx[w].pc # "idle", Writes(w, S),
         tx' = [tx EXCEPT ![w] = Idle]
  PROVE  HeldInv'
<1>1. /\ IsTx(Idle) /\ Idle.op = "create" /\ Idle.pc = "idle"
      /\ Idle.own = {} /\ Idle.found = {}
  BY DEF Idle, Tx, IsTx
<1>2. tx'[w] = Idle /\ \A v \in Writers \ {w} : tx'[v] = tx[v]
  BY DEF HeldInv, Shapes
<1>3. \A q \in Pages : rows'[q] = IF q \in S THEN rows'[q] ELSE rows[q]
  BY DEF Writes
<1>4. \A q \in Pages : rows[q].status # "unborn" => rows'[q].status # "unborn"
  BY <1>3 DEF Writes
<1>5. Shapes'
  BY <1>1, <1>3 DEF HeldInv, Shapes, Writes
<1>6. Locked' /\ Exclusive' /\ FoundHeld' /\ Asked'
  BY <1>1, <1>2, <1>4 DEF HeldInv, Locked, Exclusive, FoundHeld, Asked
<1>7. ASSUME NEW v \in Writers \ {w}, NEW q \in tx[v].own  PROVE rows'[q] = rows[q]
  <2>1. q \in Pages /\ rows[q].status # "unborn" /\ q \notin tx[w].own
    BY DEF HeldInv, Locked, Exclusive
  <2>2. q \notin S
    BY <2>1 DEF Writes, HeldInv, NewPage, Creates
  <2> QED
    BY <1>3, <2>1, <2>2
<1>8. PageHeld'
  BY <1>1, <1>2, <1>7 DEF HeldInv, PageHeld, Checked
<1>9. NewPage'
  <2> SUFFICES ASSUME NEW v \in Writers, Creates(tx'[v])
               PROVE  /\ tx'[v].page \in Pages /\ rows'[tx'[v].page].status = "unborn"
                      /\ \A x \in Writers \ {v} : Creates(tx'[x]) => tx'[x].page # tx'[v].page
    BY DEF NewPage, Creates
  <2>1. v # w /\ Creates(tx[v]) /\ tx'[v] = tx[v]
    BY <1>1, <1>2 DEF Creates
  <2>2. tx[v].page \in Pages /\ rows[tx[v].page].status = "unborn"
    BY <2>1 DEF HeldInv, NewPage
  <2>3. tx[v].page \notin S
    BY <2>1, <2>2 DEF Writes, HeldInv, NewPage, Creates, Locked
  <2>4. \A x \in Writers \ {v} : Creates(tx'[x]) => x # w /\ Creates(tx[x]) /\ tx'[x] = tx[x]
    BY <1>1, <1>2 DEF Creates
  <2> QED
    BY <1>3, <2>1, <2>2, <2>3, <2>4 DEF HeldInv, NewPage
<1> QED
  BY <1>5, <1>6, <1>8, <1>9 DEF HeldInv

\* What a commit may make of a row that is there.
Grows(old, new) ==
  \/ new.status = "deleted"
  \/ new.version > old.version
  \/ new = [old EXCEPT !.address = new.address]

LEMMA RowShape ==
  ASSUME NEW a, NEW b, NEW c, NEW d, NEW v \in Nat, NEW e
  PROVE  LET r == Row(a, b, c, d, v, e)
         IN /\ IsRow(r) /\ r.parent = a /\ r.path = b /\ r.status = c /\ r.address = d
            /\ r.version = v /\ r.trashed = e
  BY DEF IsRow, Row

\* A write at a page's next version, one of its address alone, and a deletion.
LEMMA NextVersion ==
  ASSUME NEW old, old.version \in Nat, NEW a, NEW b, NEW c, c # "unborn", NEW d, NEW e
  PROVE  LET r == Row(a, b, c, d, old.version + 1, e)
         IN IsRow(r) /\ r.status # "unborn" /\ Grows(old, r)
  BY RowShape DEF Grows

LEMMA AddressAlone ==
  ASSUME NEW old, IsRow(old), old.status # "unborn", NEW d
  PROVE  LET r == Row(old.parent, old.path, old.status, d, old.version, old.trashed)
         IN IsRow(r) /\ r.status # "unborn" /\ Grows(old, r)
<1> DEFINE r == Row(old.parent, old.path, old.status, d, old.version, old.trashed)
<1>1. IsRow(r) /\ r.status = old.status /\ r.address = d
  BY RowShape DEF IsRow
<1>2. r = [old EXCEPT !.address = d]
  BY DEF IsRow, Row
<1> QED
  BY <1>1, <1>2 DEF Grows

LEMMA Deleted ==
  ASSUME NEW old
  PROVE  LET r == [Unborn EXCEPT !.status = "deleted"]
         IN IsRow(r) /\ r.status # "unborn" /\ Grows(old, r)
  BY DEF Unborn, IsRow, Row, Grows

\* Every operation writes only what its transaction holds, and every row it
\* writes grows.
LEMMA FinishWrites ==
  ASSUME HeldInv, NEW w \in Writers, Finish(w)
  PROVE  /\ tx[w].pc = "write" /\ tx' = [tx EXCEPT ![w] = Idle]
         /\ \E S \in SUBSET Pages :
              /\ Writes(w, S)
              /\ tx[w].op # "create" => \A q \in S : Grows(rows[q], rows'[q])
<1> DEFINE t == tx[w]
<1>1. \A q \in Pages : IsRow(rows[q])
  BY DEF HeldInv, Shapes
<1>2. ASSUME NEW op, NEW new, NEW gone, Commit(w, op, new, gone)
      PROVE  t.op = op /\ t.pc = "write" /\ rows' = new /\ tx' = [tx EXCEPT ![w] = Idle]
  BY <1>2 DEF Commit
<1>3. t.pc = "write" => /\ t.found \subseteq t.own /\ t.found \subseteq Pages
                        /\ \A q \in t.found : rows[q].status # "unborn"
  BY DEF HeldInv, FoundHeld, Locked
<1>4. t.pc = "write" /\ t.op \notin {"create", "pattern"} =>
        /\ t.page \in t.own /\ t.page \in Pages /\ rows[t.page].status # "unborn"
  BY DEF HeldInv, PageHeld, Checked, Locked
<1>5. t.pc = "write" /\ t.op = "create" => t.page \in Pages
  BY DEF HeldInv, NewPage, Creates
<1>6. CASE CreatePage(w)
  <2> DEFINE S == {t.page}
             row(q) == Row(t.arg[1], Append(t.above, t.arg[2]), "draft", NoAddress, 1, 0)
  <2>1. t.pc = "write" /\ t.op = "create" /\ tx' = [tx EXCEPT ![w] = Idle]
    BY <1>2, <1>6 DEF CreatePage
  <2>2. rows' = [q \in Pages |-> IF q \in S THEN row(q) ELSE rows[q]]
    BY <1>2, <1>6 DEF CreatePage, Rewritten
  <2>3. \A q \in S : IsRow(row(q)) /\ row(q).status # "unborn"
    BY RowShape
  <2>4. S \subseteq Pages
    BY <1>5, <2>1
  <2> HIDE DEF row
  <2>5. Writes(w, S)
    BY <2>1, <2>2, <2>3, <2>4 DEF Writes
  <2> QED
    BY <2>1, <2>4, <2>5
<1>7. CASE RenamePage(w) \/ MovePage(w)
  <2>1. PICK op, parent, prefix : op \in {"rename", "move"} /\ CarryAlong(w, op, parent, prefix)
    BY <1>7 DEF RenamePage, MovePage
  <2> DEFINE S == t.found
             row(q) == Carried(t, parent, prefix, q)
  <2>2. t.pc = "write" /\ t.op = op /\ tx' = [tx EXCEPT ![w] = Idle]
    BY <1>2, <2>1 DEF CarryAlong
  <2>3. rows' = [q \in Pages |-> IF q \in S THEN row(q) ELSE rows[q]]
    BY <1>2, <2>1 DEF CarryAlong, Rewritten
  <2>4. S \subseteq Pages /\ S \subseteq t.own /\ \A q \in S : rows[q].status # "unborn"
    BY <1>3, <2>2
  <2>5. ASSUME NEW q \in S
        PROVE  IsRow(row(q)) /\ row(q).status # "unborn" /\ Grows(rows[q], row(q))
    <3>1. PICK a, b, d : row(q) = Row(a, b, rows[q].status, d, rows[q].version + 1, rows[q].trashed)
      BY DEF Carried
    <3> HIDE DEF row
    <3>2. rows[q].version \in Nat
      BY <1>1, <2>4 DEF IsRow
    <3> QED
      BY <2>4, <3>1, <3>2, NextVersion
  <2> HIDE DEF S, row
  <2>6. \A q \in S : rows'[q] = row(q)
    BY <2>3, <2>4
  <2>7. Writes(w, S)
    <3>1. rows' = [q \in Pages |-> rows'[q]] /\ \A q \in Pages \ S : rows'[q] = rows[q]
      BY <2>3
    <3>2. ASSUME NEW q \in S  PROVE IsRow(rows'[q]) /\ rows'[q].status # "unborn"
      BY <2>5, <2>6, Zenon
    <3> QED
      BY <2>1, <2>2, <2>4, <3>1, <3>2 DEF Writes
  <2>8. ASSUME NEW q \in S  PROVE Grows(rows[q], rows'[q])
    BY <2>5, <2>6, Zenon
  <2> QED
    BY <2>2, <2>4, <2>7, <2>8
<1>8. CASE TrashPage(w)
  <2> DEFINE S == ToTrash(t)
             row(q) == Row(rows[q].parent, rows[q].path, "trashed", NoAddress, rows[q].version + 1, clock + 1)
  <2>1. t.pc = "write" /\ t.op = "trash" /\ tx' = [tx EXCEPT ![w] = Idle]
    BY <1>2, <1>8 DEF TrashPage
  <2>2. rows' = [q \in Pages |-> IF q \in S THEN row(q) ELSE rows[q]]
    BY <1>2, <1>8 DEF TrashPage, Rewritten
  <2>3. S \subseteq Pages /\ S \subseteq t.own /\ \A q \in S : rows[q].status # "unborn"
    BY <1>3, <1>4, <2>1 DEF ToTrash
  <2>4. \A q \in S : IsRow(row(q)) /\ row(q).status # "unborn" /\ Grows(rows[q], row(q))
    BY <1>1, <2>3, NextVersion DEF IsRow
  <2> HIDE DEF S, row
  <2>5. \A q \in S : rows'[q] = row(q)
    BY <2>2, <2>3
  <2>6. Writes(w, S)
    <3>1. rows' = [q \in Pages |-> rows'[q]] /\ \A q \in Pages \ S : rows'[q] = rows[q]
      BY <2>2
    <3>2. ASSUME NEW q \in S  PROVE IsRow(rows'[q]) /\ rows'[q].status # "unborn"
      BY <2>4, <2>5, Zenon
    <3> QED
      BY <2>1, <2>3, <3>1, <3>2 DEF Writes
  <2>7. ASSUME NEW q \in S  PROVE Grows(rows[q], rows'[q])
    BY <2>4, <2>5, Zenon
  <2> QED
    BY <2>1, <2>3, <2>6, <2>7
<1>9. CASE RestorePage(w)
  <2> DEFINE S == t.found
             row(q) == Row(rows[q].parent, rows[q].path, "draft", rows[q].address, rows[q].version + 1, 0)
  <2>1. t.pc = "write" /\ t.op = "restore" /\ tx' = [tx EXCEPT ![w] = Idle]
    BY <1>2, <1>9 DEF RestorePage
  <2>2. rows' = [q \in Pages |-> IF q \in S THEN row(q) ELSE rows[q]]
    BY <1>2, <1>9 DEF RestorePage, Rewritten
  <2>3. S \subseteq Pages /\ S \subseteq t.own /\ \A q \in S : rows[q].status # "unborn"
    BY <1>3, <1>4, <2>1
  <2>4. \A q \in S : IsRow(row(q)) /\ row(q).status # "unborn" /\ Grows(rows[q], row(q))
    BY <1>1, <2>3, NextVersion DEF IsRow
  <2> HIDE DEF S, row
  <2>5. \A q \in S : rows'[q] = row(q)
    BY <2>2, <2>3
  <2>6. Writes(w, S)
    <3>1. rows' = [q \in Pages |-> rows'[q]] /\ \A q \in Pages \ S : rows'[q] = rows[q]
      BY <2>2
    <3>2. ASSUME NEW q \in S  PROVE IsRow(rows'[q]) /\ rows'[q].status # "unborn"
      BY <2>4, <2>5, Zenon
    <3> QED
      BY <2>1, <2>3, <3>1, <3>2 DEF Writes
  <2>7. ASSUME NEW q \in S  PROVE Grows(rows[q], rows'[q])
    BY <2>4, <2>5, Zenon
  <2> QED
    BY <2>1, <2>3, <2>6, <2>7
<1>10. CASE DeletePage(w)
  <2> DEFINE S == t.found
             row(q) == [Unborn EXCEPT !.status = "deleted"]
  <2>1. t.pc = "write" /\ t.op = "delete" /\ tx' = [tx EXCEPT ![w] = Idle]
    BY <1>2, <1>10 DEF DeletePage
  <2>2. rows' = [q \in Pages |-> IF q \in S THEN row(q) ELSE rows[q]]
    BY <1>2, <1>10 DEF DeletePage, Rewritten
  <2>3. S \subseteq Pages /\ S \subseteq t.own /\ \A q \in S : rows[q].status # "unborn"
    BY <1>3, <1>4, <2>1
  <2>4. \A q \in S : IsRow(row(q)) /\ row(q).status # "unborn" /\ Grows(rows[q], row(q))
    BY <1>1, <2>3, Deleted
  <2> HIDE DEF S, row
  <2>5. \A q \in S : rows'[q] = row(q)
    BY <2>2, <2>3
  <2>6. Writes(w, S)
    <3>1. rows' = [q \in Pages |-> rows'[q]] /\ \A q \in Pages \ S : rows'[q] = rows[q]
      BY <2>2
    <3>2. ASSUME NEW q \in S  PROVE IsRow(rows'[q]) /\ rows'[q].status # "unborn"
      BY <2>4, <2>5, Zenon
    <3> QED
      BY <2>1, <2>3, <3>1, <3>2 DEF Writes
  <2>7. ASSUME NEW q \in S  PROVE Grows(rows[q], rows'[q])
    BY <2>4, <2>5, Zenon
  <2> QED
    BY <2>1, <2>3, <2>6, <2>7
<1>11. CASE SchedulePage(w) \/ UnschedulePage(w) \/ PublishPage(w) \/ UnpublishPage(w)
  <2>0. PICK op, status, address, gone :
          /\ op \notin {"create", "pattern"} /\ status # "unborn"
          /\ SetStatus(w, op, status, address, gone)
    BY <1>11 DEF SchedulePage, UnschedulePage, PublishPage, UnpublishPage
  <2> DEFINE S == {t.page}
             row(q) == Row(rows[q].parent, rows[q].path, status, address,
                           rows[q].version + 1, rows[q].trashed)
  <2>1. t.pc = "write" /\ t.op = op /\ tx' = [tx EXCEPT ![w] = Idle]
    BY <1>2, <2>0 DEF SetStatus
  <2>2. rows' = [q \in Pages |-> IF q \in S THEN row(q) ELSE rows[q]]
    BY <1>2, <2>0 DEF SetStatus, Rewritten
  <2>3. S \subseteq Pages /\ S \subseteq t.own /\ \A q \in S : rows[q].status # "unborn"
    BY <1>3, <1>4, <2>0, <2>1
  <2>4. \A q \in S : IsRow(row(q)) /\ row(q).status # "unborn" /\ Grows(rows[q], row(q))
    BY <1>1, <2>0, <2>3, NextVersion DEF IsRow
  <2> HIDE DEF S, row
  <2>5. \A q \in S : rows'[q] = row(q)
    BY <2>2, <2>3
  <2>6. Writes(w, S)
    <3>1. rows' = [q \in Pages |-> rows'[q]] /\ \A q \in Pages \ S : rows'[q] = rows[q]
      BY <2>2
    <3>2. ASSUME NEW q \in S  PROVE IsRow(rows'[q]) /\ rows'[q].status # "unborn"
      BY <2>4, <2>5, Zenon
    <3> QED
      BY <2>0, <2>1, <2>3, <3>1, <3>2 DEF Writes
  <2>7. ASSUME NEW q \in S  PROVE Grows(rows[q], rows'[q])
    BY <2>4, <2>5, Zenon
  <2> QED
    BY <2>1, <2>3, <2>6, <2>7
<1>12. CASE SetPageUrlPattern(w)
  <2> DEFINE S == t.found
             row(q) == Row(rows[q].parent, rows[q].path, rows[q].status,
                           AddressOf(t.arg, t.read[q].path), rows[q].version, rows[q].trashed)
  <2>1. t.pc = "write" /\ t.op = "pattern" /\ tx' = [tx EXCEPT ![w] = Idle]
    BY <1>2, <1>12 DEF SetPageUrlPattern
  <2>2. rows' = [q \in Pages |-> IF q \in S THEN row(q) ELSE rows[q]]
    BY <1>2, <1>12 DEF SetPageUrlPattern, Rewritten
  <2>3. S \subseteq Pages /\ S \subseteq t.own /\ \A q \in S : rows[q].status # "unborn"
    BY <1>3, <1>4, <2>1
  <2>4. \A q \in S : IsRow(row(q)) /\ row(q).status # "unborn" /\ Grows(rows[q], row(q))
    BY <1>1, <2>3, AddressAlone
  <2> HIDE DEF S, row
  <2>5. \A q \in S : rows'[q] = row(q)
    BY <2>2, <2>3
  <2>6. Writes(w, S)
    <3>1. rows' = [q \in Pages |-> rows'[q]] /\ \A q \in Pages \ S : rows'[q] = rows[q]
      BY <2>2
    <3>2. ASSUME NEW q \in S  PROVE IsRow(rows'[q]) /\ rows'[q].status # "unborn"
      BY <2>4, <2>5, Zenon
    <3> QED
      BY <2>1, <2>3, <3>1, <3>2 DEF Writes
  <2>7. ASSUME NEW q \in S  PROVE Grows(rows[q], rows'[q])
    BY <2>4, <2>5, Zenon
  <2> QED
    BY <2>1, <2>3, <2>6, <2>7
<1> QED
  BY <1>6, <1>7, <1>8, <1>9, <1>10, <1>11, <1>12 DEF Finish

LEMMA HeldNext == HeldInv /\ [Next]_vars => HeldInv'
<1> SUFFICES ASSUME HeldInv, [Next]_vars  PROVE HeldInv'
  OBVIOUS
<1>1. ASSUME NEW w \in Writers, Finish(w)  PROVE HeldInv'
  <2>1. PICK S \in SUBSET Pages : Writes(w, S)
    BY <1>1, FinishWrites
  <2> QED
    BY <1>1, <2>1, FinishWrites, HeldEnd
<1>2. ASSUME NEW w \in Writers, Fail(w)  PROVE HeldInv'
  <2>1. tx[w].pc # "idle" /\ tx' = [tx EXCEPT ![w] = Idle] /\ rows' = rows
    BY <1>2 DEF Fail
  <2>2. Writes(w, {})
    BY <2>1 DEF Writes, HeldInv, Shapes
  <2> QED
    BY <2>1, <2>2, HeldEnd
<1>3. CASE UNCHANGED vars
  BY <1>3 DEF vars, HeldInv, Shapes, Locked, Exclusive, PageHeld, FoundHeld, NewPage, Asked,
              Checked, Creates, IsRow, IsTx
<1> QED
  BY <1>1, <1>2, <1>3, HeldBegin, HeldStep DEF Next

\* What is written is as its caller saw it, and grows, in every step.
LEMMA StepGrows ==
  ASSUME HeldInv, [Next]_vars, NEW p \in Existing, rows'[p] # rows[p]
  PROVE  Grows(rows[p], rows'[p])
<1>1. PICK w \in Writers : Finish(w)
  BY DEF Next, Begin, CallCreate, CallOn, CallPattern, Call, Step, LoadPage, ReadParent,
         ReadSibling, ReadAncestors, FindSubtree, LockFound, ReadPattern, LockSettings, ReadPublished,
         Goes, Fail, vars
<1>2. PICK S \in SUBSET Pages :
        /\ Writes(w, S)
        /\ tx[w].op # "create" => \A q \in S : Grows(rows[q], rows'[q])
  BY <1>1, FinishWrites
<1>3. p \in Pages /\ rows[p].status # "unborn" /\ p \in S
  BY <1>2 DEF Existing, Exists, Writes
<1>4. tx[w].op # "create"
  <2> SUFFICES ASSUME tx[w].op = "create"  PROVE FALSE
    OBVIOUS
  <2>1. tx[w].pc = "write"
    BY <1>1, FinishWrites
  <2>2. rows[tx[w].page].status = "unborn"
    BY <2>1 DEF HeldInv, NewPage, Creates
  <2> QED
    BY <1>1, <1>2, <1>3, <2>2 DEF Writes
<1> QED
  BY <1>2, <1>3, <1>4

\* NoLostUpdate holds for any tree, any number of transactions and any order of
\* their statements (pages.ts loadPageForUpdate and the checks after it): the
\* row lock taken with the version check is kept to the commit.
THEOREM UpdatesNotLost == Spec => NoLostUpdate
<1> DEFINE Compared == \A w \in Writers, op \in Operations \ {"create", "pattern"} :
                         Commits(w, op) => rows[tx[w].page].version = tx[w].base
           Grown == \A p \in Existing :
                      LET old == rows[p] new == rows'[p]
                      IN new # old /\ new.status # "deleted" =>
                           \/ new.version > old.version
                           \/ new = [old EXCEPT !.address = new.address]
<1>1. HeldInv => Compared
  BY DEF Commits, HeldInv, PageHeld, Checked
<1>2. HeldInv /\ [Next]_vars => Grown
  BY StepGrows, Zenon DEF Grows
<1>3. Init => HeldInv
  BY HeldInit
<1>4. HeldInv /\ [Next]_vars => HeldInv'
  BY HeldNext
<1>5. HeldInv /\ [Next]_vars => [Compared /\ Grown]_vars
  <2> HIDE DEF Compared, Grown
  <2> QED
    BY <1>1, <1>2
<1> QED
  BY <1>3, <1>4, <1>5, PTL DEF Spec, NoLostUpdate
-----------------------------------------------------------------------------
(***************************************************************************)
(* The tree: paths and addresses follow it, what is left is recorded, and  *)
(* a restore undoes one trash.                                             *)
(***************************************************************************)

\* Paths are sequences of slugs, and what a write does to them keeps them so.
LEMMA PathIsSeq ==
  \A x : x \in Paths <=> x \in Seq(Slugs) /\ Len(x) \in 1..MaxDepth
<1>1. ASSUME NEW x \in Paths  PROVE x \in Seq(Slugs) /\ Len(x) \in 1..MaxDepth
  <2>1. PICK n \in 1..MaxDepth : x \in [1..n -> Slugs]
    BY DEF Paths
  <2>2. x \in Seq(Slugs)
    BY <2>1, SeqDef
  <2>3. Len(x) = n
    BY <2>1, <2>2, LenProperties
  <2> QED
    BY <2>2, <2>3
<1>2. ASSUME NEW x \in Seq(Slugs), Len(x) \in 1..MaxDepth  PROVE x \in Paths
  BY <1>2, LenProperties DEF Paths
<1> QED
  BY <1>1, <1>2

LEMMA AppendLast ==
  ASSUME NEW x \in Seq(Slugs), NEW s \in Slugs
  PROVE  /\ Append(x, s) \in Seq(Slugs) /\ Len(Append(x, s)) = Len(x) + 1 /\ Len(x) \in Nat
         /\ Last(Append(x, s)) = s
  BY AppendProperties, LenProperties DEF Last

\* The suffix of x past the path a, below the prefix b.
Suffixed(a, b, x) == b \o SubSeq(x, Len(a) + 1, Len(x))

LEMMA SuffixedIsSeq ==
  ASSUME NEW a \in Seq(Slugs), NEW b \in Seq(Slugs), NEW x \in Seq(Slugs)
  PROVE  Suffixed(a, b, x) \in Seq(Slugs) /\ Len(Suffixed(a, b, x)) >= Len(b)
<1> DEFINE rest == SubSeq(x, Len(a) + 1, Len(x))
<1>1. Len(a) \in Nat /\ Len(b) \in Nat /\ Len(x) \in Nat /\ \A i \in 1..Len(x) : x[i] \in Slugs
  BY LenProperties, ElementOfSeq
<1>2. rest \in Seq(Slugs)
  BY <1>1, SubSeqProperties
<1> HIDE DEF rest
<1>3. b \o rest \in Seq(Slugs) /\ Len(b \o rest) = Len(b) + Len(rest) /\ Len(rest) \in Nat
  BY <1>2, ConcatProperties, LenProperties
<1> QED
  BY <1>1, <1>3 DEF Suffixed, rest

LEMMA SuffixedSelf ==
  ASSUME NEW a \in Seq(Slugs), NEW b \in Seq(Slugs)
  PROVE  Suffixed(a, b, a) = b
<1>1. Len(a) \in Nat
  BY LenProperties
<1>2. SubSeq(a, Len(a) + 1, Len(a)) = <<>>
  BY <1>1, SubSeqEmpty
<1> QED
  BY <1>2, ConcatEmptySeq DEF Suffixed

\* A child goes where its parent goes.
LEMMA SuffixedChild ==
  ASSUME NEW a \in Seq(Slugs), NEW b \in Seq(Slugs), NEW x \in Seq(Slugs), NEW s \in Slugs,
         Len(a) <= Len(x)
  PROVE  Suffixed(a, b, Append(x, s)) = Append(Suffixed(a, b, x), s)
<1> DEFINE y == Append(x, s)
           rest == SubSeq(x, Len(a) + 1, Len(x))
           more == SubSeq(y, Len(a) + 1, Len(x) + 1)
<1>1. Len(a) \in Nat /\ Len(b) \in Nat /\ Len(x) \in Nat
  BY LenProperties
<1>2. y \in Seq(Slugs) /\ Len(y) = Len(x) + 1 /\ (\A i \in 1..Len(x) : y[i] = x[i]) /\ y[Len(x) + 1] = s
  BY AppendProperties
<1>3. /\ \A i \in (Len(a) + 1)..Len(x) : x[i] \in Slugs
      /\ \A i \in (Len(a) + 1)..(Len(x) + 1) : y[i] \in Slugs
  BY <1>1, <1>2, ElementOfSeq
<1>4. /\ rest \in Seq(Slugs) /\ Len(rest) = Len(x) - Len(a)
      /\ \A i \in 1..(Len(x) - Len(a)) : rest[i] = x[Len(a) + i]
  BY <1>1, <1>3, SubSeqProperties
<1>5. /\ more \in Seq(Slugs) /\ Len(more) = Len(x) - Len(a) + 1
      /\ \A i \in 1..(Len(x) - Len(a) + 1) : more[i] = y[Len(a) + i]
  <2> HIDE DEF y
  <2> QED
    BY <1>1, <1>3, SubSeqProperties
<1> HIDE DEF y, rest, more
<1>6. more = Append(rest, s)
  <2>1. /\ Append(rest, s) \in Seq(Slugs) /\ Len(Append(rest, s)) = Len(x) - Len(a) + 1
        /\ \A i \in 1..(Len(x) - Len(a)) : Append(rest, s)[i] = rest[i]
        /\ Append(rest, s)[Len(x) - Len(a) + 1] = s
    BY <1>1, <1>4, AppendProperties
  <2>2. \A i \in 1..(Len(x) - Len(a)) : more[i] = Append(rest, s)[i]
    BY <1>1, <1>2, <1>4, <1>5, <2>1
  <2>3. more[Len(x) - Len(a) + 1] = Append(rest, s)[Len(x) - Len(a) + 1]
    BY <1>1, <1>2, <1>5, <2>1
  <2>4. \A i \in 1..Len(more) : more[i] = Append(rest, s)[i]
    <3>1. \A i \in 1..Len(more) : i \in 1..(Len(x) - Len(a)) \/ i = Len(x) - Len(a) + 1
      <4>1. \A k \in Int : \A i \in 1..(k + 1) : i \in 1..k \/ i = k + 1
        OBVIOUS
      <4>2. Len(x) - Len(a) \in Int /\ Len(more) = (Len(x) - Len(a)) + 1
        BY <1>1, <1>5
      <4> QED
        BY <4>1, <4>2
    <3> QED
      BY <2>2, <2>3, <3>1
  <2> QED
    BY <1>5, <2>1, <2>4, SeqEqual
<1>7. b \o Append(rest, s) = Append(b \o rest, s)
  <2>1. <<s>> \in Seq(Slugs) /\ b \o rest \in Seq(Slugs)
    BY <1>4, ConcatProperties
  <2>2. Append(rest, s) = rest \o <<s>> /\ Append(b \o rest, s) = (b \o rest) \o <<s>>
    BY <1>4, <2>1, AppendIsConcat
  <2> QED
    BY <1>4, <2>1, <2>2, ConcatAssociative
<1>8. Suffixed(a, b, y) = b \o more /\ Suffixed(a, b, x) = b \o rest
  BY <1>2 DEF Suffixed, more, rest
<1> QED
  BY <1>6, <1>7, <1>8 DEF y


\* What a transaction has been given, and which statement it is at.
Given(t) ==
  /\ t.op \in Operations /\ t.page \in Pages \cup {NoPage}
  /\ t.own \cup t.share \cup t.found \cup t.there \subseteq Pages
  /\ t.pc = "idle" => t = Idle
  /\ t.op = "create" /\ t.pc # "idle" =>
       t.arg \in (Pages \cup {NoPage}) \X Slugs /\ t.arg[1] # t.page
  /\ t.op = "rename" => t.arg \in Slugs
  /\ t.op = "pattern" => t.arg \in Patterns
  /\ t.above \in Paths \cup {<<>>} /\ (t.pc \in {"page", "parent"} => t.above = <<>>)
  /\ t.op = "publish" /\ t.pc = "write" => t.read \in Patterns

OnSubtree == {"rename", "move", "trash", "restore", "delete"}
Staged(t) ==
  /\ t.pc = "parent" => t.op \in {"create", "rename", "move"}
  /\ t.pc = "sibling" => t.op = "create"
  /\ t.pc = "ancestors" => t.op = "restore"
  /\ t.pc = "find" => t.op \in OnSubtree
  /\ t.pc = "pattern" => t.op = "publish"
  /\ t.pc \in {"settings", "read"} => t.op = "pattern"
  /\ t.pc = "lock" => t.op \in OnSubtree \cup {"pattern"}

\* The page is there to the end, and the path above it is what was read.
Carries(t) == t.op \in {"rename", "move"} /\ t.pc \in {"find", "lock", "write"}
Placed(t) ==
  /\ Checked(t) => Exists(t.page) /\ (t.op = "restore" => rows[t.page].status = "trashed")
  /\ t.op = "create" /\ t.share # {} =>
       t.pc = "write" /\ t.share = {t.arg[1]} /\ t.above = PathOf(t.arg[1])
  /\ Carries(t) => /\ t.above = PathOf(Parent(t))
                   /\ Parent(t) # NoPage => Parent(t) \in t.own \cup t.share
  /\ \A q \in t.share : rows[q].status # "unborn"

\* What was found is the page and rows below it, and all that was there.
HasFound(t) == t.op \in OnSubtree /\ t.pc \in {"lock", "write"}
Found(t) ==
  /\ HasFound(t) => t.page \in t.found
  /\ HasFound(t) /\ t.pc = "write" => t.found \subseteq Below(t.page)
  /\ HasFound(t) /\ t.op \in {"rename", "move"} => t.there = t.found

\* Of what was there, a restore has found what went to the trash with the page.
Recalls(t) ==
  HasFound(t) /\ t.op = "restore" =>
    /\ t.found \subseteq t.there
    /\ t.pc = "write" => \A q \in t.found : rows[q].trashed = rows[t.page].trashed
    /\ \A q \in t.there :
         rows[q].status = "trashed" /\ binned[q] = binned[t.page] => q \in t.found

\* What was published is found, unless its address was the new one when read.
Readdresses(t) ==
  t.op = "pattern" /\ t.pc \in {"lock", "write"} =>
    /\ t.found \subseteq DOMAIN t.read /\ DOMAIN t.read \subseteq Pages
    /\ \A q \in DOMAIN t.read :
         /\ rows[q].status # "unborn" /\ t.read[q].path \in Paths /\ t.read[q].address \in Addresses
         /\ AddressOf(t.arg, t.read[q].path) # t.read[q].address /\ Exists(q) => q \in t.found
    /\ t.pc = "write" => t.found \subseteq Existing

Knows(t) ==
  Given(t) /\ Staged(t) /\ Placed(t) /\ Found(t) /\ Recalls(t) /\ Readdresses(t)

\* Nobody owns what somebody else shares.
Shared == \A v, w \in Writers : v # w => tx[v].share \cap tx[w].own = {}

Typed ==
  /\ rows \in [Pages -> Rows] /\ pattern \in Patterns
  /\ history \subseteq Pages \X (Paths \cup Addresses)
  /\ calls \in 0..MaxCalls /\ clock \in Nat /\ binned \in [Pages -> Nat]
  /\ astray \cup overtaken \subseteq Pages
Rooted ==
  \A p \in Existing : rows[p].path \in Paths /\ rows[p].parent \in Existing \cup {NoPage}
Addressed == \A p \in Pages : rows[p].address # NoAddress => rows[p].status = "published"
Stamped ==
  \A p \in Pages : /\ rows[p].status = "trashed" => rows[p].trashed = binned[p]
                   /\ binned[p] <= clock
Tree ==
  /\ Typed /\ Rooted /\ Addressed /\ Stamped
  /\ PathFollowsParent /\ AddressFollowsPath

TreeInv == HeldInv /\ Tree /\ Shared /\ \A w \in Writers : Knows(tx[w])

LEMMA TreeTypes == TreeInv => TypeOK
  BY DEF TreeInv, Tree, Typed, Knows, Given, TypeOK

LEMMA RowTyped ==
  ASSUME NEW a \in Pages \cup {NoPage}, NEW b \in Paths \cup {<<>>},
         NEW c \in {"unborn", "draft", "scheduled", "published", "trashed", "deleted"},
         NEW d \in Addresses, NEW v \in Nat, NEW e \in Nat
  PROVE  Row(a, b, c, d, v, e) \in Rows
  BY DEF Row, Rows

LEMMA TreeInit == Init => TreeInv
<1> SUFFICES ASSUME Init PROVE TreeInv
  OBVIOUS
<1>1. \A w \in Writers : tx[w] = Idle
  BY DEF Init
<1>2. /\ Idle.op = "create" /\ Idle.pc = "idle" /\ Idle.page = NoPage /\ Idle.above = <<>>
      /\ Idle.own = {} /\ Idle.found = {} /\ Idle.share = {} /\ Idle.there = {}
  BY DEF Idle, Tx
<1>3. Knows(Idle)
  BY <1>2 DEF Knows, Given, Staged, Placed, Checked, Carries, Found, HasFound, Recalls, Readdresses,
              Operations
<1>9. Unborn \in Rows /\ Unborn.status = "unborn" /\ Unborn.address = NoAddress
  BY RowTyped DEF Unborn, Row, Addresses
<1>4. /\ \A q \in Pages \cup {NoPage}, path \in Paths :
           LET r == Row(q, path, "draft", NoAddress, 1, 0)
           IN r \in Rows /\ r.status = "draft" /\ r.address = NoAddress /\ r.path = path
  BY RowTyped DEF Unborn, Row, Addresses
<1>5. /\ rows \in [Pages -> Rows]
      /\ \A p \in Pages : /\ rows[p].address = NoAddress
                          /\ rows[p].status = "unborn" \/ (rows[p].status = "draft" /\ rows[p].path \in Paths)
  <2> DEFINE R == {Unborn} \cup {Row(q, path, "draft", NoAddress, 1, 0) : q \in Pages \cup {NoPage}, path \in Paths}
  <2>1. \A r \in R : /\ r \in Rows /\ r.address = NoAddress
                     /\ r.status = "unborn" \/ (r.status = "draft" /\ r.path \in Paths)
    <3> TAKE r \in R
    <3>1. CASE r = Unborn
      BY <1>9, <3>1
    <3>2. ASSUME NEW q \in Pages \cup {NoPage}, NEW path \in Paths,
                 r = Row(q, path, "draft", NoAddress, 1, 0)
          PROVE  r \in Rows /\ r.address = NoAddress /\ r.status = "draft" /\ r.path \in Paths
      BY <1>4, <3>2
    <3> QED
      BY <1>4, <3>1, <3>2
  <2>2. rows \in [Pages -> R]
    BY DEF Init
  <2> HIDE DEF R
  <2> QED
    BY <2>1, <2>2
<1>6. Typed /\ Stamped /\ Addressed
  BY <1>5 DEF Init, Typed, Stamped, Addressed
<1>7. Rooted /\ PathFollowsParent /\ AddressFollowsPath
  BY <1>5 DEF Init, Rooted, PathFollowsParent, AddressFollowsPath, Existing, Exists
<1>8. Shared /\ \A w \in Writers : Knows(tx[w])
  BY <1>1, <1>2, <1>3 DEF Shared
<1> QED
  BY <1>6, <1>7, <1>8, HeldInit DEF TreeInv, Tree


\* What is known of the rows stays while they do.
LEMMA KnowsStays ==
  ASSUME NEW v \in Writers, NEW u, Knows(u), tx'[v] = u, rows' = rows, binned' = binned
  PROVE  Knows(tx[v])'
<1>1. Given(tx[v])' /\ Staged(tx[v])'
  BY DEF Knows, Given, Staged
<1>2. Placed(tx[v])'
  BY DEF Knows, Placed, Checked, Carries, Parent, PathOf, Exists
<1>3. Found(tx[v])' /\ Recalls(tx[v])'
  BY DEF Knows, Found, Recalls, HasFound, Below, Existing, Exists
<1>4. Readdresses(tx[v])'
  BY DEF Knows, Readdresses, Existing, Exists
<1> QED
  BY <1>1, <1>2, <1>3, <1>4 DEF Knows

LEMMA TreeStays ==
  ASSUME Tree, UNCHANGED <<rows, pattern, history, clock, binned, astray, overtaken>>,
         calls' \in 0..MaxCalls
  PROVE  Tree'
<1>1. Typed'
  BY DEF Tree, Typed
<1>2. Rooted' /\ Addressed' /\ Stamped' /\ PathFollowsParent' /\ AddressFollowsPath'
  BY DEF Tree, Rooted, Addressed, Stamped, PathFollowsParent, AddressFollowsPath, Existing, Exists,
         PathOf, Slug
<1> QED
  BY <1>1, <1>2 DEF Tree

LEMMA TreeGoes ==
  ASSUME TreeInv, HeldInv', NEW w \in Writers, NEW u, tx' = [tx EXCEPT ![w] = u],
         UNCHANGED <<rows, pattern, history, clock, binned, astray, overtaken>>,
         calls' \in 0..MaxCalls, Knows(u),
         \A v \in Writers \ {w} : u.share \cap tx[v].own = {} /\ u.own \cap tx[v].share = {}
  PROVE  TreeInv'
<1>1. tx'[w] = u /\ \A v \in Writers \ {w} : tx'[v] = tx[v]
  BY DEF TreeInv, HeldInv, Shapes
<1>2. \A v \in Writers : Knows(tx[v])'
  <2> TAKE v \in Writers
  <2>1. tx'[v] = IF v = w THEN u ELSE tx[v]
    BY <1>1
  <2>2. CASE v = w
    BY <2>1, <2>2, KnowsStays
  <2>3. CASE v # w
    <3>1. Knows(tx[v]) /\ tx'[v] = tx[v]
      BY <2>1, <2>3 DEF TreeInv
    <3> QED
      BY <3>1, KnowsStays
  <2> QED
    BY <2>2, <2>3
<1>3. Shared'
  BY <1>1 DEF TreeInv, Shared
<1> QED
  BY <1>2, <1>3, TreeStays DEF TreeInv

LEMMA TreeCall ==
  ASSUME TreeInv, HeldInv', NEW w \in Writers, NEW op \in Operations,
         NEW p \in Pages \cup {NoPage}, NEW arg, NEW base, NEW pc,
         Call(w, Tx(op, p, arg, base, pc)),
         op = "create" => /\ arg \in (Pages \cup {NoPage}) \X Slugs /\ arg[1] # p
                          /\ pc \in {"parent", "sibling"},
         op = "rename" => arg \in Slugs,
         op = "pattern" => arg \in Patterns /\ pc = "settings",
         op \notin {"create", "pattern"} => pc = "page"
  PROVE  TreeInv'
<1> DEFINE u == Tx(op, p, arg, base, pc)
<1>1. /\ u.op = op /\ u.page = p /\ u.arg = arg /\ u.pc = pc /\ u.own = {} /\ u.found = {}
      /\ u.share = {} /\ u.there = {} /\ u.above = <<>>
  BY DEF Tx
<1>2. /\ tx' = [tx EXCEPT ![w] = u] /\ calls < MaxCalls /\ calls' = calls + 1
      /\ UNCHANGED <<rows, pattern, history, clock, binned, astray, overtaken>>
  BY DEF Call
<1>3. calls' \in 0..MaxCalls
  BY <1>2 DEF TreeInv, Tree, Typed
<1> HIDE DEF u
<1>4. Knows(u)
  BY <1>1 DEF Knows, Given, Staged, Placed, Checked, Carries, Found, HasFound, Recalls, Readdresses
<1> QED
  BY <1>1, <1>2, <1>3, <1>4, TreeGoes

LEMMA TreeBegin ==
  ASSUME TreeInv, HeldInv', NEW w \in Writers, Begin(w)  PROVE TreeInv'
<1>1. CASE CallCreate(w)
  <2>1. PICK p \in Pages, q \in Existing \cup {NoPage}, slug \in Slugs, pc \in {"parent", "sibling"} :
          rows[p].status = "unborn" /\ Call(w, Tx("create", p, <<q, slug>>, 0, pc))
    BY <1>1 DEF CallCreate
  <2>2. <<q, slug>> \in (Pages \cup {NoPage}) \X Slugs /\ <<q, slug>>[1] # p
    BY <2>1 DEF Existing, Exists
  <2> QED
    BY <2>1, <2>2, TreeCall DEF Operations
<1>2. CASE CallPattern(w)
  BY <1>2, TreeCall DEF CallPattern, Operations
<1>3. ASSUME NEW op \in Operations \ {"create", "pattern"}, NEW arg,
             op = "rename" => arg \in Slugs, CallOn(w, op, arg)
      PROVE  TreeInv'
  BY <1>3, TreeCall DEF CallOn, Existing
<1> QED
  BY <1>1, <1>2, <1>3 DEF Begin, Operations


\* A statement changes what it says of its transaction, and leaves the rest.
Same(t, u) ==
  /\ u.op = t.op /\ u.page = t.page /\ u.arg = t.arg
Untouched(t, u) ==
  /\ u.found = t.found /\ u.read = t.read /\ u.own = t.own /\ u.share = t.share
  /\ u.there = t.there /\ u.above = t.above

LEMMA TreeStep ==
  ASSUME TreeInv, HeldInv', NEW w \in Writers, Step(w)  PROVE TreeInv'
<1> DEFINE t == tx[w]
<1>1. IsTx(t) /\ Knows(t) /\ calls \in 0..MaxCalls
  BY DEF TreeInv, HeldInv, Shapes, Tree, Typed
<1>2. \A v \in Writers \ {w} : t.share \cap tx[v].own = {} /\ t.own \cap tx[v].share = {}
  BY DEF TreeInv, Shared
<1>3. /\ t.pc = "page" => t.op \in Operations \ {"create", "pattern"} /\ t.page \in Pages
      /\ t.op = "move" => t.arg \in Pages \cup {NoPage}
      /\ t.pc \notin {"lock", "write"} => t.found = {}
  BY DEF TreeInv, HeldInv, Asked
<1>4. \A p \in Pages : Exists(p) => rows[p].path \in Paths /\ rows[p].parent \in Existing \cup {NoPage}
  BY DEF TreeInv, Tree, Rooted, Existing
<1> HIDE DEF t
<1>5. ASSUME NEW x, NEW pc, NEW u, u = [x EXCEPT !.pc = pc], Goes(w, x, pc), Knows(u),
             \A v \in Writers \ {w} : u.share \cap tx[v].own = {} /\ u.own \cap tx[v].share = {}
      PROVE  TreeInv'
  BY <1>1, <1>5, TreeGoes DEF Goes
<1>6. CASE LoadPage(w)
  <2> DEFINE x == [t EXCEPT !.own = {t.page}]
             u == [x EXCEPT !.pc = AfterPage(t.op)]
  <2>1. /\ t.pc = "page" /\ Free(w, {t.page}) /\ Exists(t.page) /\ StatusAllowed(t)
        /\ Goes(w, x, AfterPage(t.op))
    BY <1>6 DEF LoadPage, t
  <2>2. /\ Same(t, u) /\ u.own = {t.page} /\ u.pc = AfterPage(t.op) /\ u.found = t.found
        /\ u.share = t.share /\ u.there = t.there /\ u.above = t.above /\ u.read = t.read
    BY <1>1 DEF IsTx, Same
  <2>3. u = [x EXCEPT !.pc = AfterPage(t.op)]
    OBVIOUS
  <2> HIDE DEF u, x
  <2>4. /\ t.op \in {"rename", "move"} => u.pc = "parent"
        /\ t.op \in {"trash", "delete"} => u.pc = "find"
        /\ t.op = "restore" => u.pc = "ancestors" /\ rows[t.page].status = "trashed"
        /\ t.op = "publish" => u.pc = "pattern"
        /\ t.op \in {"schedule", "unschedule", "unpublish"} => u.pc = "write"
    BY <2>1, <2>2 DEF AfterPage, StatusAllowed
  <2>5. Knows(u)
    BY <1>1, <1>3, <2>1, <2>2, <2>4 DEF Knows, Given, Staged, Placed, Checked, Carries, Found, HasFound, Recalls,
       Readdresses, Operations, OnSubtree, Same
  <2>6. \A v \in Writers \ {w} : u.share \cap tx[v].own = {} /\ u.own \cap tx[v].share = {}
    BY <1>2, <2>1, <2>2 DEF Free
  <2> QED
    BY <1>5, <2>1, <2>3, <2>5, <2>6
<1>7. CASE ReadParent(w)
  <2> DEFINE q == Parent(t)
             next == IF t.op = "create" THEN "write" ELSE "find"
             x == ParentLocked([t EXCEPT !.above = rows[q].path], q)
  <2>1. /\ t.pc = "parent"
        /\ \/ q = NoPage /\ Goes(w, t, next)
           \/ /\ q # NoPage /\ Exists(q) /\ Goes(w, x, next)
              /\ IF t.op = "move" THEN Free(w, {q}) ELSE Shareable(w, q)
    BY <1>7 DEF ReadParent, t
  <2>2. t.op \in {"create", "rename", "move"} /\ t.above = <<>>
    BY <1>1, <2>1 DEF Knows, Staged, Given
  <2>3. q \in Pages \cup {NoPage}
    <3>1. t.op = "rename" => t.page \in Pages /\ Exists(t.page)
      BY <1>1, <2>1 DEF Knows, Given, Placed, Checked, Exists, TreeInv, HeldInv, PageHeld, Locked, t
    <3>2. t.op = "create" => t.arg[1] \in Pages \cup {NoPage}
      BY <1>1, <2>1 DEF Knows, Given
    <3> QED
      BY <1>3, <1>4, <2>2, <3>1, <3>2 DEF Parent, Existing
  <2>4. t.op = "create" => q = t.arg[1] /\ t.share = {}
    BY <1>1, <2>1 DEF Parent, Knows, Placed
  <2>5. CASE q = NoPage /\ Goes(w, t, next)
    <3> DEFINE u == [t EXCEPT !.pc = next]
    <3>1. Same(t, u) /\ Untouched(t, u) /\ u.pc = next
      BY <1>1 DEF IsTx, Same, Untouched
    <3>2. u = [t EXCEPT !.pc = next]
      OBVIOUS
    <3> HIDE DEF u
    <3>3. Parent(u) = NoPage
      BY <2>2, <2>5, <3>1 DEF Parent, Same
    <3>4. Knows(u)
      BY <1>1, <1>3, <2>1, <2>2, <2>4, <3>1, <3>3 DEF Knows, Given, Staged, Placed, Checked, Carries, Found, HasFound,
         Recalls, Readdresses, Operations, OnSubtree, Same, Untouched, PathOf
    <3> QED
      BY <1>2, <1>5, <2>5, <3>1, <3>2, <3>4 DEF Untouched
  <2>6. CASE /\ q # NoPage /\ Exists(q) /\ Goes(w, x, next)
             /\ IF t.op = "move" THEN Free(w, {q}) ELSE Shareable(w, q)
    <3> DEFINE u == [x EXCEPT !.pc = next]
    <3>1. /\ Same(t, u) /\ u.pc = next /\ u.above = rows[q].path /\ u.found = t.found
          /\ u.there = t.there /\ u.read = t.read
          /\ t.op = "move" => u.own = t.own \cup {q} /\ u.share = t.share
          /\ t.op # "move" => u.own = t.own /\ u.share = {q}
      BY <1>1 DEF IsTx, Same, ParentLocked
    <3>2. u = [x EXCEPT !.pc = next]
      OBVIOUS
    <3> HIDE DEF u, x
    <3>3. Parent(u) = q /\ PathOf(q) = rows[q].path /\ q \in Pages /\ rows[q].path \in Paths
      BY <1>4, <2>2, <2>3, <2>6, <3>1 DEF Parent, Same, PathOf
    <3> HIDE DEF q
    <3>4. Knows(u)
      <4>1. \A p \in u.share : rows[p].status # "unborn"
        BY <1>1, <2>6, <3>1 DEF Knows, Placed, Exists
      <4>2. Placed(u)
        BY <1>1, <1>3, <2>1, <2>2, <2>4, <3>1, <3>3, <4>1 DEF Knows, Placed, Checked, Carries, Same
      <4> QED
        BY <1>1, <1>3, <2>1, <2>2, <3>1, <3>3, <4>2 DEF Knows, Given, Staged, Found, HasFound, Recalls,
           Readdresses, OnSubtree, Same
    <3>5. \A v \in Writers \ {w} : u.share \cap tx[v].own = {} /\ u.own \cap tx[v].share = {}
      BY <1>2, <2>6, <3>1 DEF Free, Shareable
    <3> QED
      BY <1>5, <2>6, <3>2, <3>4, <3>5
  <2> QED
    BY <2>1, <2>5, <2>6
<1>8. CASE ReadSibling(w)
  <2> DEFINE x == [t EXCEPT !.above = PathOf(t.arg[1])]
             u == [x EXCEPT !.pc = "write"]
  <2>1. t.pc = "sibling" /\ t.arg[1] \in Existing \cup {NoPage} /\ Goes(w, x, "write")
    BY <1>8 DEF ReadSibling, t
  <2>2. /\ Same(t, u) /\ u.pc = "write" /\ u.above = PathOf(t.arg[1]) /\ u.found = t.found
        /\ u.own = t.own /\ u.share = t.share /\ u.there = t.there
    BY <1>1 DEF IsTx, Same
  <2>3. u = [x EXCEPT !.pc = "write"]
    OBVIOUS
  <2> HIDE DEF u, x
  <2>4. PathOf(t.arg[1]) \in Paths \cup {<<>>}
    BY <1>4, <2>1 DEF PathOf, Existing
  <2>5. Knows(u)
    BY <1>1, <2>1, <2>2, <2>4 DEF Knows, Given, Staged, Placed, Checked, Carries, Found, HasFound, Recalls,
       Readdresses, OnSubtree, Same
  <2> QED
    BY <1>2, <1>5, <2>1, <2>2, <2>3, <2>5
<1>9. ASSUME NEW pc, Goes(w, t, pc),
             (t.pc = "ancestors" /\ pc = "find") \/ (t.pc = "settings" /\ pc = "read")
      PROVE  TreeInv'
  <2> DEFINE u == [t EXCEPT !.pc = pc]
  <2>1. Same(t, u) /\ Untouched(t, u) /\ u.pc = pc
    BY <1>1 DEF IsTx, Same, Untouched
  <2>2. u = [t EXCEPT !.pc = pc]
    OBVIOUS
  <2> HIDE DEF u
  <2>3. Knows(u)
    BY <1>1, <1>9, <2>1 DEF Knows, Given, Staged, Placed, Checked, Carries, Found, HasFound, Recalls, Readdresses,
       OnSubtree, Same, Untouched
  <2> QED
    BY <1>2, <1>5, <1>9, <2>1, <2>2, <2>3 DEF Untouched
<1>10. CASE ReadPattern(w)
  <2> DEFINE x == [t EXCEPT !.read = pattern]
             u == [x EXCEPT !.pc = "write"]
  <2>1. t.pc = "pattern" /\ Goes(w, x, "write")
    BY <1>10 DEF ReadPattern, t
  <2>2. /\ Same(t, u) /\ u.pc = "write" /\ u.read = pattern /\ u.found = t.found /\ u.own = t.own
        /\ u.share = t.share /\ u.there = t.there /\ u.above = t.above
    BY <1>1 DEF IsTx, Same
  <2>3. u = [x EXCEPT !.pc = "write"]
    OBVIOUS
  <2> HIDE DEF u, x
  <2>4. pattern \in Patterns
    BY DEF TreeInv, Tree, Typed
  <2>5. Knows(u)
    BY <1>1, <2>1, <2>2, <2>4 DEF Knows, Given, Staged, Placed, Checked, Carries, Found, HasFound, Recalls,
       Readdresses, OnSubtree, Same
  <2> QED
    BY <1>2, <1>5, <2>1, <2>2, <2>3, <2>5
<1>11. CASE FindSubtree(w)
  <2> DEFINE x == [t EXCEPT !.found = Matching(t), !.there = Below(t.page)]
             u == [x EXCEPT !.pc = "lock"]
  <2>1. t.pc = "find" /\ Goes(w, x, "lock")
    BY <1>11 DEF FindSubtree, t
  <2>2. /\ Same(t, u) /\ u.pc = "lock" /\ u.found = Matching(t) /\ u.there = Below(t.page)
        /\ u.own = t.own /\ u.share = t.share /\ u.above = t.above
    BY <1>1 DEF IsTx, Same
  <2>3. u = [x EXCEPT !.pc = "lock"]
    OBVIOUS
  <2> HIDE DEF u, x
  <2>4. t.op \in OnSubtree /\ Exists(t.page) /\ t.page \in Pages
    BY <1>1, <2>1 DEF Knows, Staged, Placed, Checked, OnSubtree, Given, TreeInv, HeldInv, PageHeld, Locked, t
  <2>5. t.page \in Below(t.page) /\ Below(t.page) \subseteq Pages
    <3>1. Len(rows[t.page].path) \in Nat
      BY <1>4, <2>4, PathIsSeq
    <3> QED
      BY <2>4, <3>1 DEF Below, Existing, IsPrefix
  <2>6. t.op # "restore" => Matching(t) = Below(t.page)
    BY <2>4 DEF Matching, OnSubtree
  <2>7. t.op = "restore" =>
          /\ Matching(t) = {q \in Below(t.page) : rows[q].trashed = rows[t.page].trashed}
          /\ rows[t.page].status = "trashed"
    BY <1>1, <2>1 DEF Matching, Knows, Placed, Checked
  <2>8. t.op = "restore" => \A q \in Below(t.page) :
          rows[q].status = "trashed" /\ binned[q] = binned[t.page] => q \in Matching(t)
    BY <2>4, <2>5, <2>7 DEF TreeInv, Tree, Stamped
  <2>9. t.page \in Matching(t) /\ Matching(t) \subseteq Below(t.page)
    BY <2>5, <2>6, <2>7
  <2>10. Placed(u)
    BY <1>1, <2>1, <2>2, <2>4 DEF Knows, Placed, Checked, Carries, Parent, Same, OnSubtree
  <2>11. Given(u) /\ Staged(u)
    BY <1>1, <2>1, <2>2, <2>4, <2>5, <2>9 DEF Knows, Given, Staged, Same, OnSubtree
  <2>12. Found(u) /\ Recalls(u) /\ Readdresses(u)
    BY <2>2, <2>4, <2>6, <2>8, <2>9 DEF Found, Recalls, Readdresses, HasFound, Same, OnSubtree
  <2> QED
    BY <1>2, <1>5, <2>1, <2>2, <2>3, <2>10, <2>11, <2>12 DEF Knows
<1>12. CASE LockFound(w)
  <2> DEFINE x == [t EXCEPT !.own = t.own \cup t.found, !.found = t.found \cap Matching(t),
                            !.there = {q \in t.there : q \in Below(t.page)}]
             u == [x EXCEPT !.pc = "write"]
  <2>1. t.pc = "lock" /\ Free(w, t.found) /\ Goes(w, x, "write")
    BY <1>12 DEF LockFound, t
  <2>2. /\ Same(t, u) /\ u.pc = "write" /\ u.own = t.own \cup t.found /\ u.read = t.read
        /\ u.found = t.found \cap Matching(t) /\ u.there = {q \in t.there : q \in Below(t.page)}
        /\ u.share = t.share /\ u.above = t.above
    BY <1>1 DEF IsTx, Same
  <2>3. u = [x EXCEPT !.pc = "write"]
    OBVIOUS
  <2> HIDE DEF u, x
  <2>4. t.op \in OnSubtree \cup {"pattern"}
    BY <1>1, <2>1 DEF Knows, Staged
  <2>5. t.op \in OnSubtree => t.page \in Below(t.page)
    <3> SUFFICES ASSUME t.op \in OnSubtree PROVE t.page \in Below(t.page)
      OBVIOUS
    <3>1. t.page \in Pages /\ Exists(t.page)
      BY <1>1, <2>1 DEF Knows, Placed, Checked, OnSubtree, TreeInv, HeldInv, PageHeld, Locked, t
    <3>2. Len(rows[t.page].path) \in Nat
      BY <1>4, <3>1, PathIsSeq
    <3> QED
      BY <3>1, <3>2 DEF Below, Existing, IsPrefix
  <2>6. t.op \in OnSubtree \ {"restore"} => Matching(t) = Below(t.page)
    BY DEF Matching, OnSubtree
  <2>7. t.op = "restore" =>
          Matching(t) = {q \in Below(t.page) : rows[q].trashed = rows[t.page].trashed}
    BY DEF Matching
  <2>8. t.op = "pattern" => Matching(t) = Existing
    BY DEF Matching
  <2>9. Placed(u)
    BY <1>1, <2>1, <2>2, <2>4 DEF Knows, Placed, Checked, Carries, Parent, Same, OnSubtree
  <2>10. Given(u) /\ Staged(u)
    BY <1>1, <2>1, <2>2, <2>4 DEF Knows, Given, Staged, Same, OnSubtree
  <2>11. Found(u)
    BY <1>1, <2>1, <2>2, <2>5, <2>6, <2>7 DEF Knows, Found, HasFound, Same, OnSubtree
  <2>12. Recalls(u)
    <3> SUFFICES ASSUME t.op = "restore"
                 PROVE  /\ u.found \subseteq u.there
                        /\ \A q \in u.found : rows[q].trashed = rows[t.page].trashed
                        /\ \A q \in u.there :
                             rows[q].status = "trashed" /\ binned[q] = binned[t.page] => q \in u.found
      BY <2>2 DEF Recalls, Same
    <3>1. /\ t.found \subseteq t.there /\ rows[t.page].status = "trashed"
          /\ \A q \in t.there :
               rows[q].status = "trashed" /\ binned[q] = binned[t.page] => q \in t.found
      BY <1>1, <2>1 DEF Knows, Recalls, HasFound, OnSubtree, Placed, Checked
    <3>2. t.page \in Pages /\ t.there \subseteq Pages
      BY <1>1, <2>1, <2>5 DEF Knows, Given, Below, Existing, OnSubtree
    <3>3. \A q \in t.there : rows[q].status = "trashed" /\ binned[q] = binned[t.page] =>
                               rows[q].trashed = rows[t.page].trashed
      BY <3>1, <3>2 DEF TreeInv, Tree, Stamped
    <3> QED
      BY <2>2, <2>7, <3>1, <3>3
  <2>13. Readdresses(u)
    BY <1>1, <2>1, <2>2, <2>8 DEF Knows, Readdresses, Same, Existing
  <2>14. \A v \in Writers \ {w} : u.share \cap tx[v].own = {} /\ u.own \cap tx[v].share = {}
    BY <1>2, <2>1, <2>2 DEF Free
  <2> QED
    BY <1>5, <2>1, <2>3, <2>9, <2>10, <2>11, <2>12, <2>13, <2>14 DEF Knows
<1>13. CASE ReadPublished(w)
  <2> DEFINE published == {q \in Existing : rows[q].status = "published"}
             read == [q \in published |-> rows[q]]
             found == {q \in published : AddressOf(t.arg, rows[q].path) # rows[q].address}
             x == [t EXCEPT !.read = read, !.found = found]
             u == [x EXCEPT !.pc = "lock"]
  <2>1. t.pc = "read" /\ Goes(w, x, "lock")
    BY <1>13 DEF ReadPublished, t
  <2>2. /\ Same(t, u) /\ u.pc = "lock" /\ u.read = read /\ u.found = found /\ u.own = t.own
        /\ u.share = t.share /\ u.there = t.there /\ u.above = t.above
    BY <1>1 DEF IsTx, Same
  <2>3. u = [x EXCEPT !.pc = "lock"]
    OBVIOUS
  <2> HIDE DEF u, x
  <2>4. t.op = "pattern"
    BY <1>1, <2>1 DEF Knows, Staged
  <2>5. found \subseteq published /\ published \subseteq Pages
    BY DEF Existing
  <2>6. \A q \in published : /\ read[q] = rows[q] /\ rows[q].status = "published"
                             /\ rows[q].path \in Paths /\ rows[q].address \in Addresses
    BY <1>4 DEF Existing, TreeInv, Tree, Typed, Rows
  <2>7. Readdresses(u)
    <3>1. DOMAIN u.read = published
      BY <2>2
    <3>2. \A q \in published : u.read[q] = rows[q]
      BY <2>2, <2>6
    <3>3. \A q \in published : AddressOf(t.arg, rows[q].path) # rows[q].address => q \in u.found
      BY <2>2
    <3>4. u.found \subseteq published
      BY <2>2
    <3> HIDE DEF read, found
    <3> QED
      BY <2>2, <2>5, <2>6, <3>1, <3>2, <3>3, <3>4 DEF Readdresses, Same
  <2> HIDE DEF read, found
  <2>8. Given(u) /\ Staged(u) /\ Placed(u) /\ Found(u) /\ Recalls(u)
    BY <1>1, <2>1, <2>2, <2>4, <2>5 DEF Knows, Given, Staged, Placed, Checked, Carries, Found, HasFound, Recalls,
       OnSubtree, Same
  <2> QED
    BY <1>2, <1>5, <2>1, <2>2, <2>3, <2>7, <2>8 DEF Knows
<1>14. CASE ReadAncestors(w)
  <2>1. t.pc = "ancestors" /\ Goes(w, t, "find")
    BY <1>14 DEF ReadAncestors, t
  <2> QED
    BY <1>9, <2>1
<1>15. CASE LockSettings(w)
  BY <1>9, <1>15 DEF LockSettings, t
<1> QED
  BY <1>6, <1>7, <1>8, <1>10, <1>11, <1>12, <1>13, <1>14, <1>15 DEF Step


\* A commit writes the rows of S: none that another transaction holds, none that
\* is gone, and none goes to the trash at a time that has been.
Touches(w, S) ==
  /\ IF tx[w].op = "create" THEN S = {tx[w].page} ELSE S \subseteq tx[w].own
  /\ \A q \in Pages \ S : rows'[q] = rows[q] /\ binned'[q] = binned[q]
  /\ \A q \in S \cap Pages :
       rows'[q].status # "unborn" /\ (tx[w].op # "create" => Exists(q))
  /\ \A q \in Pages : rows'[q].status = "trashed" =>
       \/ rows[q].status = "trashed" /\ binned'[q] = binned[q]
       \/ binned'[q] > clock

LEMMA KnowsKept ==
  ASSUME TreeInv, NEW w \in Writers, NEW v \in Writers \ {w}, NEW S, Touches(w, S),
         tx[w].pc # "idle", NEW t, tx[v] = t, tx'[v] = t
  PROVE  Knows(tx[v])'
<1>1. /\ Knows(t) /\ t.own \subseteq Pages /\ t.share \subseteq Pages
      /\ \A q \in t.own \cup t.share : rows[q].status # "unborn"
      /\ Checked(t) => t.page \in t.own
      /\ t.pc = "write" => t.found \subseteq t.own
      /\ \A q \in t.own \cup t.share : tx[w].op # "create" => q \notin tx[w].own
      /\ tx[w].op = "create" => tx[w].page \in Pages /\ rows[tx[w].page].status = "unborn"
  BY DEF TreeInv, Knows, Given, Placed, HeldInv, Locked, PageHeld, FoundHeld, Exclusive, Shared, NewPage, Creates
<1>2. \A q \in t.own \cup t.share : q \in Pages /\ rows'[q] = rows[q] /\ binned'[q] = binned[q]
  BY <1>1 DEF Touches
<1>3. \A q \in Pages : /\ rows[q].status # "unborn" => rows'[q].status # "unborn"
                       /\ rows[q].status # "unborn" /\ Exists(q)' => Exists(q)
  BY <1>1 DEF Touches, Exists
<1>5. Given(tx[v])' /\ Staged(tx[v])'
  BY <1>1 DEF Knows, Given, Staged
<1>6. Placed(tx[v])'
  <2>1. (Checked(t) => Exists(t.page) /\ (t.op = "restore" => rows[t.page].status = "trashed"))'
    BY <1>1, <1>2 DEF Knows, Placed, Exists, Checked
  <2>2. t.op = "create" /\ t.share # {} =>
          t.pc = "write" /\ t.share = {t.arg[1]} /\ t.above = PathOf(t.arg[1])'
    BY <1>1, <1>2 DEF Knows, Placed, PathOf
  <2>3. Carries(t) => Parent(t)' = Parent(t)
    BY <1>1, <1>2 DEF Carries, Checked, Parent
  <2>4. Carries(t) => /\ t.above = PathOf(Parent(t))'
                      /\ Parent(t)' # NoPage => Parent(t)' \in t.own \cup t.share
    BY <1>1, <1>2, <2>3 DEF Knows, Placed, PathOf
  <2>5. \A q \in t.share : rows'[q].status # "unborn"
    BY <1>1, <1>2
  <2> QED
    BY <2>1, <2>2, <2>4, <2>5 DEF Placed, Carries, Checked
<1>7. Found(tx[v])'
  <2>1. HasFound(t) => t.page \in t.found
    BY <1>1 DEF Knows, Found
  <2>2. ASSUME HasFound(t), t.pc = "write", NEW q \in t.found
        PROVE  q \in Below(t.page)'
    <3>1. q \in Below(t.page) /\ q \in t.own /\ t.page \in t.own
      BY <1>1, <2>2 DEF Knows, Found, HasFound, Checked, OnSubtree
    <3> QED
      BY <1>2, <3>1 DEF Below, Existing, Exists
  <2> QED
    BY <1>1, <2>1, <2>2 DEF Knows, Found, HasFound
<1>8. Recalls(tx[v])'
  <2> SUFFICES ASSUME HasFound(t), t.op = "restore"
               PROVE  /\ t.found \subseteq t.there
                      /\ t.pc = "write" => \A q \in t.found : rows'[q].trashed = rows'[t.page].trashed
                      /\ \A q \in t.there :
                           rows'[q].status = "trashed" /\ binned'[q] = binned'[t.page] => q \in t.found
    BY DEF Recalls, HasFound
  <2>1. /\ t.found \subseteq t.there
        /\ t.pc = "write" => \A q \in t.found : rows[q].trashed = rows[t.page].trashed
        /\ \A q \in t.there :
             rows[q].status = "trashed" /\ binned[q] = binned[t.page] => q \in t.found
    BY <1>1 DEF Knows, Recalls
  <2>2. t.page \in t.own /\ t.page \in Pages /\ t.there \subseteq Pages
    BY <1>1 DEF HasFound, OnSubtree, Checked, Knows, Given
  <2>3. binned[t.page] <= clock /\ binned'[t.page] = binned[t.page] /\ clock \in Nat /\ binned[t.page] \in Nat
    BY <1>2, <2>2 DEF TreeInv, Tree, Stamped, Typed
  <2>4. \A q \in t.there : rows'[q].status = "trashed" /\ binned'[q] = binned'[t.page] =>
                             rows[q].status = "trashed" /\ binned[q] = binned[t.page]
    BY <2>2, <2>3 DEF Touches
  <2> QED
    BY <1>1, <1>2, <2>1, <2>2, <2>4
<1>9. Readdresses(tx[v])'
  <2> SUFFICES ASSUME t.op = "pattern", t.pc \in {"lock", "write"}
               PROVE  Readdresses(t)'
    BY DEF Readdresses
  <2>1. t.pc = "write" => \A q \in t.found : q \in Existing'
    BY <1>1, <1>2 DEF Knows, Readdresses, Existing, Exists
  <2>2. \A q \in DOMAIN t.read : rows'[q].status # "unborn" /\ (Exists(q)' => Exists(q))
    BY <1>1, <1>3 DEF Knows, Readdresses
  <2> QED
    BY <1>1, <2>1, <2>2 DEF Knows, Readdresses
<1> QED
  BY <1>5, <1>6, <1>7, <1>8, <1>9 DEF Knows


LEMMA TreeEnds ==
  ASSUME TreeInv, HeldInv', NEW w \in Writers, NEW S, Touches(w, S), tx[w].pc # "idle",
         tx' = [tx EXCEPT ![w] = Idle], Tree'
  PROVE  TreeInv'
<1>1. tx'[w] = Idle /\ \A v \in Writers \ {w} : tx'[v] = tx[v]
  BY DEF TreeInv, HeldInv, Shapes
<1>2. /\ Idle.op = "create" /\ Idle.pc = "idle" /\ Idle.page = NoPage /\ Idle.above = <<>>
      /\ Idle.own = {} /\ Idle.found = {} /\ Idle.share = {} /\ Idle.there = {}
  BY DEF Idle, Tx
<1>3. Knows(tx[w])'
  BY <1>1, <1>2 DEF Knows, Given, Staged, Placed, Checked, Carries, Found, HasFound, Recalls, Readdresses,
                    Operations
<1>4. \A v \in Writers \ {w} : Knows(tx[v])'
  <2> TAKE v \in Writers \ {w}
  <2>1. \A t : tx[v] = t /\ tx'[v] = t => Knows(tx[v])'
    BY KnowsKept
  <2> QED
    BY <1>1, <2>1
<1>5. Shared'
  BY <1>1, <1>2 DEF TreeInv, Shared
<1> QED
  BY <1>3, <1>4, <1>5 DEF TreeInv

\* A row that may be written.
IsThere(r) == r.status \notin {"unborn", "deleted"}
Fine(r) ==
  /\ r \in Rows
  /\ IF IsThere(r) THEN r.path \in Paths ELSE r.address = NoAddress

\* What every commit keeps: the indexes and the keys see to it.
LEMMA RowsCommitted ==
  ASSUME TreeInv, Admitted(rows'), rows' = [q \in Pages |-> rows'[q]], UNCHANGED calls,
         NEW S \in SUBSET Pages, \A q \in Pages \ S : rows'[q] = rows[q],
         \A q \in S : Fine(rows'[q]),
         history' \subseteq history \cup Pages \X (Paths \cup Addresses)
  PROVE  /\ rows' \in [Pages -> Rows] /\ history' \subseteq Pages \X (Paths \cup Addresses)
         /\ calls' \in 0..MaxCalls /\ Rooted' /\ Addressed'
<1>2. \A q \in Pages : Fine(rows[q])
  BY DEF Fine, IsThere, TreeInv, Tree, Typed, Rooted, Addressed, Existing, Exists
<1>3. \A q \in Pages : Fine(rows'[q])
  BY <1>2
<1>4. rows' \in [Pages -> Rows]
  BY <1>3 DEF Fine
<1>5. \A q \in Pages : IsThere(rows'[q]) =>
        /\ rows'[q].address # NoAddress => rows'[q].status = "published"
        /\ rows'[q].parent = NoPage \/ (rows'[q].parent \in Pages /\ IsThere(rows'[rows'[q].parent]))
  BY DEF Admitted, IsThere
<1>6. Rooted'
  BY <1>3, <1>5 DEF Rooted, Existing, Exists, Fine, IsThere
<1>7. Addressed'
  BY <1>3, <1>5 DEF Addressed, Fine
<1> QED
  BY <1>4, <1>6, <1>7 DEF TreeInv, Tree, Typed

\* Paths follow the tree while both stay.
LEMMA PathsStay ==
  ASSUME Tree, Rooted', astray' = astray,
         \A q \in Pages : Exists(q)' =>
           Exists(q) /\ rows'[q].path = rows[q].path /\ rows'[q].parent = rows[q].parent
  PROVE  PathFollowsParent'
<1> SUFFICES ASSUME NEW p \in Existing', p \notin astray'
             PROVE  (rows[p].path = Append(PathOf(rows[p].parent), Slug(p)))'
  BY DEF PathFollowsParent
<1>1. p \in Pages /\ p \in Existing /\ p \notin astray
  BY DEF Existing
<1>2. rows[p].path = Append(PathOf(rows[p].parent), Last(rows[p].path))
  BY <1>1 DEF Tree, PathFollowsParent, Slug
<1>3. PICK q : q = rows'[p].parent
  OBVIOUS
<1>4. rows'[p].path = rows[p].path /\ q = rows[p].parent
  BY <1>1, <1>3 DEF Existing
<1>5. q = NoPage \/ (q \in Pages /\ Exists(q)')
  BY <1>3 DEF Rooted, Existing
<1>6. PathOf(q)' = PathOf(q)
  BY <1>5 DEF PathOf
<1>7. (PathOf(rows[p].parent))' = PathOf(q)'
  BY <1>3 DEF PathOf
<1> QED
  BY <1>2, <1>4, <1>6, <1>7 DEF Slug

\* Addresses are those of the pattern while they are given up or left alone.
LEMMA AddressesStay ==
  ASSUME Tree, pattern' = pattern,
         \A q \in Pages : Exists(q)' =>
           \/ rows'[q].address = NoAddress \/ q \in overtaken'
           \/ rows'[q].address = AddressOf(pattern, rows'[q].path)
           \/ /\ Exists(q) /\ q \notin overtaken
              /\ rows'[q].address = rows[q].address /\ rows'[q].path = rows[q].path
  PROVE  AddressFollowsPath'
  BY DEF Tree, AddressFollowsPath, Existing

\* What LeftIsRecorded says of a step.
Recorded ==
  \A p \in Existing :
    LET old == rows[p] new == rows'[p]
    IN /\ new.status # "deleted" /\ new.path # old.path => <<p, old.path>> \in history'
       /\ /\ old.address \notin {NoAddress, new.address} /\ p \notin overtaken \cup overtaken'
          /\ new.status = "deleted" \/ new.path = old.path
          => <<p, old.address>> \in history'

\* What a transaction that is about to write knows of its rows.
LEMMA AtWrite ==
  ASSUME TreeInv, NEW w \in Writers, tx[w].pc = "write"
  PROVE  LET t == tx[w]
         IN /\ Knows(t)
            /\ t.op \notin {"create", "pattern"} => t.page \in t.own /\ t.page \in Existing
            /\ t.found \subseteq t.own
            /\ t.op \in OnSubtree => t.page \in t.found /\ t.found \subseteq Below(t.page)
            /\ t.op = "pattern" => t.found \subseteq Existing
            /\ t.op = "create" => t.page \in Pages /\ rows[t.page].status = "unborn"
  BY DEF TreeInv, HeldInv, PageHeld, Locked, Checked, Existing, Knows, Placed, FoundHeld, Found, HasFound,
         OnSubtree, Readdresses, NewPage, Creates



LEMMA CreateTree ==
  ASSUME TreeInv, HeldInv', NEW w \in Writers, CreatePage(w)  PROVE TreeInv' /\ Recorded
<1> DEFINE t == tx[w]
           p == t.page
           q == t.arg[1]
           row == Row(q, Append(t.above, t.arg[2]), "draft", NoAddress, 1, 0)
           new == [x \in Pages |-> IF x \in {p} THEN row ELSE rows[x]]
<1>1. /\ Commit(w, "create", new, {})
      /\ astray' = astray \cup {x \in {p} : t.share = {} /\ t.above # PathOf(q)}
      /\ UNCHANGED <<pattern, clock, binned, overtaken>>
  BY DEF CreatePage, Rewritten
<1>2. /\ t.pc = "write" /\ t.op = "create" /\ rows' = new /\ history' = history
      /\ Admitted(rows') /\ UNCHANGED calls
      /\ tx' = [tx EXCEPT ![w] = Idle] /\ \A x \in Pages : Len(new[x].path) <= MaxDepth
  <2> HIDE DEF new
  <2> QED
    BY <1>1 DEF Commit, WithinDepth
<1>3. /\ p \in Pages /\ rows[p].status = "unborn" /\ q \in Pages \cup {NoPage} /\ q # p
      /\ t.arg[2] \in Slugs /\ t.above \in Seq(Slugs)
      /\ t.share # {} => t.above = PathOf(q)
  <2>1. Knows(t)
    BY <1>2, AtWrite
  <2>2. t.above \in Seq(Slugs)
    BY <2>1, PathIsSeq, EmptySeq DEF Knows, Given
  <2> QED
    BY <1>2, <2>1, <2>2, AtWrite DEF Knows, Given, Placed
<1>4. /\ row.parent = q /\ row.path = Append(t.above, t.arg[2]) /\ row.status = "draft"
      /\ row.address = NoAddress
  BY DEF Row
<1>5. \A x \in Pages \ {p} : rows'[x] = rows[x]
  BY <1>2
<1>6. rows'[p] = row
  BY <1>2, <1>3
<1>7. row.path \in Paths /\ row \in Rows /\ Last(row.path) = t.arg[2]
  <2>1. row.path \in Seq(Slugs) /\ Len(row.path) \in 1..MaxDepth /\ Last(row.path) = t.arg[2]
    <3>1. Len(new[p].path) <= MaxDepth /\ new[p] = row
      BY <1>2, <1>3
    <3> HIDE DEF new
    <3>2. /\ row.path \in Seq(Slugs) /\ Len(row.path) = Len(t.above) + 1 /\ Len(t.above) \in Nat
          /\ Last(row.path) = t.arg[2]
      BY <1>3, <1>4, AppendLast
    <3> QED
      BY <3>1, <3>2
  <2>2. row.path \in Paths
    BY <2>1, PathIsSeq
  <2> QED
    BY <1>3, <1>4, <2>1, <2>2, RowTyped DEF Addresses
<1>8. Fine(row)
  BY <1>4, <1>7 DEF Fine, IsThere
<1> HIDE DEF row
<1>9. /\ rows' \in [Pages -> Rows] /\ history' \subseteq Pages \X (Paths \cup Addresses)
      /\ calls' \in 0..MaxCalls /\ Rooted' /\ Addressed'
  <2>1. rows' = [x \in Pages |-> rows'[x]]
    BY <1>2
  <2>2. {p} \in SUBSET Pages
    BY <1>3
  <2> HIDE DEF new
  <2> QED
    BY <1>2, <1>5, <1>6, <1>8, <2>1, <2>2, RowsCommitted
<1> HIDE DEF new
<1>10. Stamped'
  BY <1>1, <1>4, <1>5, <1>6 DEF Stamped, TreeInv, Tree
<1>11. AddressFollowsPath'
  BY <1>1, <1>3, <1>4, <1>5, <1>6, AddressesStay DEF TreeInv, Exists
<1>12. PathFollowsParent'
  <2> SUFFICES ASSUME NEW x \in Existing', x \notin astray'
               PROVE  (rows[x].path = Append(PathOf(rows[x].parent), Slug(x)))'
    BY DEF PathFollowsParent
  <2>1. CASE x = p
    <3>1. PathOf(rows[x].parent)' = PathOf(q)
      BY <1>3, <1>4, <1>5, <1>6, <2>1 DEF PathOf
    <3>2. t.above = PathOf(q)
      BY <1>1, <1>3, <2>1
    <3> QED
      BY <1>4, <1>6, <1>7, <2>1, <3>1, <3>2 DEF Slug
  <2>2. CASE x # p
    <3>1. x \in Existing /\ x \notin astray /\ rows'[x] = rows[x] /\ rows[x].parent \in Existing \cup {NoPage}
      BY <1>1, <1>5, <2>2 DEF Existing, Exists, TreeInv, Tree, Rooted
    <3>2. PathOf(rows[x].parent)' = PathOf(rows[x].parent)
      BY <1>3, <1>5, <3>1 DEF PathOf, Existing, Exists
    <3> QED
      BY <3>1, <3>2 DEF TreeInv, Tree, PathFollowsParent, Slug
  <2> QED
    BY <2>1, <2>2
<1>13. Tree'
  BY <1>1, <1>3, <1>9, <1>10, <1>11, <1>12 DEF Tree, Typed, TreeInv
<1>14. Touches(w, {p})
  BY <1>1, <1>2, <1>4, <1>5, <1>6 DEF Touches
<1>15. Recorded
  BY <1>3, <1>5 DEF Recorded, Existing, Exists
<1> QED
  BY <1>2, <1>13, <1>14, <1>15, TreeEnds


\* A commit that leaves each page where it is, or deletes it.
InPlace(w, S) ==
  /\ tx[w].pc = "write" /\ tx[w].op # "create" /\ tx' = [tx EXCEPT ![w] = Idle]
  /\ S \subseteq tx[w].own /\ S \subseteq Existing
  /\ Admitted(rows') /\ UNCHANGED <<calls, astray>>
  /\ rows' = [q \in Pages |-> rows'[q]] /\ \A q \in Pages \ S : rows'[q] = rows[q]
  /\ \A q \in S : /\ Fine(rows'[q]) /\ rows'[q].status # "unborn"
                  /\ IsThere(rows'[q]) =>
                       rows'[q].path = rows[q].path /\ rows'[q].parent = rows[q].parent

\* The stamps of the trash.
Stamps(S) ==
  /\ clock' \in Nat /\ clock <= clock' /\ binned' \in [Pages -> Nat]
  /\ \A q \in Pages \ S : binned'[q] = binned[q]
  /\ \A q \in S : /\ binned'[q] <= clock'
                  /\ rows'[q].status = "trashed" =>
                       /\ rows'[q].trashed = binned'[q]
                       /\ \/ rows[q].status = "trashed" /\ binned'[q] = binned[q]
                          \/ binned'[q] > clock

\* The history takes the addresses that are given up.
Leaves(S) ==
  /\ history \subseteq history' /\ history' \subseteq history \cup Pages \X (Paths \cup Addresses)
  /\ \A q \in S :
       rows[q].address \notin {NoAddress, rows'[q].address} /\ q \notin overtaken \cup overtaken'
         => <<q, rows[q].address>> \in history'

LEMMA InPlaceTree ==
  ASSUME TreeInv, HeldInv', NEW w \in Writers, NEW S, InPlace(w, S), Stamps(S), Leaves(S),
         pattern' \in Patterns, overtaken' \subseteq Pages, AddressFollowsPath'
  PROVE  TreeInv' /\ Recorded
<1>1. S \in SUBSET Pages /\ \A q \in S : q \in Pages /\ Exists(q)
  BY DEF InPlace, Existing
<1>2. /\ rows' \in [Pages -> Rows] /\ history' \subseteq Pages \X (Paths \cup Addresses)
      /\ calls' \in 0..MaxCalls /\ Rooted' /\ Addressed'
  BY <1>1, RowsCommitted DEF InPlace, Leaves
<1>3. Stamped'
  <2> SUFFICES ASSUME NEW q \in Pages
               PROVE  /\ rows'[q].status = "trashed" => rows'[q].trashed = binned'[q]
                      /\ binned'[q] <= clock'
    BY DEF Stamped
  <2>1. CASE q \in S
    BY <2>1 DEF Stamps
  <2>2. CASE q \notin S
    <3>1. rows'[q] = rows[q] /\ binned'[q] = binned[q]
      BY <2>2 DEF InPlace, Stamps
    <3>2. binned[q] \in Nat /\ clock \in Nat /\ binned[q] <= clock
      BY DEF TreeInv, Tree, Typed, Stamped
    <3> QED
      BY <3>1, <3>2 DEF TreeInv, Tree, Stamped, Stamps
  <2> QED
    BY <2>1, <2>2
<1>4. PathFollowsParent'
  <2>1. \A q \in Pages : Exists(q)' =>
          Exists(q) /\ rows'[q].path = rows[q].path /\ rows'[q].parent = rows[q].parent
    BY <1>1 DEF InPlace, Exists, IsThere
  <2> QED
    BY <1>2, <2>1, PathsStay DEF TreeInv, InPlace
<1>5. Tree'
  BY <1>2, <1>3, <1>4 DEF Tree, Typed, TreeInv, InPlace, Stamps
<1>6. Touches(w, S)
  BY <1>1 DEF Touches, InPlace, Stamps
<1>7. Recorded
  <2> SUFFICES ASSUME NEW p \in Existing
               PROVE  LET old == rows[p] new == rows'[p]
                      IN /\ new.status # "deleted" /\ new.path # old.path => <<p, old.path>> \in history'
                         /\ /\ old.address \notin {NoAddress, new.address} /\ p \notin overtaken \cup overtaken'
                            /\ new.status = "deleted" \/ new.path = old.path
                            => <<p, old.address>> \in history'
    BY DEF Recorded
  <2>1. CASE p \in S
    BY <2>1 DEF InPlace, Leaves, IsThere
  <2>2. CASE p \notin S
    BY <2>2 DEF InPlace, Existing
  <2> QED
    BY <2>1, <2>2
<1> QED
  BY <1>5, <1>6, <1>7, TreeEnds DEF InPlace

LEMMA AddressesTyped ==
  ASSUME TreeInv, NEW S \in SUBSET Pages
  PROVE  AddressesOf(S) \subseteq Pages \X (Paths \cup Addresses)
  BY DEF AddressesOf, TreeInv, Tree, Typed, Rows

\* What is there is a row of the table.
LEMMA ThereTyped ==
  ASSUME TreeInv, NEW q \in Existing
  PROVE  /\ q \in Pages /\ rows[q].parent \in Pages \cup {NoPage} /\ rows[q].path \in Paths
         /\ rows[q].address \in Addresses /\ rows[q].version \in Nat /\ rows[q].trashed \in Nat
         /\ rows[q].status \in {"draft", "scheduled", "published", "trashed"}
  BY DEF TreeInv, Tree, Typed, Rooted, Existing, Exists, Rows

\* What a row with a page's path and parent is.
LEMMA SameplaceFine ==
  ASSUME TreeInv, NEW q \in Existing, NEW c \in {"draft", "scheduled", "published", "trashed"},
         NEW d \in Addresses, NEW v \in Nat, NEW e \in Nat
  PROVE  LET r == Row(rows[q].parent, rows[q].path, c, d, v, e)
         IN /\ Fine(r) /\ r.status # "unborn" /\ r.path = rows[q].path /\ r.parent = rows[q].parent
            /\ r.status = c /\ r.address = d /\ r.trashed = e
<1>1. Row(rows[q].parent, rows[q].path, c, d, v, e) \in Rows
  BY ThereTyped, RowTyped
<1> QED
  BY <1>1, ThereTyped DEF Fine, IsThere, Row

LEMMA TrashTree ==
  ASSUME TreeInv, HeldInv', NEW w \in Writers, TrashPage(w)  PROVE TreeInv' /\ Recorded
<1> DEFINE t == tx[w]
           S == ToTrash(t)
           row(q) == Row(rows[q].parent, rows[q].path, "trashed", NoAddress,
                         rows[q].version + 1, clock + 1)
           new == [q \in Pages |-> IF q \in S THEN row(q) ELSE rows[q]]
<1>1. /\ Commit(w, "trash", new, AddressesOf(S)) /\ clock' = clock + 1
      /\ binned' = [q \in Pages |-> IF q \in S THEN clock' ELSE binned[q]]
      /\ UNCHANGED <<pattern, astray, overtaken>>
  BY DEF TrashPage, Rewritten, ToTrash
<1> HIDE DEF row
<1>2. /\ t.pc = "write" /\ t.op = "trash" /\ rows' = new /\ history' = history \cup AddressesOf(S)
      /\ Admitted(rows') /\ UNCHANGED calls /\ tx' = [tx EXCEPT ![w] = Idle]
  <2> HIDE DEF new
  <2> QED
    BY <1>1 DEF Commit
<1>3. S \subseteq t.own /\ S \subseteq Existing
  BY <1>2, AtWrite DEF ToTrash, OnSubtree, Below
<1> HIDE DEF S, new
<1>4. S \in SUBSET Pages /\ clock \in Nat /\ binned \in [Pages -> Nat] /\ pattern \in Patterns /\ overtaken \subseteq Pages
  BY <1>3 DEF Existing, TreeInv, Tree, Typed
<1>5. ASSUME NEW q \in S
      PROVE  /\ Fine(row(q)) /\ row(q).status = "trashed" /\ row(q).path = rows[q].path
             /\ row(q).parent = rows[q].parent /\ row(q).address = NoAddress /\ row(q).trashed = clock + 1
  <2>1. q \in Existing /\ rows[q].version + 1 \in Nat /\ clock + 1 \in Nat /\ NoAddress \in Addresses
    BY <1>3, <1>4, ThereTyped DEF Addresses
  <2> QED
    BY <2>1, SameplaceFine DEF row
<1>6. /\ rows' = [q \in Pages |-> rows'[q]]
      /\ \A q \in Pages \ S : rows'[q] = rows[q] /\ binned'[q] = binned[q]
      /\ \A q \in S : rows'[q] = row(q) /\ binned'[q] = clock + 1
  BY <1>1, <1>2, <1>4 DEF new
<1>7. InPlace(w, S)
  BY <1>1, <1>2, <1>3, <1>5, <1>6 DEF InPlace
<1>8. Stamps(S)
  <2>1. clock' = clock + 1 /\ clock' \in Nat /\ clock <= clock' /\ clock' > clock
    BY <1>1, <1>4
  <2>2. binned' \in [Pages -> Nat]
    BY <1>1, <1>4, <2>1
  <2> QED
    BY <1>5, <1>6, <2>1, <2>2 DEF Stamps
<1>9. Leaves(S)
  <2>1. AddressesOf(S) \subseteq Pages \X (Paths \cup Addresses)
    BY <1>4, AddressesTyped
  <2>2. \A q \in S : rows[q].address # NoAddress => <<q, rows[q].address>> \in AddressesOf(S)
    BY DEF AddressesOf
  <2> QED
    BY <1>2, <2>1, <2>2 DEF Leaves
<1>10. AddressFollowsPath'
  BY <1>1, <1>5, <1>6, AddressesStay DEF TreeInv, Exists
<1> QED
  BY <1>1, <1>4, <1>7, <1>8, <1>9, <1>10, InPlaceTree


LEMMA RestoreTree ==
  ASSUME TreeInv, HeldInv', NEW w \in Writers, RestorePage(w)  PROVE TreeInv' /\ Recorded
<1> DEFINE t == tx[w]
           S == t.found
           row(q) == Row(rows[q].parent, rows[q].path, "draft", rows[q].address, rows[q].version + 1, 0)
           new == [q \in Pages |-> IF q \in S THEN row(q) ELSE rows[q]]
<1>1. Commit(w, "restore", new, {}) /\ UNCHANGED <<pattern, clock, binned, astray, overtaken>>
  BY DEF RestorePage, Rewritten
<1> HIDE DEF row
<1>2. /\ t.pc = "write" /\ t.op = "restore" /\ rows' = new /\ history' = history
      /\ Admitted(rows') /\ UNCHANGED calls /\ tx' = [tx EXCEPT ![w] = Idle]
  <2> HIDE DEF new
  <2> QED
    BY <1>1 DEF Commit
<1>3. S \subseteq t.own /\ S \subseteq Existing
  BY <1>2, AtWrite DEF OnSubtree, Below
<1> HIDE DEF S, new
<1>4. /\ S \in SUBSET Pages /\ clock \in Nat /\ binned \in [Pages -> Nat] /\ pattern \in Patterns
      /\ overtaken \subseteq Pages /\ \A q \in S : binned[q] <= clock
  BY <1>3 DEF Existing, TreeInv, Tree, Typed, Stamped
<1>5. ASSUME NEW q \in S
      PROVE  /\ Fine(row(q)) /\ row(q).status = "draft" /\ row(q).path = rows[q].path
             /\ row(q).parent = rows[q].parent /\ row(q).address = rows[q].address
  <2>1. q \in Existing /\ rows[q].version + 1 \in Nat /\ 0 \in Nat /\ rows[q].address \in Addresses
    BY <1>3, ThereTyped
  <2> QED
    BY <2>1, SameplaceFine DEF row
<1>6. /\ rows' = [q \in Pages |-> rows'[q]]
      /\ \A q \in Pages \ S : rows'[q] = rows[q]
      /\ \A q \in S : rows'[q] = row(q)
  BY <1>2, <1>4 DEF new
<1>7. InPlace(w, S)
  BY <1>1, <1>2, <1>3, <1>5, <1>6 DEF InPlace
<1>8. Stamps(S) /\ Leaves(S)
  BY <1>1, <1>2, <1>4, <1>5, <1>6 DEF Stamps, Leaves
<1>9. AddressFollowsPath'
  <2>1. \A q \in Pages : Exists(q)' =>
          Exists(q) /\ rows'[q].address = rows[q].address /\ rows'[q].path = rows[q].path
    BY <1>3, <1>5, <1>6 DEF Exists, Existing
  <2> QED
    BY <1>1, <2>1, AddressesStay DEF TreeInv
<1> QED
  BY <1>1, <1>4, <1>7, <1>8, <1>9, InPlaceTree

LEMMA DeleteTree ==
  ASSUME TreeInv, HeldInv', NEW w \in Writers, DeletePage(w)  PROVE TreeInv' /\ Recorded
<1> DEFINE t == tx[w]
           S == t.found
           row == [Unborn EXCEPT !.status = "deleted"]
           new == [q \in Pages |-> IF q \in S THEN row ELSE rows[q]]
<1>1. Commit(w, "delete", new, AddressesOf(S)) /\ UNCHANGED <<pattern, clock, binned, astray, overtaken>>
  BY DEF DeletePage, Rewritten
<1>5. Fine(row) /\ row.status = "deleted"
  <2>1. row = Row(NoPage, <<>>, "deleted", NoAddress, 0, 0)
    BY DEF Unborn, Row
  <2> HIDE DEF row
  <2>2. row \in Rows
    BY <2>1, RowTyped DEF Addresses
  <2> QED
    BY <2>1, <2>2 DEF Fine, IsThere, Row
<1> HIDE DEF row
<1>2. /\ t.pc = "write" /\ t.op = "delete" /\ rows' = new /\ history' = history \cup AddressesOf(S)
      /\ Admitted(rows') /\ UNCHANGED calls /\ tx' = [tx EXCEPT ![w] = Idle]
  <2> HIDE DEF new
  <2> QED
    BY <1>1 DEF Commit
<1>3. S \subseteq t.own /\ S \subseteq Existing
  BY <1>2, AtWrite DEF OnSubtree, Below
<1> HIDE DEF S, new
<1>4. /\ S \in SUBSET Pages /\ clock \in Nat /\ binned \in [Pages -> Nat] /\ pattern \in Patterns
      /\ overtaken \subseteq Pages /\ \A q \in S : binned[q] <= clock
  BY <1>3 DEF Existing, TreeInv, Tree, Typed, Stamped
<1>6. /\ rows' = [q \in Pages |-> rows'[q]]
      /\ \A q \in Pages \ S : rows'[q] = rows[q]
      /\ \A q \in S : rows'[q] = row
  BY <1>2, <1>4 DEF new
<1>7. InPlace(w, S)
  BY <1>1, <1>2, <1>3, <1>5, <1>6 DEF InPlace, IsThere
<1>8. Stamps(S)
  BY <1>1, <1>4, <1>5, <1>6 DEF Stamps
<1>9. Leaves(S)
  <2>1. AddressesOf(S) \subseteq Pages \X (Paths \cup Addresses)
    BY <1>4, AddressesTyped
  <2>2. \A q \in S : rows[q].address # NoAddress => <<q, rows[q].address>> \in AddressesOf(S)
    BY DEF AddressesOf
  <2> QED
    BY <1>2, <2>1, <2>2 DEF Leaves
<1>10. AddressFollowsPath'
  <2>1. \A q \in Pages : Exists(q)' =>
          Exists(q) /\ rows'[q].address = rows[q].address /\ rows'[q].path = rows[q].path
    BY <1>3, <1>5, <1>6 DEF Exists, Existing
  <2> QED
    BY <1>1, <2>1, AddressesStay DEF TreeInv
<1> QED
  BY <1>1, <1>4, <1>7, <1>8, <1>9, <1>10, InPlaceTree

\* The address is kept, given up, or that of some pattern.
Readdressed(p, address, gone) ==
  \/ gone = {} /\ address = rows[p].address /\ overtaken' = overtaken
  \/ gone = AddressesOf({p}) /\ address = NoAddress /\ overtaken' = overtaken
  \/ /\ gone = {} /\ \E r : address = AddressOf(r, rows[p].path)
                        /\ overtaken' = IF r = pattern THEN overtaken \ {p} ELSE overtaken \cup {p}

\* Scheduling, unscheduling and unpublishing, and publishing.
LEMMA StatusTree ==
  ASSUME TreeInv, HeldInv', NEW w \in Writers, NEW op, NEW status, NEW address, NEW gone,
         SetStatus(w, op, status, address, gone), op \notin {"create", "pattern"},
         status \in {"draft", "scheduled", "published"}, address \in Addresses,
         Readdressed(tx[w].page, address, gone)
  PROVE  TreeInv' /\ Recorded
<1> DEFINE t == tx[w]
           p == t.page
           row == Row(rows[p].parent, rows[p].path, status, address, rows[p].version + 1, rows[p].trashed)
           new == [q \in Pages |-> IF q \in {p} THEN row ELSE rows[q]]
<1>1. Commit(w, op, new, gone) /\ UNCHANGED <<pattern, clock, binned, astray>>
  <2>1. Rewritten({p}, LAMBDA q : Row(rows[q].parent, rows[q].path, status, address,
                                     rows[q].version + 1, rows[q].trashed)) = new
    BY DEF Rewritten
  <2> QED
    BY <2>1 DEF SetStatus
<1> HIDE DEF row
<1>2. /\ t.pc = "write" /\ t.op = op /\ rows' = new /\ history' = history \cup gone
      /\ Admitted(rows') /\ UNCHANGED calls /\ tx' = [tx EXCEPT ![w] = Idle]
  <2> HIDE DEF new
  <2> QED
    BY <1>1 DEF Commit
<1>3. p \in t.own /\ p \in Existing
  BY <1>2, AtWrite
<1> HIDE DEF new
<1>4. /\ p \in Pages /\ clock \in Nat /\ binned \in [Pages -> Nat] /\ pattern \in Patterns
      /\ overtaken \subseteq Pages /\ binned[p] <= clock
  BY <1>3 DEF Existing, TreeInv, Tree, Typed, Stamped
<1>5. /\ Fine(row) /\ row.status = status /\ row.path = rows[p].path
      /\ row.parent = rows[p].parent /\ row.address = address
  <2>1. rows[p].version + 1 \in Nat /\ rows[p].trashed \in Nat
    BY <1>3, ThereTyped
  <2>2. status \in {"draft", "scheduled", "published", "trashed"}
    OBVIOUS
  <2> HIDE DEF p
  <2> QED
    BY <1>3, <2>1, <2>2, SameplaceFine DEF row
<1>6. /\ rows' = [q \in Pages |-> rows'[q]]
      /\ \A q \in Pages \ {p} : rows'[q] = rows[q]
      /\ rows'[p] = row
  BY <1>2, <1>4 DEF new
<1>7. InPlace(w, {p})
  BY <1>1, <1>2, <1>3, <1>5, <1>6 DEF InPlace
<1>8. Stamps({p})
  BY <1>1, <1>4, <1>5, <1>6 DEF Stamps
<1>9. overtaken' \subseteq Pages
  BY <1>4 DEF Readdressed
<1>10. Leaves({p})
  <2>1. gone \subseteq Pages \X (Paths \cup Addresses)
    BY <1>4, AddressesTyped DEF Readdressed
  <2>2. ASSUME rows[p].address \notin {NoAddress, address}, p \notin overtaken \cup overtaken'
        PROVE  <<p, rows[p].address>> \in gone
    <3>1. rows[p].address = AddressOf(pattern, rows[p].path)
      BY <1>3, <2>2 DEF TreeInv, Tree, AddressFollowsPath
    <3>2. gone = AddressesOf({p})
      BY <2>2, <3>1 DEF Readdressed
    <3> QED
      BY <2>2, <3>2 DEF AddressesOf
  <2> QED
    BY <1>2, <1>5, <1>6, <2>1, <2>2 DEF Leaves
<1>11. AddressFollowsPath'
  <2>1. \/ address = NoAddress \/ p \in overtaken' \/ address = AddressOf(pattern, rows[p].path)
        \/ p \notin overtaken /\ address = rows[p].address
    BY DEF Readdressed
  <2>2. \A q \in Pages \ {p} : q \in overtaken => q \in overtaken'
    BY DEF Readdressed
  <2>3. \A q \in Pages \ {p} : Exists(q)' => Exists(q)
    BY <1>6 DEF Exists
  <2> QED
    BY <1>1, <1>3, <1>5, <1>6, <2>1, <2>2, <2>3, AddressesStay DEF TreeInv, Existing
<1> QED
  BY <1>1, <1>4, <1>7, <1>8, <1>9, <1>10, <1>11, InPlaceTree


LEMMA PatternTree ==
  ASSUME TreeInv, HeldInv', NEW w \in Writers, SetPageUrlPattern(w)  PROVE TreeInv' /\ Recorded
<1> DEFINE t == tx[w]
           S == t.found
           row(q) == Row(rows[q].parent, rows[q].path, rows[q].status,
                         AddressOf(t.arg, t.read[q].path), rows[q].version, rows[q].trashed)
           new == [q \in Pages |-> IF q \in S THEN row(q) ELSE rows[q]]
           given == {<<q, t.read[q].address>> : q \in S}
           asRead == {q \in DOMAIN t.read : /\ rows[q].path = t.read[q].path
                                            /\ rows[q].address = t.read[q].address}
<1>1. /\ Commit(w, "pattern", new, {h \in given : h[2] # NoAddress}) /\ pattern' = t.arg
      /\ overtaken' = {q \in Existing : rows[q].status = "published"} \ asRead
      /\ UNCHANGED <<clock, binned, astray>>
  BY DEF SetPageUrlPattern, Rewritten
<1> HIDE DEF row
<1>2. /\ t.pc = "write" /\ t.op = "pattern" /\ rows' = new
      /\ history' = history \cup {h \in given : h[2] # NoAddress}
      /\ Admitted(rows') /\ UNCHANGED calls /\ tx' = [tx EXCEPT ![w] = Idle]
  <2> HIDE DEF new
  <2> QED
    BY <1>1 DEF Commit
<1>3. /\ S \subseteq t.own /\ S \subseteq Existing /\ S \subseteq DOMAIN t.read /\ t.arg \in Patterns
      /\ \A q \in DOMAIN t.read :
           /\ t.read[q].path \in Paths /\ t.read[q].address \in Addresses
           /\ AddressOf(t.arg, t.read[q].path) # t.read[q].address /\ Exists(q) => q \in S
  BY <1>2, AtWrite DEF Knows, Given, Readdresses
<1> HIDE DEF S, new
<1>4. /\ S \in SUBSET Pages /\ clock \in Nat /\ binned \in [Pages -> Nat]
      /\ \A q \in S : binned[q] <= clock
  BY <1>3 DEF Existing, TreeInv, Tree, Typed, Stamped
<1>5. ASSUME NEW q \in S
      PROVE  /\ Fine(row(q)) /\ row(q).status = rows[q].status /\ row(q).path = rows[q].path
             /\ row(q).status # "unborn" /\ row(q).parent = rows[q].parent
             /\ row(q).address = AddressOf(t.arg, t.read[q].path) /\ row(q).trashed = rows[q].trashed
  <2>1. /\ q \in Existing /\ rows[q].version \in Nat /\ rows[q].trashed \in Nat
        /\ rows[q].status \in {"draft", "scheduled", "published", "trashed"}
    BY <1>3, ThereTyped
  <2>2. AddressOf(t.arg, t.read[q].path) \in Addresses
    BY <1>3 DEF AddressOf, Addresses
  <2> QED
    BY <2>1, <2>2, SameplaceFine DEF row
<1>6. /\ rows' = [q \in Pages |-> rows'[q]]
      /\ \A q \in Pages \ S : rows'[q] = rows[q]
      /\ \A q \in S : rows'[q] = row(q)
  BY <1>2, <1>4 DEF new
<1>7. InPlace(w, S)
  BY <1>1, <1>2, <1>3, <1>5, <1>6 DEF InPlace
<1>8. Stamps(S)
  <2>1. \A q \in S : rows[q].status = "trashed" => rows[q].trashed = binned[q]
    BY <1>4 DEF TreeInv, Tree, Stamped
  <2> QED
    BY <1>1, <1>4, <1>5, <1>6, <2>1 DEF Stamps
<1>9. \A q \in Existing : rows[q].address # NoAddress => rows[q].status = "published"
  BY DEF TreeInv, Tree, Addressed, Existing
<1>10. Leaves(S)
  <2>1. given \subseteq Pages \X (Paths \cup Addresses)
    BY <1>3, <1>4
  <2>2. ASSUME NEW q \in S, rows[q].address # NoAddress, q \notin overtaken'
        PROVE  <<q, rows[q].address>> \in history'
    <3>1. q \in asRead
      BY <1>1, <1>3, <1>9, <2>2
    <3>2. <<q, t.read[q].address>> \in given /\ t.read[q].address = rows[q].address
      BY <3>1
    <3> QED
      BY <1>2, <2>2, <3>2
  <2> HIDE DEF given
  <2> QED
    BY <1>2, <2>1, <2>2 DEF Leaves
<1>11. AddressFollowsPath'
  <2> SUFFICES ASSUME NEW q \in Existing', q \notin overtaken', rows'[q].address # NoAddress
               PROVE  rows'[q].address = AddressOf(pattern', rows'[q].path)
    BY DEF AddressFollowsPath
  <2>1. q \in Pages /\ q \in Existing
    BY <1>3, <1>6 DEF Existing, Exists
  <2>2. CASE q \in S
    <3>1. rows[q].status = "published"
      <4>1. rows'[q].status = "published"
        BY <1>2, <2>1 DEF Admitted, Existing, Exists
      <4> QED
        BY <1>5, <1>6, <2>2, <4>1
    <3>2. q \in asRead
      BY <1>1, <2>1, <3>1
    <3> QED
      BY <1>1, <1>5, <1>6, <2>2, <3>2
  <2>3. CASE q \notin S
    <3>1. rows'[q] = rows[q] /\ q \in asRead
      BY <1>1, <1>6, <1>9, <2>1, <2>3
    <3>2. AddressOf(t.arg, t.read[q].path) = t.read[q].address
      BY <1>3, <2>1, <2>3, <3>1 DEF Existing
    <3> QED
      BY <1>1, <3>1, <3>2
  <2> QED
    BY <2>2, <2>3
<1>12. pattern' \in Patterns /\ overtaken' \subseteq Pages
  BY <1>1, <1>3 DEF Existing
<1> QED
  BY <1>7, <1>8, <1>10, <1>11, <1>12, InPlaceTree


LEMMA LastIsSlug ==
  ASSUME NEW x \in Paths  PROVE Last(x) \in Slugs
<1>1. x \in Seq(Slugs) /\ Len(x) \in 1..MaxDepth /\ Len(x) \in 1..Len(x)
  BY PathIsSeq
<1> QED
  BY <1>1, ElementOfSeq DEF Last

\* A rename and a move: whoever is carried with its parent stays below it.
LEMMA CarryTree ==
  ASSUME TreeInv, HeldInv', NEW w \in Writers, NEW op \in {"rename", "move"}, NEW s \in Slugs,
         NEW q, q = Parent(tx[w]), CarryAlong(w, op, q, Append(tx[w].above, s))
  PROVE  TreeInv' /\ Recorded
<1> DEFINE t == tx[w]
           p == t.page
           S == t.found
           prefix == Append(t.above, s)
           path(x) == Suffixed(rows[p].path, prefix, rows[x].path)
           row(x) == Row(IF x = p THEN q ELSE rows[x].parent, path(x), rows[x].status,
                         IF path(x) = rows[x].path THEN rows[x].address ELSE NoAddress,
                         rows[x].version + 1, rows[x].trashed)
           new == [x \in Pages |-> IF x \in S THEN row(x) ELSE rows[x]]
           gone == {<<x, rows[x].path>> : x \in {r \in S : path(r) # rows[r].path}}
<1>1. /\ Commit(w, op, new, gone) /\ UNCHANGED <<pattern, clock, binned, overtaken>>
      /\ astray' = (astray \ {p}) \cup Parted(t) \cup {x \in {p} : q \in S}
  <2>1. \A x : Rebased(t, prefix, x) = path(x)
    BY DEF Rebased, Suffixed
  <2>2. Rewritten(S, LAMBDA x : Carried(t, q, prefix, x)) = new
    BY <2>1 DEF Rewritten, Carried
  <2>3. PathsLeft(t, prefix) = gone
    BY <2>1 DEF PathsLeft
  <2> HIDE DEF new, gone
  <2> QED
    BY <2>2, <2>3 DEF CarryAlong
<1>2. /\ t.pc = "write" /\ t.op = op /\ rows' = new /\ history' = history \cup gone
      /\ Admitted(rows') /\ UNCHANGED calls /\ tx' = [tx EXCEPT ![w] = Idle]
      /\ \A x \in Pages : Len(new[x].path) <= MaxDepth
  <2> HIDE DEF new, gone
  <2> QED
    BY <1>1 DEF Commit, WithinDepth
<1>3. /\ S \subseteq t.own /\ S \subseteq Existing /\ p \in S /\ t.there = S
      /\ \A x \in S : IsPrefix(rows[p].path, rows[x].path)
  BY <1>2, AtWrite DEF OnSubtree, Below, Knows, Found, HasFound
<1>4. q \in Pages \cup {NoPage} /\ t.above = PathOf(q)
  <2>1. t.op = "move" => t.arg \in Pages \cup {NoPage}
    BY DEF TreeInv, HeldInv, Asked
  <2>2. rows[p].parent \in Pages \cup {NoPage}
    BY <1>3, ThereTyped
  <2>3. Knows(t)
    BY <1>2, AtWrite
  <2> QED
    BY <1>2, <2>1, <2>2, <2>3 DEF Parent, Knows, Placed, Carries
<1>5. /\ prefix \in Seq(Slugs) /\ Len(prefix) \in Nat \ {0} /\ Last(prefix) = s
      /\ prefix = Append(PathOf(q), s)
  <2>1. Knows(t)
    BY <1>2, AtWrite
  <2>2. t.above \in Seq(Slugs)
    BY <2>1, PathIsSeq, EmptySeq DEF Knows, Given
  <2> QED
    BY <1>4, <2>2, AppendLast
<1> HIDE DEF prefix
<1>6. \A x \in S : /\ x \in Pages /\ rows[x].path \in Seq(Slugs) /\ Len(rows[x].path) \in Nat
                   /\ Len(rows[p].path) <= Len(rows[x].path)
  <2> TAKE x \in S
  <2>1. x \in Pages /\ rows[x].path \in Paths
    BY <1>3, ThereTyped
  <2> QED
    BY <1>3, <2>1, PathIsSeq DEF IsPrefix
<1>7. \A x \in S : path(x) \in Seq(Slugs) /\ Len(path(x)) >= Len(prefix)
  BY <1>3, <1>5, <1>6, SuffixedIsSeq
<1>8. path(p) = prefix
  BY <1>3, <1>5, <1>6, SuffixedSelf
<1> HIDE DEF S
<1>9. S \in SUBSET Pages /\ \A x \in S : new[x] = row(x)
  BY <1>3 DEF Existing
<1>10. ASSUME NEW x \in S
       PROVE  /\ row(x).path = path(x) /\ row(x).status = rows[x].status /\ row(x).trashed = rows[x].trashed
              /\ row(x).address = IF path(x) = rows[x].path THEN rows[x].address ELSE NoAddress
              /\ row(x).parent = IF x = p THEN q ELSE rows[x].parent
  BY DEF Row
<1>11. \A x \in S : path(x) \in Paths
  <2> TAKE x \in S
  <2>1. Len(path(x)) <= MaxDepth /\ path(x) \in Seq(Slugs) /\ Len(path(x)) >= Len(prefix)
    <3>1. Len(new[x].path) <= MaxDepth /\ new[x] = row(x) /\ row(x).path = path(x)
      BY <1>2, <1>9, <1>10
    <3> HIDE DEF new, row, path
    <3> QED
      BY <1>7, <3>1
  <2> HIDE DEF path
  <2>2. Len(path(x)) \in Nat
    BY <2>1, LenProperties
  <2> QED
    BY <1>5, <2>1, <2>2, PathIsSeq
<1> HIDE DEF path
<1>12. ASSUME NEW x \in S  PROVE Fine(row(x)) /\ row(x).status # "unborn"
  <2> DEFINE a == IF x = p THEN q ELSE rows[x].parent
             d == IF path(x) = rows[x].path THEN rows[x].address ELSE NoAddress
  <2>1. /\ x \in Existing /\ rows[x].version + 1 \in Nat /\ rows[x].trashed \in Nat
        /\ rows[x].status \in {"draft", "scheduled", "published", "trashed"}
        /\ rows[x].address \in Addresses /\ rows[x].parent \in Pages \cup {NoPage}
    BY <1>3, ThereTyped
  <2>2. a \in Pages \cup {NoPage} /\ d \in Addresses
    BY <1>4, <2>1 DEF Addresses
  <2>3. row(x) = Row(a, path(x), rows[x].status, d, rows[x].version + 1, rows[x].trashed)
    OBVIOUS
  <2> HIDE DEF a, d, row
  <2>4. row(x) \in Rows
    BY <1>11, <2>1, <2>2, <2>3, RowTyped
  <2> QED
    BY <1>10, <1>11, <2>1, <2>4 DEF Fine, IsThere
<1> HIDE DEF row
<1>13. /\ rows' = [x \in Pages |-> rows'[x]]
       /\ \A x \in Pages \ S : rows'[x] = rows[x]
       /\ \A x \in S : rows'[x] = row(x)
  BY <1>2, <1>9
<1>14. gone \subseteq Pages \X (Paths \cup Addresses)
  BY <1>3, <1>9, ThereTyped
<1>15. \A x \in S : path(x) # rows[x].path => <<x, rows[x].path>> \in history'
  BY <1>2
<1> HIDE DEF new, gone
<1>16. /\ rows' \in [Pages -> Rows] /\ history' \subseteq Pages \X (Paths \cup Addresses)
       /\ calls' \in 0..MaxCalls /\ Rooted' /\ Addressed'
  BY <1>2, <1>9, <1>12, <1>13, <1>14, RowsCommitted
<1>17. \A x \in Pages : /\ rows'[x].status = rows[x].status /\ rows'[x].trashed = rows[x].trashed
                        /\ Exists(x)' <=> Exists(x)
  BY <1>10, <1>13 DEF Exists
<1>18. Stamped'
  BY <1>1, <1>17 DEF Stamped, TreeInv, Tree
<1>19. AddressFollowsPath'
  <2>1. \A x \in Pages : \/ rows'[x].address = NoAddress
                         \/ rows'[x].address = rows[x].address /\ rows'[x].path = rows[x].path
    BY <1>10, <1>13
  <2> QED
    BY <1>1, <1>17, <2>1, AddressesStay DEF TreeInv
<1>20. PathFollowsParent'
  <2> SUFFICES ASSUME NEW x \in Existing', x \notin astray'
               PROVE  (rows[x].path = Append(PathOf(rows[x].parent), Slug(x)))'
    BY DEF PathFollowsParent
  <2>1. x \in Pages /\ x \in Existing
    BY <1>17 DEF Existing
  <2>2. CASE x = p
    <3>1. q \notin S
      BY <1>1, <2>2
    <3>2. PathOf(rows[x].parent)' = PathOf(q)
      BY <1>3, <1>4, <1>10, <1>13, <2>2, <3>1 DEF PathOf
    <3>3. rows'[x].path = prefix
      BY <1>3, <1>8, <1>10, <1>13, <2>2
    <3> QED
      BY <1>5, <3>2, <3>3 DEF Slug
  <2>3. CASE x # p
    <3>1. PICK r : r = rows[x].parent
      OBVIOUS
    <3>2. /\ x \notin astray /\ rows[x].path = Append(PathOf(r), Slug(x)) /\ rows'[x].parent = r
          /\ r \in Pages \cup {NoPage} /\ rows[x].path \in Paths
      BY <1>1, <1>10, <1>13, <2>1, <2>3, <3>1, ThereTyped DEF TreeInv, Tree, PathFollowsParent
    <3>3. x \in S <=> r \in S
      BY <1>1, <1>3, <2>1, <2>3, <3>1 DEF Parted, S
    <3>4. CASE x \in S
      <4>1. /\ r \in S /\ r \in Pages /\ PathOf(r) = rows[r].path /\ rows[r].path \in Seq(Slugs)
            /\ Len(rows[p].path) <= Len(rows[r].path) /\ rows[p].path \in Seq(Slugs)
        BY <1>3, <1>6, <1>9, <3>3, <3>4 DEF PathOf
      <4>2. Slug(x) \in Slugs
        BY <3>2, LastIsSlug DEF Slug
      <4>3. path(x) = Append(path(r), Slug(x))
        <5>1. rows[x].path = Append(rows[r].path, Slug(x))
          BY <3>2, <4>1
        <5>2. ASSUME NEW a, a = rows[p].path, NEW b, b = prefix, NEW y, y = rows[r].path,
                     NEW c, c = Slug(x)
              PROVE  Suffixed(a, b, Append(y, c)) = Append(Suffixed(a, b, y), c)
          <6>1. a \in Seq(Slugs) /\ b \in Seq(Slugs) /\ y \in Seq(Slugs) /\ c \in Slugs /\ Len(a) <= Len(y)
            BY <1>5, <4>1, <4>2, <5>2
          <6> QED
            BY <6>1, SuffixedChild
        <5> QED
          BY <5>1, <5>2 DEF path
      <4>4. rows'[x].path = path(x) /\ rows'[r].path = path(r)
        BY <1>10, <1>13, <3>4, <4>1
      <4>5. PathOf(rows[x].parent)' = path(r)
        BY <3>2, <4>1, <4>4 DEF PathOf
      <4>6. Last(path(x)) = Slug(x)
        BY <1>7, <4>1, <4>2, <4>3, AppendLast
      <4> QED
        BY <4>3, <4>4, <4>5, <4>6 DEF Slug
    <3>5. CASE x \notin S
      <4>1. rows'[x] = rows[x] /\ r \notin S
        BY <1>13, <2>1, <3>3, <3>5
      <4>2. PathOf(rows[x].parent)' = PathOf(r)
        BY <1>13, <3>2, <4>1 DEF PathOf
      <4> QED
        BY <3>2, <4>1, <4>2 DEF Slug
    <3> QED
      BY <3>4, <3>5
  <2> QED
    BY <2>2, <2>3
<1>21. Tree'
  <2>1. astray' \subseteq Pages
    BY <1>1, <1>3, <1>9 DEF Parted, Existing, TreeInv, Tree, Typed
  <2> QED
    BY <1>1, <1>16, <1>18, <1>19, <1>20, <2>1 DEF Tree, Typed, TreeInv
<1>22. Touches(w, S)
  BY <1>1, <1>2, <1>3, <1>12, <1>13, <1>17 DEF Touches, S, Existing
<1>23. Recorded
  <2> SUFFICES ASSUME NEW x \in Existing
               PROVE  LET old == rows[x] new_ == rows'[x]
                      IN /\ new_.status # "deleted" /\ new_.path # old.path => <<x, old.path>> \in history'
                         /\ /\ old.address \notin {NoAddress, new_.address} /\ x \notin overtaken \cup overtaken'
                            /\ new_.status = "deleted" \/ new_.path = old.path
                            => <<x, old.address>> \in history'
    BY DEF Recorded
  <2>1. x \in Pages /\ Exists(x)
    BY DEF Existing
  <2>2. rows'[x].path # rows[x].path => <<x, rows[x].path>> \in history'
    BY <1>10, <1>13, <1>15, <2>1
  <2>3. rows'[x].path = rows[x].path => rows'[x].address = rows[x].address
    BY <1>10, <1>13, <2>1
  <2>4. rows'[x].status # "deleted"
    BY <1>17, <2>1 DEF Exists
  <2> QED
    BY <2>2, <2>3, <2>4
<1> QED
  BY <1>2, <1>21, <1>22, <1>23, TreeEnds


\* A page cannot leave behind what it does not give up.
LEMMA RowsStay ==
  ASSUME rows' = rows  PROVE Recorded
  BY DEF Recorded

LEMMA FinishTree ==
  ASSUME TreeInv, HeldInv', NEW w \in Writers, Finish(w)  PROVE TreeInv' /\ Recorded
<1> DEFINE t == tx[w]
           p == t.page
<1>1. CASE RenamePage(w)
  <2>1. t.op = "rename" /\ t.pc = "write"
    BY <1>1 DEF RenamePage, CarryAlong, Commit
  <2>2. t.arg \in Slugs
    BY <2>1, AtWrite DEF Knows, Given
  <2> QED
    BY <1>1, <2>2, CarryTree DEF RenamePage
<1>2. CASE MovePage(w)
  <2>1. t.op = "move" /\ t.pc = "write"
    BY <1>2 DEF MovePage, CarryAlong, Commit
  <2>2. p \in Existing
    BY <2>1, AtWrite
  <2>3. Slug(p) \in Slugs
    BY <2>2, ThereTyped, LastIsSlug DEF Slug
  <2>4. t.arg = Parent(t)
    BY <2>1 DEF Parent
  <2> QED
    BY <1>2, <2>3, <2>4, CarryTree DEF MovePage
<1>3. CASE SchedulePage(w) \/ UnschedulePage(w) \/ UnpublishPage(w) \/ PublishPage(w)
  <2>1. t.pc = "write" /\ t.op \in {"schedule", "unschedule", "unpublish", "publish"}
    BY <1>3 DEF SchedulePage, UnschedulePage, UnpublishPage, PublishPage, SetStatus, Commit
  <2>2. p \in Existing /\ Knows(t)
    BY <2>1, AtWrite
  <2>3. rows[p].address \in Addresses /\ rows[p].path \in Paths /\ NoAddress \in Addresses
    BY <2>2, ThereTyped DEF Addresses
  <2>4. CASE SchedulePage(w)
    <3>1. Readdressed(p, rows[p].address, {})
      BY <2>4 DEF SchedulePage, Readdressed
    <3> QED
      BY <2>3, <2>4, <3>1, StatusTree DEF SchedulePage
  <2>5. CASE UnschedulePage(w)
    <3>1. Readdressed(p, rows[p].address, {})
      BY <2>5 DEF UnschedulePage, Readdressed
    <3> QED
      BY <2>3, <2>5, <3>1, StatusTree DEF UnschedulePage
  <2>6. CASE UnpublishPage(w)
    <3>1. Readdressed(p, NoAddress, AddressesOf({p}))
      BY <2>6 DEF UnpublishPage, Readdressed
    <3> QED
      BY <2>3, <2>6, <3>1, StatusTree DEF UnpublishPage
  <2>7. CASE PublishPage(w)
    <3>1. t.op = "publish"
      BY <2>7 DEF PublishPage, SetStatus, Commit
    <3>2. t.read \in Patterns
      BY <2>1, <2>2, <3>1 DEF Knows, Given
    <3>3. AddressOf(t.read, rows[p].path) \in Addresses
      BY <2>3, <3>2 DEF AddressOf, Addresses
    <3>4. Readdressed(p, AddressOf(t.read, rows[p].path), {})
      BY <2>7 DEF PublishPage, Readdressed
    <3> QED
      BY <2>7, <3>3, <3>4, StatusTree DEF PublishPage
  <2> QED
    BY <1>3, <2>4, <2>5, <2>6, <2>7
<1> QED
  BY <1>1, <1>2, <1>3, CreateTree, TrashTree, RestoreTree, DeleteTree, PatternTree DEF Finish

LEMMA TreeNext ==
  TreeInv /\ [Next]_vars => TreeInv' /\ Recorded
<1> SUFFICES ASSUME TreeInv, [Next]_vars  PROVE TreeInv' /\ Recorded
  OBVIOUS
<1>1. HeldInv'
  BY HeldNext DEF TreeInv
<1>2. ASSUME NEW w \in Writers, Begin(w)  PROVE TreeInv' /\ Recorded
  <2>1. rows' = rows
    BY <1>2 DEF Begin, CallCreate, CallOn, CallPattern, Call
  <2> QED
    BY <1>1, <1>2, <2>1, TreeBegin, RowsStay
<1>3. ASSUME NEW w \in Writers, Step(w)  PROVE TreeInv' /\ Recorded
  <2>1. rows' = rows
    BY <1>3 DEF Step, LoadPage, ReadParent, ReadSibling, ReadAncestors, FindSubtree, LockFound,
                ReadPattern, LockSettings, ReadPublished, Goes
  <2> QED
    BY <1>1, <1>3, <2>1, TreeStep, RowsStay
<1>4. ASSUME NEW w \in Writers, Finish(w)  PROVE TreeInv' /\ Recorded
  BY <1>1, <1>4, FinishTree
<1>5. ASSUME NEW w \in Writers, Fail(w)  PROVE TreeInv' /\ Recorded
  <2>1. /\ tx' = [tx EXCEPT ![w] = Idle] /\ calls' = calls
        /\ UNCHANGED <<rows, pattern, history, clock, binned, astray, overtaken>>
    BY <1>5 DEF Fail
  <2>2. /\ Idle.op = "create" /\ Idle.pc = "idle" /\ Idle.page = NoPage /\ Idle.above = <<>>
        /\ Idle.own = {} /\ Idle.found = {} /\ Idle.share = {} /\ Idle.there = {}
    BY DEF Idle, Tx
  <2>3. Knows(Idle)
    BY <2>2 DEF Knows, Given, Staged, Placed, Checked, Carries, Found, HasFound, Recalls, Readdresses,
                Operations
  <2>4. calls' \in 0..MaxCalls
    BY <2>1 DEF TreeInv, Tree, Typed
  <2>5. TreeInv'
    <3> HIDE DEF Idle
    <3> QED
      BY <1>1, <2>1, <2>2, <2>3, <2>4, TreeGoes
  <2> QED
    BY <2>1, <2>5, RowsStay
<1>6. CASE UNCHANGED vars
  <2>1. /\ tx' = tx /\ calls' = calls
        /\ UNCHANGED <<rows, pattern, history, clock, binned, astray, overtaken>>
    BY <1>6 DEF vars
  <2>2. Tree'
    BY <2>1, TreeStays DEF TreeInv, Tree, Typed
  <2>3. \A v \in Writers : Knows(tx[v])'
    BY <2>1, KnowsStays DEF TreeInv
  <2>4. Shared'
    BY <2>1 DEF TreeInv, Shared
  <2> QED
    BY <1>1, <2>1, <2>2, <2>3, <2>4, RowsStay DEF TreeInv
<1> QED
  BY <1>2, <1>3, <1>4, <1>5, <1>6 DEF Next

\* The tree is right for any pages, any slugs and patterns and any number of
\* transactions (pages.ts, translations.ts, lifecycle.ts, publish.ts and
\* page-routing.ts): the rows are of their type, each page's path is its parent's
\* and its own slug unless it is astray, and each address is the one its path has
\* under the pattern in force unless the pattern has overtaken it.
THEOREM AddressesFollow == Spec => []AddressesFollowTree
<1>1. TreeInv => AddressesFollowTree
  BY TreeTypes DEF AddressesFollowTree, TreeInv, Tree
<1>2. TreeInv /\ [Next]_vars => TreeInv'
  BY TreeNext
<1> QED
  BY <1>1, <1>2, TreeInit, PTL DEF Spec

\* Every path and every address that a page gives up is in the history, however
\* the transactions overlap (recordPageUrlHistory and its callers).
THEOREM HistoryKept == Spec => LeftIsRecorded
<1>1. TreeInv /\ [Next]_vars => TreeInv' /\ [Recorded]_vars
  BY TreeNext
<1>2. Recorded <=> \A p \in Existing :
        LET old == rows[p] new == rows'[p]
        IN /\ new.status # "deleted" /\ new.path # old.path => <<p, old.path>> \in history'
           /\ /\ old.address \notin {NoAddress, new.address} /\ p \notin overtaken \cup overtaken'
              /\ new.status = "deleted" \/ new.path = old.path
              => <<p, old.address>> \in history'
  BY DEF Recorded
<1> QED
  BY <1>1, <1>2, TreeInit, PTL DEF Spec, LeftIsRecorded


\* A restore takes from the trash exactly what went there with its page, of what
\* was below the page from its look to its locks, for any number of trashes and
\* restores that overlap (lifecycle.ts trashPage and restorePageFromTrash).
THEOREM RestoresWhatWasTrashed == Spec => RestoreUndoesOneTrash
<1> DEFINE Undone(w) ==
             LET p == tx[w].page
             IN {q \in Pages : rows[q].status = "trashed" /\ rows'[q].status # "trashed"} =
                {q \in Below(p) \cap tx[w].there :
                   rows[q].status = "trashed" /\ binned[q] = binned[p]}
<1>1. ASSUME TreeInv, [Next]_vars, NEW w \in Writers, Commits(w, "restore")  PROVE Undone(w)
  <2> DEFINE t == tx[w]
             p == t.page
             row(q) == Row(rows[q].parent, rows[q].path, "draft", rows[q].address, rows[q].version + 1, 0)
             new == [q \in Pages |-> IF q \in t.found THEN row(q) ELSE rows[q]]
  <2>1. t.op = "restore" /\ t.pc = "write" /\ tx'[w].pc = "idle" /\ rows' # rows
    BY <1>1 DEF Commits
  <2>2. PICK v \in Writers : Finish(v)
    BY <1>1, <2>1 DEF Next, Begin, CallCreate, CallOn, CallPattern, Call, Step, LoadPage, ReadParent,
         ReadSibling, ReadAncestors, FindSubtree, LockFound, ReadPattern, LockSettings, ReadPublished,
         Goes, Fail, vars
  <2>3. tx' = [tx EXCEPT ![v] = Idle]
    BY <1>1, <2>2, FinishWrites DEF TreeInv
  <2>4. v = w
    BY <1>1, <2>1, <2>3 DEF TreeInv, HeldInv, Shapes
  <2>5. RestorePage(w)
    BY <2>1, <2>2, <2>4 DEF Finish, CreatePage, RenamePage, MovePage, CarryAlong, TrashPage, DeletePage,
         SchedulePage, UnschedulePage, PublishPage, UnpublishPage, SetStatus, SetPageUrlPattern, Commit
  <2>6. rows' = new
    <3>1. Commit(w, "restore", new, {})
      BY <2>5 DEF RestorePage, Rewritten
    <3> HIDE DEF new
    <3> QED
      BY <3>1 DEF Commit
  <2>7. \A q \in Pages : row(q).status = "draft"
    BY DEF Row
  <2> HIDE DEF row
  <2>8. \A q \in Pages : rows'[q].status = IF q \in t.found THEN "draft" ELSE rows[q].status
    BY <2>6, <2>7
  <2> HIDE DEF new
  <2>9. Knows(t) /\ p \in Existing /\ t.found \subseteq Below(p)
    BY <1>1, <2>1, AtWrite DEF OnSubtree
  <2>10. /\ t.found \subseteq t.there /\ \A q \in t.found : rows[q].trashed = rows[p].trashed
         /\ \A q \in t.there :
              rows[q].status = "trashed" /\ binned[q] = binned[p] => q \in t.found
    BY <2>1, <2>9 DEF Knows, Recalls, HasFound, OnSubtree
  <2>11. rows[p].status = "trashed"
    BY <2>1, <2>9 DEF Knows, Placed, Checked
  <2>12. p \in Pages /\ \A q \in Below(p) : q \in Pages
    BY <2>9 DEF Below, Existing
  <2>13. \A q \in Pages : rows[q].status = "trashed" => rows[q].trashed = binned[q]
    BY <1>1 DEF TreeInv, Tree, Stamped
  <2>14. \A q \in Pages :
           rows[q].status = "trashed" /\ rows'[q].status # "trashed"
             <=> q \in t.found /\ rows[q].status = "trashed"
    BY <2>8
  <2>15. \A q : q \in t.found /\ rows[q].status = "trashed"
                  <=> q \in Below(p) \cap t.there /\ rows[q].status = "trashed" /\ binned[q] = binned[p]
    BY <2>9, <2>10, <2>11, <2>12, <2>13
  <2> QED
    BY <2>12, <2>14, <2>15
<1>2. TreeInv /\ [Next]_vars => TreeInv'
  BY TreeNext
<1>3. TreeInv /\ [Next]_vars => [\A w \in Writers : Commits(w, "restore") => Undone(w)]_vars
  <2> HIDE DEF Undone
  <2> QED
    BY <1>1
<1> QED
  BY <1>2, <1>3, TreeInit, PTL DEF Spec, RestoreUndoesOneTrash

=============================================================================
