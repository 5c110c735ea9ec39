---------------------------- MODULE ContentEntry ----------------------------
(***************************************************************************)
(* One content entry in its locales: the rows of a translation group, the  *)
(* revisions they point at, and the transactions that create, save,        *)
(* publish, schedule, trash, restore, delete and translate them, beside    *)
(* changes of the content type and of a field's translatable flag          *)
(* (packages/content/src: save.ts, publish.ts, lifecycle.ts,               *)
(* translations.ts, singletons.ts, locks.ts, revisions.ts, settings.ts,    *)
(* field-translatable.ts, content-types.ts).                               *)
(*                                                                         *)
(* The data of a row is the text of its own, and the value of one field    *)
(* that the locales share unless the field is translatable; 0 is no value. *)
(* A transaction reads what its caller has seen, locks the content type,   *)
(* looks for the rows to lock, waits for them, and commits.  An account    *)
(* runs one transaction at a time.                                         *)
(***************************************************************************)
EXTENDS Naturals, FiniteSets, FiniteSetsExt, Sequences, SequencesExt

CONSTANTS Locales,     \* a sequence, the default locale first
          Writers,     \* the accounts, which are also the transactions
          NoOne,
          Settings,    \* what the content type may be set to
          Cap,         \* the revision cap once it is set
          MaxCalls     \* bound on the calls

ASSUME ContentAssumption ==
  /\ Locales \in Seq(Range(Locales)) /\ Locales # << >> /\ IsInjective(Locales)
  /\ NoOne \notin Writers
  /\ Cap \in Nat \ {0} /\ MaxCalls \in Nat
  /\ \A s \in Settings :
       s.drafts \in BOOLEAN /\ s.revisions \in {"off", "on_publish", "on_every_save"}

VARIABLES type, shared, cap, rows, revs, tx, calls, drifted
vars == <<type, shared, cap, rows, revs, tx, calls, drifted>>

L == Range(Locales)
Absent == [status |-> "absent"]
Row(status, data) ==
  [status |-> status, data |-> data, version |-> 1, draft |-> 0, live |-> 0,
   scheduled |-> FALSE, by |-> NoOne]
Data(text, value) == [text |-> text, value |-> value]
Exists(l) == rows[l] # Absent
Present(rs) == {l \in L : rs[l] # Absent}

\* readWorkingCopy: the pending draft, or what is live.
CopyIn(rs, vs, l) == IF rs[l].draft = 0 THEN rs[l].data ELSE vs[rs[l].draft].data
Copy(l) == CopyIn(rows, revs, l)

Idle == [op |-> "none", pc |-> "idle", locale |-> "none", base |-> 0, seen |-> Data(0, 0),
         publishes |-> FALSE, input |-> Data(0, 0), found |-> {}, sharing |-> FALSE]

GroupOps == {"save", "delete", "translate"}
RowOps == {"publish", "unpublish", "schedule", "unschedule", "trash", "restore"}

-----------------------------------------------------------------------------
(* Locks.                                                                  *)

\* Entry writes hold the content type FOR SHARE from their first statement;
\* the toggle of a field holds it FOR UPDATE.  Adding a translation reads it
\* without a lock, and its foreign key asks for one at the insert.
Shares(w) == tx[w].pc \in {"seeks", "held"} /\ tx[w].op \in (GroupOps \ {"translate"}) \cup RowOps
Owns(w) == tx[w].pc \in {"seeks", "held"} /\ tx[w].op = "toggle"
TypeFree == \A w \in Writers : ~Shares(w) /\ ~Owns(w)
Unowned == \A w \in Writers : ~Owns(w)

HeldRows(w) == IF tx[w].pc = "held" THEN tx[w].found ELSE {}
RowsFree(w, rs) == \A u \in Writers \ {w} : HeldRows(u) \cap rs = {}

\* assertRowsWritable: by is the holder of a lock that has not lapsed.
Writable(w, l) == rows[l].by \in {w, NoOne}

Set(w, t) == tx' = [tx EXCEPT ![w] = t]
Ended(w) == Set(w, Idle)

-----------------------------------------------------------------------------
(* Revisions.                                                              *)

Newest(vs) == IF DOMAIN vs = {} THEN 0 ELSE Max(DOMAIN vs)
Recorded(vs, l, kind, data) ==
  [r \in DOMAIN vs \cup {Newest(vs) + 1} |->
     IF r \in DOMAIN vs THEN vs[r] ELSE [locale |-> l, kind |-> kind, data |-> data]]

\* The foreign keys of the two pointers are ON DELETE SET NULL.
Without(st, R) ==
  [rows |-> [l \in L |->
     IF st.rows[l] = Absent THEN Absent
     ELSE [st.rows[l] EXCEPT !.draft = IF @ \in R THEN 0 ELSE @,
                             !.live = IF @ \in R THEN 0 ELSE @]],
   revs |-> [r \in DOMAIN st.revs \ R |-> st.revs[r]]]

Pointed(st) == UNION {{st.rows[l].draft, st.rows[l].live} : l \in Present(st.rows)}
Ranked(st, l, r) ==
  Cardinality({q \in DOMAIN st.revs : q >= r /\ st.revs[q].locale = l /\ st.revs[q].kind = "save"})
Prunable(st, l) ==
  {r \in DOMAIN st.revs : /\ st.revs[r].locale = l /\ st.revs[r].kind = "save"
                          /\ Ranked(st, l, r) > Cap} \ Pointed(st)
\* pruneSaveRevisions
Pruned(st, l) == IF cap = 0 THEN st ELSE Without(st, Prunable(st, l))

\* A superseded pending draft is history only where every save is kept.
KeepsDrafts == type.revisions = "on_every_save"
Dropped(st, r) == IF r = 0 \/ KeepsDrafts THEN st ELSE Without(st, {r})

-----------------------------------------------------------------------------
(* Writing a working copy.                                                 *)

\* While the type has drafts, a row that is or will be public is not written:
\* a pending draft is staged beside it.
Stages(row) == type.drafts /\ row.status \in {"published", "scheduled"}

Staged(st, l, data) ==
  LET vs == Recorded(st.revs, l, "save", data)
      row == [st.rows[l] EXCEPT !.draft = Newest(vs), !.version = @ + 1]
  IN Dropped([rows |-> [st.rows EXCEPT ![l] = row], revs |-> vs], st.rows[l].draft)

WrittenLive(st, l, data) ==
  LET row == st.rows[l]
      public == row.status = "published" /\ type.revisions # "off"
      vs == IF public THEN Recorded(st.revs, l, "publish", data)
            ELSE IF KeepsDrafts THEN Recorded(st.revs, l, "save", data) ELSE st.revs
      live == IF public THEN Newest(vs) ELSE row.live
  IN [rows |-> [st.rows EXCEPT ![l] = [row EXCEPT !.data = data, !.live = live, !.version = @ + 1]],
      revs |-> vs]

WriteCopy(st, l, data) ==
  Pruned(IF Stages(st.rows[l]) THEN Staged(st, l, data) ELSE WrittenLive(st, l, data), l)

\* applySyncedFieldChanges
SyncedUnversioned(st, l, value) ==
  LET data == [CopyIn(st.rows, st.revs, l) EXCEPT !.value = value]
      after == WriteCopy(st, l, data)
  IN IF data = CopyIn(st.rows, st.revs, l) THEN st
     ELSE [after EXCEPT !.rows[l].version = st.rows[l].version]
Synced(st, l, value) ==
  LET data == [CopyIn(st.rows, st.revs, l) EXCEPT !.value = value]
  IN IF data = CopyIn(st.rows, st.revs, l) THEN st ELSE WriteCopy(st, l, data)

State == [rows |-> rows, revs |-> revs]
Store(st) == rows' = st.rows /\ revs' = st.revs

-----------------------------------------------------------------------------
(* Calls.                                                                  *)

Counted == calls < MaxCalls /\ calls' = calls + 1

\* decideSavePermission: a save that goes live asks for the right to publish.
GoesLive(l) == ~type.drafts /\ rows[l].status = "published"

Called(w, op, l, input) ==
  /\ tx[w] = Idle /\ Counted
  /\ Set(w, [Idle EXCEPT !.op = op, !.pc = "called", !.locale = l,
                         !.base = rows[l].version, !.seen = Copy(l),
                         !.publishes = GoesLive(l), !.input = input])
  /\ UNCHANGED <<type, shared, cap, rows, revs, drifted>>

Values == 1..2
SaveEntry(w) ==
  \E l \in Present(rows), v \in Values : Called(w, "save", l, Data(calls + 1, v))
\* A restore is a save of what a revision of the entry holds.
RestoreRevision(w) ==
  \E r \in DOMAIN revs : Exists(revs[r].locale) /\ Called(w, "save", revs[r].locale, revs[r].data)
CallOnRow(w) == \E l \in Present(rows), op \in RowOps \cup {"delete"} : Called(w, op, l, Data(0, 0))
CreateTranslation(w) ==
  /\ ~type.singleton
  /\ \E l \in Present(rows), v \in Values : Called(w, "translate", l, Data(calls + 1, v))
\* Making the field one that the locales share.
ToggleShared(w) ==
  /\ ~shared /\ tx[w] = Idle /\ Counted
  /\ Set(w, [Idle EXCEPT !.op = "toggle", !.pc = "called"])
  /\ UNCHANGED <<type, shared, cap, rows, revs, drifted>>

-----------------------------------------------------------------------------
(* The steps of a transaction.                                             *)

\* The statement that locks rows finds those of its start.
Begin(w) ==
  LET t == tx[w] IN
  /\ t.pc = "called" /\ t.op # "toggle"
  /\ (t.op # "translate" => Unowned)
  /\ Set(w, [t EXCEPT !.pc = "seeks",
                      !.found = IF t.op \in GroupOps THEN Present(rows) ELSE {t.locale} \cap Present(rows)])
  /\ UNCHANGED <<type, shared, cap, rows, revs, calls, drifted>>

\* computeGroupPlans: the first value in the order of the locales wins, and a
\* group whose rows agree is not locked.
Valued == {i \in DOMAIN Locales : Exists(Locales[i]) /\ Copy(Locales[i]).value # 0}
Winner == IF Valued = {} THEN 0 ELSE Copy(Locales[Min(Valued)]).value
Differing == {l \in Present(rows) : Copy(l).value # Winner}
BeginToggle(w) ==
  LET t == tx[w] IN
  /\ t.pc = "called" /\ t.op = "toggle" /\ TypeFree
  /\ Set(w, [t EXCEPT !.pc = "seeks", !.input = Data(0, Winner),
                      !.found = IF Differing = {} THEN {} ELSE Present(rows)])
  /\ UNCHANGED <<type, shared, cap, rows, revs, calls, drifted>>

\* What was deleted while the statement waited is left out, what was inserted
\* is not found.
LockRows(w) ==
  LET t == tx[w] IN
  /\ t.pc = "seeks" /\ RowsFree(w, t.found)
  /\ Set(w, [t EXCEPT !.pc = "held", !.found = @ \cap Present(rows), !.sharing = shared])
  /\ UNCHANGED <<type, shared, cap, rows, revs, calls, drifted>>

\* A refusal, an error, a deadlock that the database ends, or the end of the
\* process.
Abort(w) ==
  /\ tx[w].pc # "idle" /\ Ended(w)
  /\ UNCHANGED <<type, shared, cap, rows, revs, calls, drifted>>

Current(w, l) ==
  l \in tx[w].found /\ rows[l].version = tx[w].base /\ Writable(w, l)

\* EntryStateChangedError
AsDecided(w) == tx[w].publishes = GoesLive(tx[w].locale)

ChangesShared(w) == shared /\ tx[w].input.value # Copy(tx[w].locale).value
SiblingsIgnored(w) == {}
Siblings(w) == IF ChangesShared(w) THEN tx[w].found \ {tx[w].locale} ELSE {}
SiblingsUnasked(w) == TRUE
SiblingsWritable(w) == \A l \in Siblings(w) : Writable(w, l)

\* saveEntryInTransaction
CommitSave(w) ==
  LET t == tx[w] IN
  /\ t.pc = "held" /\ t.op = "save"
  /\ Current(w, t.locale) /\ AsDecided(w) /\ SiblingsWritable(w)
  /\ \E own \in {WriteCopy(State, t.locale, t.input)} :
       Store(FoldSet(LAMBDA l, st : Synced(st, l, t.input.value), own, Siblings(w)))
  /\ drifted' = IF ChangesShared(w) THEN t.found # Present(rows) ELSE drifted
  /\ Ended(w) /\ UNCHANGED <<type, shared, cap, calls>>

\* publishEntry asks for no status: an entry can be published from the trash.
Published(st, l) ==
  LET row == st.rows[l] data == CopyIn(st.rows, st.revs, l)
      vs == IF type.revisions = "off" THEN st.revs ELSE Recorded(st.revs, l, "publish", data)
      after == [row EXCEPT !.status = "published", !.data = data, !.draft = 0, !.scheduled = FALSE,
                           !.live = IF type.revisions = "off" THEN @ ELSE Newest(vs),
                           !.version = @ + 1]
      new == [rows |-> [st.rows EXCEPT ![l] = after], revs |-> vs]
  IN IF type.revisions = "off" /\ row.draft # 0 THEN Without(new, {row.draft}) ELSE new

\* readPendingDraftCollapse: a pending draft is promoted when the entry leaves
\* the states in which it means something.
CollapsedAway(st, l, row) ==
  Dropped([rows |-> [st.rows EXCEPT ![l] = [row EXCEPT !.draft = 0]], revs |-> st.revs], row.draft)
Collapsed(st, l, row) ==
  Dropped([rows |-> [st.rows EXCEPT ![l] = [row EXCEPT !.data = CopyIn(st.rows, st.revs, l),
                                                       !.draft = 0]],
           revs |-> st.revs], row.draft)

Moved(row, status, scheduled) ==
  [row EXCEPT !.status = status, !.scheduled = scheduled, !.version = @ + 1]
Kept(st, l, row) == [st EXCEPT !.rows[l] = row]

Lifecycle(op, l) ==
  LET row == rows[l] IN
  CASE op = "publish" -> {Published(State, l)}
    [] op = "unpublish" /\ row.status = "published" ->
         {Collapsed(State, l, Moved(row, "draft", FALSE))}
    [] op = "schedule" /\ row.status # "trashed" ->
         {Kept(State, l, Moved(row, IF row.status = "published" THEN "published" ELSE "scheduled", TRUE))}
    [] op = "unschedule" /\ row.status = "scheduled" ->
         {Collapsed(State, l, Moved(row, "draft", FALSE))}
    [] op = "unschedule" /\ row.status = "published" /\ row.scheduled ->
         {Kept(State, l, Moved(row, "published", FALSE))}
    [] op = "trash" /\ row.status # "trashed" ->
         {Collapsed(State, l, Moved(row, "trashed", FALSE))}
    [] op = "restore" /\ row.status = "trashed" -> {Kept(State, l, Moved(row, "draft", row.scheduled))}
    [] OTHER -> {}

CommitLifecycle(w) ==
  LET t == tx[w] IN
  /\ t.pc = "held" /\ t.op \in RowOps /\ Current(w, t.locale)
  /\ \E st \in Lifecycle(t.op, t.locale) : Store(st)
  /\ Ended(w) /\ UNCHANGED <<type, shared, cap, calls, drifted>>

\* The revisions of a row go with it, and who still looks for it does not find
\* it: a row created later has another id.
Gone(l) == Store(Without([State EXCEPT !.rows[l] = Absent], {r \in DOMAIN revs : revs[r].locale = l}))
Missed(l) ==
  [w \in Writers |->
     IF tx[w].locale = l /\ tx[w].pc \in {"called", "seeks"} THEN Idle
     ELSE [tx[w] EXCEPT !.found = @ \ {l}]]

\* deleteEntryPermanently
CommitDelete(w) ==
  LET t == tx[w] IN
  /\ t.pc = "held" /\ t.op = "delete" /\ Current(w, t.locale)
  /\ Gone(t.locale) /\ tx' = [Missed(t.locale) EXCEPT ![w] = Idle]
  /\ UNCHANGED <<type, shared, cap, calls, drifted>>

\* A translation takes what it shares from what is live in its source, and a
\* pending draft of the source, or of another locale, may say otherwise by
\* now; so may a flag that was changed after the fields were read.
CommitTranslation(w) ==
  LET t == tx[w] IN
  /\ t.pc = "held" /\ t.op = "translate" /\ t.locale \in t.found /\ Unowned
  /\ \E l \in L \ Present(rows) :
       \E data \in {Data(t.input.text, IF t.sharing THEN rows[t.locale].data.value ELSE t.input.value)} :
         /\ rows' = [rows EXCEPT ![l] = Row("draft", data)]
         /\ drifted' = (drifted \/ t.sharing # shared
                         \/ \E k \in Present(rows) : Copy(k).value # data.value)
  /\ Ended(w) /\ UNCHANGED <<type, shared, cap, revs, calls>>

\* setFieldTranslatable
CommitToggle(w) ==
  LET t == tx[w] IN
  /\ t.pc = "held" /\ t.op = "toggle"
  /\ Store(FoldSet(LAMBDA l, st : Synced(st, l, t.input.value), State, t.found))
  /\ shared' = TRUE /\ drifted' = FALSE
  /\ Ended(w) /\ UNCHANGED <<type, cap, calls>>

-----------------------------------------------------------------------------
(* Calls that wait for nobody but the type or the row.                     *)

\* createEntry, for a new group.
CreateEntry ==
  /\ Present(rows) = {} /\ ~type.singleton /\ Unowned /\ Counted
  /\ \E l \in L, v \in Values : rows' = [rows EXCEPT ![l] = Row("draft", Data(0, v))]
  /\ drifted' = FALSE /\ UNCHANGED <<type, shared, cap, revs, tx>>

\* getOrCreateSingleton takes the type alone, and what is shared from any row.
GetOrCreateSingleton ==
  /\ type.singleton /\ TypeFree /\ Counted
  /\ \E l \in L \ Present(rows), v \in Values :
     \E from \in IF shared /\ Present(rows) # {} THEN {rows[k].data.value : k \in Present(rows)} ELSE {v} :
       /\ rows' = [rows EXCEPT ![l] = Row("draft", Data(0, from))]
       /\ drifted' = (drifted \/ \E k \in Present(rows) : Copy(k).value # from)
  /\ UNCHANGED <<type, shared, cap, revs, tx>>

\* purgeLocaleEntriesInTransaction
PurgeLocale ==
  /\ Counted
  /\ \E l \in Present(rows) :
       (\A w \in Writers : l \notin HeldRows(w)) /\ Gone(l) /\ tx' = Missed(l)
  /\ UNCHANGED <<type, shared, cap, drifted>>

\* updateContentTypeSettings: drafts are not switched off over a pending one.
UpdateSettings ==
  /\ TypeFree /\ Counted
  /\ \E s \in Settings :
       /\ s # type /\ s.singleton = type.singleton
       /\ (~s.drafts => \A l \in Present(rows) : rows[l].draft = 0)
       /\ type' = s
  /\ UNCHANGED <<shared, cap, rows, revs, tx, drifted>>

MakeTranslatable ==
  /\ shared /\ TypeFree /\ shared' = FALSE /\ Counted
  /\ UNCHANGED <<type, cap, rows, revs, tx, drifted>>

\* setRevisionCap
SetRevisionCap ==
  /\ cap = 0 /\ cap' = Cap /\ Counted
  /\ Store(Without(State, UNION {Prunable(State, l) : l \in L}))
  /\ UNCHANGED <<type, shared, tx, drifted>>

\* acquireEditLock, takeOverEditLock, and releaseEditLock or the time after
\* which a lock that is not renewed counts for nothing.  A takeover moves the
\* version, so what the displaced holder sends is stale.
OnLock(l, row) ==
  (\A w \in Writers : l \notin HeldRows(w)) /\ rows' = [rows EXCEPT ![l] = row]
Acquire ==
  /\ \E l \in Present(rows), w \in Writers : rows[l].by = NoOne /\ OnLock(l, [rows[l] EXCEPT !.by = w])
  /\ UNCHANGED <<type, shared, cap, revs, tx, calls, drifted>>
TakeOver ==
  /\ Counted
  /\ \E l \in Present(rows), w \in Writers :
       OnLock(l, [rows[l] EXCEPT !.by = w, !.version = @ + 1])
  /\ UNCHANGED <<type, shared, cap, revs, tx, drifted>>
Lapse ==
  /\ \E l \in Present(rows) : rows[l].by # NoOne /\ rows' = [rows EXCEPT ![l].by = NoOne]
  /\ UNCHANGED <<type, shared, cap, revs, tx, calls, drifted>>

-----------------------------------------------------------------------------
\* The group before the calls: a first row that is a draft, or public, with or
\* without changes that wait, and a second one that is not there or a draft.
Origin == Locales[1]
StartRows(pending) ==
  LET first == Row("draft", Data(91, 1))
      live == IF type.revisions = "off" THEN 0 ELSE 1
      public == [first EXCEPT !.status = "published", !.live = live]
  IN IF pending THEN {[public EXCEPT !.draft = 2]} ELSE {first, public}
StartRevs(pending, row) ==
  [r \in {row.live, row.draft} \ {0} |->
     [locale |-> Origin, kind |-> IF r = row.live THEN "publish" ELSE "save",
      data |-> Data(90 + r, 1)]]

Init ==
  /\ type \in Settings /\ shared \in BOOLEAN /\ cap = 0
  /\ \E pending \in {FALSE, type.drafts} : \E row \in StartRows(pending) :
       /\ revs = StartRevs(pending, row)
       /\ \E other \in {Absent, Row("draft", Data(93, IF shared THEN 1 ELSE 2))} :
            rows = [l \in L |-> IF l = Origin THEN row ELSE IF l = Locales[2] THEN other ELSE Absent]
  /\ tx = [w \in Writers |-> Idle] /\ calls = 0 /\ drifted = FALSE

Next ==
  \/ \E w \in Writers :
       \/ SaveEntry(w) \/ RestoreRevision(w) \/ CallOnRow(w) \/ CreateTranslation(w) \/ ToggleShared(w)
       \/ Begin(w) \/ BeginToggle(w) \/ LockRows(w) \/ Abort(w)
       \/ CommitSave(w) \/ CommitLifecycle(w) \/ CommitDelete(w)
       \/ CommitTranslation(w) \/ CommitToggle(w)
  \/ CreateEntry \/ GetOrCreateSingleton \/ PurgeLocale
  \/ UpdateSettings \/ MakeTranslatable \/ SetRevisionCap
  \/ Acquire \/ TakeOver \/ Lapse

Spec == Init /\ [][Next]_vars

-----------------------------------------------------------------------------
(* Properties.                                                             *)

Datum == [text : Nat, value : Values \cup {0}]
RowType(l) ==
  rows[l] \in [status : {"draft", "published", "scheduled", "trashed"}, data : Datum,
               version : Nat \ {0}, draft : Nat, live : Nat, scheduled : BOOLEAN,
               by : Writers \cup {NoOne}]
TypeOK ==
  /\ type \in Settings /\ shared \in BOOLEAN /\ cap \in {0, Cap} /\ calls \in 0..MaxCalls
  /\ \A l \in Present(rows) : RowType(l)
  /\ \A r \in DOMAIN revs : revs[r] \in [locale : L, kind : {"save", "publish"}, data : Datum]
  /\ \A w \in Writers : tx[w].found \subseteq L

\* What a row points at is of the right kind and its own, and changes wait only
\* where they would go live, while the type has drafts.
PointersResolve ==
  \A l \in Present(rows) :
    LET row == rows[l] IN
    /\ row.draft # 0 =>
         /\ row.draft \in DOMAIN revs /\ revs[row.draft].locale = l /\ revs[row.draft].kind = "save"
         /\ type.drafts /\ row.status \in {"published", "scheduled"}
    /\ row.live # 0 =>
         row.live \in DOMAIN revs /\ revs[row.live].locale = l /\ revs[row.live].kind = "publish"

\* The working copies of a group agree on what they share, until a translation
\* is made from a source whose changes wait, or beside a save that waits.
SharedAgrees ==
  (shared /\ ~drifted) => \A k, l \in Present(rows) : Copy(k).value = Copy(l).value

\* The rows and revisions of an entry fit together (save.ts, publish.ts,
\* lifecycle.ts, revisions.ts): pointers resolve and shared values agree.
EntryInv == TypeOK /\ PointersResolve /\ SharedAgrees

Commits(w, ops) == tx[w].pc = "held" /\ tx[w].op \in ops /\ tx'[w] = Idle /\ rows' # rows

\* Nobody loses what they saved: the working copy of a row changes only by a
\* save of that row, or, in the shared value alone, by a save of another locale
\* or a toggle; not by lifecycle operations, settings or pruning.  And while
\* the type has drafts, what readers see of a published row changes only when
\* it is published again.
CopiesKept ==
  [][\A l \in Present(rows) : l \in Present(rows') =>
       /\ CopyIn(rows', revs', l) # Copy(l) =>
            \E w \in Writers :
              \/ Commits(w, {"save"}) /\ tx[w].locale = l
              \/ Commits(w, {"save", "toggle"}) /\ CopyIn(rows', revs', l).text = Copy(l).text
       /\ (/\ type.drafts /\ rows[l].status = "published"
           /\ rows'[l].status = "published" /\ rows'[l].data # rows[l].data) =>
            \E w \in Writers : Commits(w, {"publish"}) /\ tx[w].locale = l]_vars

\* Nothing is written over, made public, put away or deleted that its caller
\* has not seen as it is, shared values written by others included; and a save
\* that readers see was asked for the right to publish.
WritesWhatWasSeen ==
  [][\A w \in Writers :
       /\ Commits(w, {"save", "delete"} \cup RowOps) => Copy(tx[w].locale) = tx[w].seen
       /\ (Commits(w, {"save"}) /\ rows'[tx[w].locale].data # rows[tx[w].locale].data
             /\ rows[tx[w].locale].status = "published") => tx[w].publishes]_vars

\* While somebody else edits a row, no save, of the row or of another locale,
\* and no lifecycle operation touches it.
LocksShield ==
  [][\A w \in Writers : Commits(w, {"save", "delete"} \cup RowOps) =>
       \A l \in Present(rows) : ~Writable(w, l) => rows'[l] = rows[l]]_vars
=============================================================================
