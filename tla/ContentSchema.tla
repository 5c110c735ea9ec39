---------------------------- MODULE ContentSchema ----------------------------
(***************************************************************************)
(* Content types and their fields while the entries that follow them are   *)
(* written (packages/content/src: fields.ts, content-types.ts, routing.ts, *)
(* validation.ts, references.ts, and the transactions of save.ts,          *)
(* publish.ts and lifecycle.ts as far as they depend on the schema).       *)
(*                                                                         *)
(* Every field is a reference, of one type, Owner.  The data of an entry   *)
(* files values under the keys of fields; a value remembers the field it   *)
(* was written for, and whether an entry was written with it or a change   *)
(* of the schema put it there.  An address is a pattern and a slug.  What  *)
(* ContentEntry has, locales, revisions and edit locks, is left out here.  *)
(***************************************************************************)
EXTENDS Naturals, Functions

CONSTANTS Types, Owner, TypeKeys, Fields, Keys, Entries,
          TypeOf,      \* the type of each entry
          Patterns, Slugs, None,
          Workers,     \* transactions
          MaxCalls,    \* bound on the calls
          Field0, Key0, TypeKey0   \* the field and the keys there are at first

ASSUME SchemaAssumption ==
  /\ Owner \in Types /\ TypeOf \in [Entries -> Types]
  /\ None \notin Patterns \cup Entries \cup Types /\ MaxCalls \in Nat
  /\ Field0 \in Fields /\ Key0 \in Keys /\ TypeKey0 \in [Types -> TypeKeys]
\* The keys of types are unique.
ASSUME KeysDiffer == \A t, x \in Types : TypeKey0[t] = TypeKey0[x] => t = x

VARIABLES
  types, fields, entries,   \* functions over those that exist
  index,                    \* content_entry_references
  had,                      \* history: the keys each field has had
  tx, calls
vars == <<types, fields, entries, index, had, tx, calls>>

Nothing == [k \in {} |-> None]
Without(f, S) == [x \in DOMAIN f \ S |-> f[x]]
Added(f, x, v) == [y \in DOMAIN f \cup {x} |-> IF y = x THEN v ELSE f[y]]

Value(f, e, by) == [field |-> f, target |-> e, by |-> by]
Of(t) == {e \in DOMAIN entries : TypeOf[e] = t}
FieldsOf(t, fs) == IF t = Owner THEN fs ELSE Nothing
KeysOf(fs) == {fs[f].key : f \in DOMAIN fs}
Fresh == {f \in Fields : had[f] = {}}

Idle == [op |-> "none", pc |-> "idle", type |-> None, entry |-> None, base |-> 0,
         data |-> Nothing, slug |-> None, seen |-> Nothing, arg |-> None]
EntryOps == {"save", "publish", "unpublish", "trash", "delete"}

-----------------------------------------------------------------------------
(* Locks.                                                                  *)

Holding(w) == tx[w].pc \in {"held", "found"}
Owns(w, t) == Holding(w) /\ tx[w].type = t
Shares(w, t) == Holding(w) /\ tx[w].op \in EntryOps /\ TypeOf[tx[w].entry] = t
SharableAlways(t) == TRUE
Sharable(t) == \A w \in Workers : ~Owns(w, t)
Ownable(t) == \A w \in Workers : ~Owns(w, t) /\ ~Shares(w, t)
RowFree(w, e) == \A u \in Workers \ {w} : ~(Holding(u) /\ tx[u].entry = e)
\* findReferencingFields locks the rows of all fields.
FieldsFree(w) == \A u \in Workers \ {w} : tx[u].pc # "found"

Set(w, t) == tx' = [tx EXCEPT ![w] = t]
Counted == calls < MaxCalls /\ calls' = calls + 1

-----------------------------------------------------------------------------
(* What an entry write checks and leaves.                                  *)

\* validateEntryData
Valid(fs, data) ==
  /\ DOMAIN data \subseteq KeysOf(fs)
  /\ \A f \in DOMAIN fs : fs[f].required => fs[f].key \in DOMAIN data

\* collectReferenceValues
References(fs, data) ==
  {[field |-> f, target |-> data[fs[f].key].target] :
     f \in {f \in DOMAIN fs : fs[f].key \in DOMAIN data}}

\* assertReferencesResolvable: the rows that are referred to, and their types,
\* are locked FOR SHARE.
Resolvable(w, fs, data) ==
  \A r \in References(fs, data) :
    /\ r.target \in DOMAIN entries /\ RowFree(w, r.target) /\ Sharable(TypeOf[r.target])
    /\ types[TypeOf[r.target]].key \in fs[r.field].allowed

\* syncEntryReferenceIndex
Indexed(e, fs, data) ==
  {i \in index : i.entry # e}
    \cup {[entry |-> e, field |-> r.field, target |-> r.target] : r \in References(fs, data)}
Written(data) == [k \in DOMAIN data |-> [data[k] EXCEPT !.by = "entry"]]

\* computeEntryPath; a routable type must have a pattern.
Path(type, slug) == IF type.routable THEN [pattern |-> type.pattern, slug |-> slug] ELSE None
Routes(type) == type.routable => type.pattern # None
\* The unique index over locale and path.
Available(es) == \A d, e \in DOMAIN es : (d # e /\ es[d].path # None) => es[d].path # es[e].path
Committed(w, es) == entries' = es /\ Set(w, Idle)
\* A row is left as it is, but for its version, by those that see no reason.
Touched(row) == [row EXCEPT !.version = @ + 1]

-----------------------------------------------------------------------------
(* Entries.                                                                *)

Call(w, op, e, data, slug) ==
  /\ tx[w] = Idle /\ Counted
  /\ Set(w, [Idle EXCEPT !.op = op, !.pc = "called", !.entry = e, !.base = entries[e].version,
                         !.data = data, !.slug = slug])
  /\ UNCHANGED <<types, fields, entries, index, had>>

\* The caller files values under the keys it has seen; so does restoreRevision
\* with those of a revision, by the fields they were written for.
Filed(S, e) ==
  [k \in {fields[f].key : f \in S} |->
     Value(CHOOSE f \in S : fields[f].key = k, e, "entry")]
SaveEntry(w) ==
  \E e \in DOMAIN entries, s \in Slugs : \E to \in Entries \ {e} :
    \E S \in SUBSET DOMAIN FieldsOf(TypeOf[e], fields) : Call(w, "save", e, Filed(S, to), s)
CallOnEntry(w) ==
  \E e \in DOMAIN entries, op \in EntryOps \ {"save"} : Call(w, op, e, Nothing, None)

\* lockContentTypeForShare, the lock of the row, and listFields.
Begin(w) ==
  LET t == tx[w] IN
  /\ t.pc = "called" /\ t.entry \in DOMAIN entries
  /\ Sharable(TypeOf[t.entry]) /\ RowFree(w, t.entry)
  /\ Set(w, [t EXCEPT !.pc = "held", !.seen = FieldsOf(TypeOf[t.entry], fields)])
  /\ UNCHANGED <<types, fields, entries, index, had, calls>>

Abort(w) ==
  /\ tx[w] # Idle /\ Set(w, Idle)
  /\ UNCHANGED <<types, fields, entries, index, had, calls>>

Ready(w, ops) == tx[w].pc = "held" /\ tx[w].op \in ops
Current(w) == entries[tx[w].entry].version = tx[w].base

\* saveEntryInTransaction and publishEntry, where they write what readers see.
GoLive(w, row) ==
  LET t == tx[w] type == types[TypeOf[t.entry]]
      path == IF row.status = "published" THEN Path(type, row.slug) ELSE row.path
      es == [entries EXCEPT ![t.entry] = Touched([row EXCEPT !.path = path, !.data = Written(row.data)])]
  IN /\ row.status = "published" => Routes(type)
     /\ Available(es) /\ Committed(w, es)
     /\ index' = Indexed(t.entry, t.seen, row.data)

CommitSave(w) ==
  LET t == tx[w] row == entries[t.entry] IN
  /\ Ready(w, {"save"}) /\ Current(w)
  /\ Valid(t.seen, t.data) /\ Resolvable(w, t.seen, t.data)
  /\ IF types[TypeOf[t.entry]].drafts /\ row.status = "published"
     THEN /\ Committed(w, [entries EXCEPT ![t.entry] =
                             Touched([row EXCEPT !.draft = [data |-> t.data, slug |-> t.slug]])])
          /\ UNCHANGED index
     ELSE GoLive(w, [row EXCEPT !.data = t.data, !.slug = t.slug])
  /\ UNCHANGED <<types, fields, had, calls>>

\* readWorkingCopy
Promoted(row) ==
  IF row.draft = None THEN row
  ELSE [row EXCEPT !.data = row.draft.data, !.slug = row.draft.slug, !.draft = None]

CommitPublish(w) ==
  LET t == tx[w] copy == Promoted(entries[t.entry]) IN
  /\ Ready(w, {"publish"}) /\ Current(w)
  /\ Valid(t.seen, copy.data) /\ Resolvable(w, t.seen, copy.data)
  /\ GoLive(w, [copy EXCEPT !.status = "published"])
  /\ UNCHANGED <<types, fields, had, calls>>

\* unpublishEntry, trashEntry: a pending draft is promoted without being asked
\* whether it fits the fields, and without the index.
CommitPutAway(w) ==
  LET t == tx[w] row == entries[t.entry]
      es == [entries EXCEPT ![t.entry] =
               Touched([Promoted(row) EXCEPT !.path = None,
                          !.status = IF t.op = "trash" THEN "trashed" ELSE "draft"])]
  IN /\ Ready(w, {"unpublish", "trash"}) /\ Current(w)
     /\ IF t.op = "trash" THEN row.status # "trashed" ELSE row.status = "published"
     /\ Committed(w, es)
     /\ UNCHANGED <<types, fields, index, had, calls>>

\* stripTranslationGroupFromReferences, over the rows that the index names.
StrippedOf(row, e) ==
  LET gone == {k \in DOMAIN row.data \cap KeysOf(fields) : row.data[k].target = e}
  IN IF gone = {} THEN row ELSE Touched([row EXCEPT !.data = Without(@, gone)])
Referring(e) == {i.entry : i \in {i \in index : i.target = e}} \ {e}
CommitDelete(w) ==
  LET e == tx[w].entry IN
  /\ Ready(w, {"delete"}) /\ Current(w)
  /\ \A d \in Referring(e) : RowFree(w, d)
  /\ Committed(w, [d \in DOMAIN entries \ {e} |->
                     IF d \in Referring(e) THEN StrippedOf(entries[d], e) ELSE entries[d]])
  /\ index' = {i \in index : e \notin {i.entry, i.target}}
  /\ UNCHANGED <<types, fields, had, calls>>

-----------------------------------------------------------------------------
(* The schema.  A change locks its content type FOR UPDATE, and reads.      *)

Own(w, op, t, arg) ==
  /\ tx[w] = Idle /\ Counted /\ t \in DOMAIN types /\ Ownable(t)
  /\ Set(w, [Idle EXCEPT !.op = op, !.pc = "held", !.type = t, !.seen = fields, !.arg = arg])
  /\ UNCHANGED <<types, fields, entries, index, had>>

Named == {types[t].key : t \in DOMAIN types}
Offered == {{types[t].key} : t \in DOMAIN types}

AddField(w) ==
  \E f \in Fresh, k \in Keys, allowed \in Offered, default \in Entries \cup {None}, r \in BOOLEAN :
    (r \/ default = None) /\ Own(w, "add", Owner, [field |-> f, key |-> k, required |-> r,
                                    allowed |-> allowed, default |-> default])
UpdateField(w) ==
  \E f \in DOMAIN fields, r \in BOOLEAN, allowed \in Offered \cup {None}, default \in Entries \cup {None} :
    (r \/ default = None) /\ Own(w, "update", Owner, [field |-> f, required |-> r,
                                       allowed |-> allowed, default |-> default])
RenameField(w) ==
  \E f \in DOMAIN fields, k \in Keys : Own(w, "rename", Owner, [field |-> f, key |-> k])
DuplicateField(w) ==
  \E f \in DOMAIN fields, g \in Fresh, k \in Keys, copy \in BOOLEAN :
    Own(w, "duplicate", Owner, [field |-> g, from |-> f, key |-> k, copy |-> copy])
DeleteField(w) == \E f \in DOMAIN fields : Own(w, "drop", Owner, [field |-> f])
SetUrlPattern(w) == \E t \in Types, p \in Patterns \cup {None} : Own(w, "pattern", t, p)
UpdateSettings(w) == \E t \in Types, r, d \in BOOLEAN : Own(w, "settings", t, [routable |-> r, drafts |-> d])
RenameType(w) == \E t \in Types, k \in TypeKeys : Own(w, "retype", t, k)
DeleteType(w) == \E t \in Types : Own(w, "untype", t, None)

\* Every entry of the type whose data has, or has not, a key is rewritten and
\* its version moves; pending drafts and revisions are not.
Rewritten(data) ==
  [e \in DOMAIN entries |->
     IF e \in DOMAIN data THEN Touched([entries[e] EXCEPT !.data = data[e]]) ELSE entries[e]]
Having(k) == {e \in Of(Owner) : k \in DOMAIN entries[e].data}
\* backfillDefaultValue
Backfilled(f, k, default) ==
  IF default = None THEN entries
  ELSE Rewritten([e \in Of(Owner) \ Having(k) |-> Added(entries[e].data, k, Value(f, default, "schema"))])
Moved(data, from, to) == Added(Without(data, {from}), to, data[from])
Had(f, k) == had' = [had EXCEPT ![f] = @ \cup {k}]

SchemaStep(w, op) == Ready(w, {op}) /\ UNCHANGED calls

CommitAdd(w) ==
  LET a == tx[w].arg IN
  /\ SchemaStep(w, "add") /\ a.key \notin KeysOf(fields) /\ a.field \in Fresh
  /\ fields' = Added(fields, a.field, [key |-> a.key, required |-> a.required, allowed |-> a.allowed])
  /\ Committed(w, Backfilled(a.field, a.key, a.default))
  /\ Had(a.field, a.key) /\ UNCHANGED <<types, index>>

\* Options that the caller does not give are written back as they were read.
CommitUpdate(w) ==
  LET a == tx[w].arg now == fields[a.field] IN
  /\ SchemaStep(w, "update") /\ FieldsFree(w)
  /\ fields' = [fields EXCEPT ![a.field] =
       [now EXCEPT !.required = a.required,
                   !.allowed = IF a.allowed = None THEN tx[w].seen[a.field].allowed ELSE a.allowed]]
  /\ Committed(w, IF a.required /\ ~now.required THEN Backfilled(a.field, now.key, a.default) ELSE entries)
  /\ UNCHANGED <<types, index, had>>

\* renameField
LeftBehind(from, to) == entries
Renamed(from, to) ==
  Rewritten([e \in Having(from) |-> Moved(entries[e].data, from, to)])
CommitRename(w) ==
  LET a == tx[w].arg IN
  /\ SchemaStep(w, "rename") /\ FieldsFree(w) /\ a.key \notin KeysOf(fields)
  /\ fields' = [fields EXCEPT ![a.field].key = a.key]
  /\ Committed(w, Renamed(fields[a.field].key, a.key))
  /\ Had(a.field, a.key) /\ UNCHANGED <<types, index>>

CommitDuplicate(w) ==
  LET a == tx[w].arg k == fields[a.from].key IN
  /\ SchemaStep(w, "duplicate") /\ a.key \notin KeysOf(fields) /\ a.field \in Fresh
  /\ fields' = Added(fields, a.field,
                     [fields[a.from] EXCEPT !.key = a.key, !.allowed = tx[w].seen[a.from].allowed])
  /\ Committed(w, IF a.copy
                  THEN Rewritten([e \in Having(k) |->
                         Added(entries[e].data, a.key, Value(a.field, entries[e].data[k].target, "schema"))])
                  ELSE entries)
  /\ Had(a.field, a.key) /\ UNCHANGED <<types, index>>

CommitDeleteField(w) ==
  LET a == tx[w].arg k == fields[a.field].key IN
  /\ SchemaStep(w, "drop") /\ FieldsFree(w)
  /\ fields' = Without(fields, {a.field})
  /\ Committed(w, Rewritten([e \in Having(k) |-> Without(entries[e].data, {k})]))
  /\ index' = {i \in index : i.field # a.field} /\ UNCHANGED <<types, had>>

-----------------------------------------------------------------------------
(* Types.                                                                  *)

CreateType ==
  /\ Counted
  /\ \E t \in Types \ DOMAIN types, k \in TypeKeys \ Named :
       types' = Added(types, t, [key |-> k, routable |-> FALSE, pattern |-> None, drafts |-> FALSE])
  /\ UNCHANGED <<fields, entries, index, had, tx>>

\* What was found is read again once it is locked; fields added since are not
\* found, fields deleted since are gone.
FoundAsRead(seen) == seen
Found(seen) == [f \in DOMAIN seen \cap DOMAIN fields |-> fields[f]]
LockFields(w) ==
  /\ Ready(w, {"retype", "untype"}) /\ FieldsFree(w)
  /\ Set(w, [tx[w] EXCEPT !.pc = "found", !.seen = Found(@)])
  /\ UNCHANGED <<types, fields, entries, index, had, calls>>

\* rewriteReferencingFields; without a new key the old one is removed.
Replaced(K, old, new) ==
  IF old \in K THEN (K \ {old}) \cup (IF new = None THEN {} ELSE {new}) ELSE K
Rekeyed(seen, old, new) ==
  [f \in DOMAIN fields |->
     IF f \in DOMAIN seen THEN [fields[f] EXCEPT !.allowed = Replaced(seen[f].allowed, old, new)]
     ELSE fields[f]]

CommitRenameType(w) ==
  LET t == tx[w] old == types[t.type].key IN
  /\ t.pc = "found" /\ t.op = "retype" /\ t.arg \notin Named
  /\ fields' = Rekeyed(t.seen, old, t.arg)
  /\ types' = [types EXCEPT ![t.type].key = t.arg]
  /\ Set(w, Idle) /\ UNCHANGED <<entries, index, had, calls>>

\* deleteContentType: no field is left with nothing to refer to, the fields of
\* the type go with it.
CommitDeleteType(w) ==
  LET t == tx[w] old == types[t.type].key IN
  /\ t.pc = "found" /\ t.op = "untype" /\ Of(t.type) = {}
  /\ \A f \in DOMAIN t.seen : t.seen[f].allowed # {old}
  /\ fields' = IF t.type = Owner THEN Nothing ELSE Rekeyed(t.seen, old, None)
  /\ types' = Without(types, {t.type})
  /\ Set(w, Idle) /\ UNCHANGED <<entries, index, had, calls>>

\* Entries published while the type had no addresses are passed over.
CommitPattern(w) ==
  LET t == tx[w] type == [types[t.type] EXCEPT !.pattern = t.arg]
      es == [e \in DOMAIN entries |->
               IF e \in Of(t.type) /\ entries[e].path # None
               THEN [entries[e] EXCEPT !.path = Path(type, entries[e].slug)] ELSE entries[e]]
  IN /\ Ready(w, {"pattern"}) /\ type.routable
     /\ t.arg = None => \A e \in Of(t.type) : entries[e].status # "published"
     /\ Available(es) /\ Committed(w, es)
     /\ types' = [types EXCEPT ![t.type] = type]
     /\ UNCHANGED <<fields, index, had, calls>>

CommitSettings(w) ==
  LET t == tx[w] es == {entries[e] : e \in Of(t.type)} IN
  /\ SchemaStep(w, "settings")
  /\ ~t.arg.drafts => \A row \in es : row.draft = None
  /\ ~t.arg.routable => \A row \in es : row.status # "published"
  /\ types' = [types EXCEPT ![t.type].routable = t.arg.routable, ![t.type].drafts = t.arg.drafts]
  /\ Set(w, Idle) /\ UNCHANGED <<fields, entries, index, had>>

-----------------------------------------------------------------------------
\* The fields of Owner refer to the other types.  Its entries are drafts, or
\* published, with changes that wait or without; the others are drafts.
Pattern0 == CHOOSE p \in Patterns : TRUE
Slug0 == CHOOSE s \in Slugs : TRUE
Others == {e \in Entries : TypeOf[e] # Owner}
StartData(e) ==
  IF TypeOf[e] = Owner /\ Others # {}
  THEN [k \in {Key0} |-> Value(Field0, CHOOSE d \in Others : TRUE, "entry")]
  ELSE Nothing
StartRow(e, status, draft) ==
  [status |-> status, data |-> StartData(e), slug |-> Slug0, draft |-> draft, version |-> 1,
   path |-> IF status = "published" THEN [pattern |-> Pattern0, slug |-> Slug0] ELSE None]
Init ==
  \E drafts \in BOOLEAN, status \in {"draft", "published"}, waits \in BOOLEAN :
    /\ waits => drafts /\ status = "published"
    /\ types = [t \in Types |-> [key |-> TypeKey0[t], routable |-> TRUE, pattern |-> Pattern0,
                                 drafts |-> drafts]]
    /\ fields = [f \in {Field0} |-> [key |-> Key0, required |-> FALSE,
                                     allowed |-> {TypeKey0[t] : t \in Types \ {Owner}}]]
    /\ had = [f \in Fields |-> IF f = Field0 THEN {Key0} ELSE {}]
    /\ entries = [e \in Entries |->
         IF TypeOf[e] # Owner THEN StartRow(e, "draft", None)
         ELSE StartRow(e, status, IF waits THEN [data |-> StartData(e), slug |-> Slug0] ELSE None)]
    /\ index = UNION {{[entry |-> e, field |-> Field0, target |-> StartData(e)[k].target] :
                         k \in DOMAIN StartData(e)} : e \in Entries}
    /\ tx = [w \in Workers |-> Idle] /\ calls = 0

Next ==
  \/ \E w \in Workers :
       \/ SaveEntry(w) \/ CallOnEntry(w) \/ Begin(w) \/ Abort(w)
       \/ CommitSave(w) \/ CommitPublish(w) \/ CommitPutAway(w) \/ CommitDelete(w)
       \/ AddField(w) \/ UpdateField(w) \/ RenameField(w) \/ DuplicateField(w) \/ DeleteField(w)
       \/ SetUrlPattern(w) \/ UpdateSettings(w) \/ RenameType(w) \/ DeleteType(w)
       \/ CommitAdd(w) \/ CommitUpdate(w) \/ CommitRename(w) \/ CommitDuplicate(w)
       \/ CommitDeleteField(w) \/ LockFields(w) \/ CommitRenameType(w) \/ CommitDeleteType(w)
       \/ CommitPattern(w) \/ CommitSettings(w)
  \/ CreateType

Spec == Init /\ [][Next]_vars

-----------------------------------------------------------------------------
(* Properties.                                                             *)

FieldType == [key : Keys, required : BOOLEAN, allowed : SUBSET TypeKeys]
TypeOK ==
  /\ DOMAIN types \subseteq Types /\ DOMAIN entries \subseteq Entries /\ calls \in 0..MaxCalls
  /\ DOMAIN fields \subseteq Fields /\ Range(fields) \subseteq FieldType
  /\ \A e \in DOMAIN entries : TypeOf[e] \in DOMAIN types /\ DOMAIN entries[e].data \subseteq Keys

PublishedRows == {e \in DOMAIN entries : entries[e].status = "published"}

\* What readers see is filed under keys that exist, and a value is in the field
\* it was written for, or in one that has had a key of that field.
FiledRight ==
  \A e \in PublishedRows :
    /\ DOMAIN entries[e].data \subseteq KeysOf(FieldsOf(TypeOf[e], fields))
    /\ \A f \in DOMAIN FieldsOf(TypeOf[e], fields) : LET k == fields[f].key IN
         k \in DOMAIN entries[e].data => LET g == entries[e].data[k].field IN g = f \/ had[f] \cap had[g] # {}

\* A published reference to an entry that is gone was put there by a change of
\* the schema, a default or a copy, which the index does not know of.
DanglesBySchema ==
  \A e \in PublishedRows : \A k \in DOMAIN entries[e].data :
    entries[e].data[k].target \notin DOMAIN entries => entries[e].data[k].by = "schema"

\* An address is that of the pattern and the slug as they are.
AddressFollows ==
  \A e \in DOMAIN entries : entries[e].path # None =>
    /\ entries[e].status = "published"
    /\ entries[e].path = Path(types[TypeOf[e]], entries[e].slug)

\* The schema and what readers see of the entries that follow it fit together
\* (fields.ts, routing.ts, references.ts).
SchemaInv == TypeOK /\ FiledRight /\ DanglesBySchema /\ AddressFollows

Ends(w, ops) == tx[w].op \in ops /\ tx[w].pc \in {"held", "found"} /\ tx'[w] = Idle

\* What a save or a publish makes public fits the fields of that very moment:
\* no key is unknown, nothing that is required is missing, and what it refers
\* to is there.
WritesFit ==
  [][\A w \in Workers : \A e \in PublishedRows' :
       (Ends(w, {"save", "publish"}) /\ tx[w].entry = e /\ index' # index) =>
         LET fs == FieldsOf(TypeOf[e], fields') data == entries'[e].data IN
         /\ Valid(fs, data)
         /\ \A r \in References(fs, data) : r.target \in DOMAIN entries']_vars

\* When a type is renamed or deleted, the fields that referred to it follow,
\* and lose nothing of what others have written to them meanwhile; a key ceases
\* to be that of a type only in a field that was not found, or through a writer
\* that had read or been given it before.
TypeKeysFollow ==
  [][/\ \A w \in Workers : Ends(w, {"retype", "untype"}) /\ types' # types =>
          \A f \in DOMAIN fields \cap DOMAIN fields' :
            /\ fields'[f].allowed \cap (Named \cap Named') = fields[f].allowed \cap (Named \cap Named')
            /\ f \in DOMAIN tx[w].seen => fields'[f].allowed \subseteq fields[f].allowed \cup Named'
     /\ \A f \in DOMAIN fields' : \A k \in fields'[f].allowed \ Named' :
          \/ f \in DOMAIN fields /\ k \in fields[f].allowed \ Named
          \/ \E w \in Workers :
               \/ Ends(w, {"add", "update", "duplicate"})
               \/ Ends(w, {"retype", "untype"}) /\ f \notin DOMAIN tx[w].seen]_vars
=============================================================================
