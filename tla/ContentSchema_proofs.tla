------------------------ MODULE ContentSchema_proofs ------------------------
(***************************************************************************)
(* For any types, fields, entries and keys and any number of transactions: *)
(* what readers see fits the schema as it changes, what is made public     *)
(* fits the fields of that moment, and the keys of types are followed.     *)
(***************************************************************************)
(* The inductive invariant has two halves.  SchemaData is about what is    *)
(* stored: what a value was written for, whether the index knows of it,    *)
(* and where an address comes from.  Knows is about each transaction: what *)
(* it has read and may rely on until it commits, since the type it reads   *)
(* or changes is locked.                                                   *)
(***************************************************************************)
EXTENDS ContentSchema, TLAPS

FieldOps == {"add", "update", "rename", "duplicate", "drop"}
TypeOps == {"pattern", "settings", "retype", "untype"}

TxParts == {"op", "pc", "type", "entry", "base", "data", "slug", "seen", "arg"}
IsTx(t) == t = [x \in TxParts |-> t[x]]
IsFunction(f) == f = [x \in DOMAIN f |-> f[x]]
IsType(type) ==
  /\ type = [key |-> type.key, routable |-> type.routable, pattern |-> type.pattern, drafts |-> type.drafts]
  /\ type.key \in TypeKeys
ValueParts == {"field", "target", "by"}
IsValue(v) == v = [x \in ValueParts |-> v[x]] /\ v.field \in Fields
IsData(d) == IsFunction(d) /\ DOMAIN d \subseteq Keys /\ \A k \in DOMAIN d : IsValue(d[k])
RowParts == {"status", "data", "slug", "draft", "version", "path"}
IsRow(r) ==
  /\ r = [x \in RowParts |-> r[x]]
  /\ IsData(r.data)
  /\ r.draft # None => r.draft = [data |-> r.draft.data, slug |-> r.draft.slug] /\ IsData(r.draft.data)

\* What a caller has filed is under a key that its field has had.
Strong(d) == \A k \in DOMAIN d : k \in had[d[k].field]

\* A rename takes along what it finds under a key: then the field that has the
\* new key has had one in common with the field of the value.
Placed(k, g) ==
  \/ k \in had[g]
  \/ \E f \in DOMAIN fields : fields[f].key = k /\ had[f] \cap had[g] # {}

\* A row of an entry, as its readers may rely on it.
Link(e, f, v) == [entry |-> e, field |-> f, target |-> v.target]
Public(e, row) ==
  /\ DOMAIN row.data \subseteq KeysOf(FieldsOf(TypeOf[e], fields))
  /\ \A k \in DOMAIN row.data : row.data[k].by = "schema" \/ row.data[k].target \in DOMAIN entries
  /\ \A f \in DOMAIN FieldsOf(TypeOf[e], fields) : LET k == fields[f].key IN
       k \in DOMAIN row.data => row.data[k].by = "schema" \/ Link(e, f, row.data[k]) \in index
Addressed(e, row) ==
  row.path # None => row.status = "published" /\ row.path = Path(types[TypeOf[e]], row.slug)
RowFits(e, row) ==
  /\ IsRow(row)
  /\ row.draft # None => Strong(row.draft.data)
  /\ TypeOf[e] = Owner => \A k \in DOMAIN row.data : Placed(k, row.data[k].field)
  /\ row.status = "published" => Public(e, row)
  /\ Addressed(e, row)

Schema ==
  /\ IsFunction(types) /\ DOMAIN types \subseteq Types /\ \A t \in DOMAIN types : IsType(types[t])
  /\ \A t, x \in DOMAIN types : types[t].key = types[x].key => t = x
  /\ IsFunction(fields) /\ DOMAIN fields \subseteq Fields
  /\ \A f \in DOMAIN fields : fields[f] \in FieldType /\ fields[f].key \in had[f]
  /\ \A f, g \in DOMAIN fields : fields[f].key = fields[g].key => f = g
  /\ had \in [Fields -> SUBSET Keys] /\ calls \in 0..MaxCalls
Rows ==
  /\ IsFunction(entries) /\ DOMAIN entries \subseteq Entries
  /\ \A e \in DOMAIN entries : TypeOf[e] \in DOMAIN types /\ RowFits(e, entries[e])
SchemaData == Schema /\ Rows

\* What a transaction has been asked, and what it has read.
Asked(t) ==
  LET a == t.arg IN
  /\ t.op \in {"add", "update", "rename", "duplicate"} => a.field \in Fields
  /\ t.op \in {"update", "rename", "drop"} => a.field \in DOMAIN fields
  /\ t.op = "duplicate" => a.from \in DOMAIN fields /\ a.from \in DOMAIN t.seen
  /\ t.op = "update" => a.field \in DOMAIN t.seen
  /\ t.op \in {"add", "rename", "duplicate"} => a.key \in Keys
  /\ t.op \in {"add", "update"} => a.required \in BOOLEAN
  /\ t.op = "add" => a.allowed \in SUBSET TypeKeys
  /\ t.op = "update" => a.allowed = None \/ a.allowed \in SUBSET TypeKeys
  /\ t.op = "retype" => t.arg \in TypeKeys
Staged(t) ==
  /\ IsTx(t) /\ IsData(t.data) /\ Strong(t.data)
  /\ t.pc \in {"idle", "called", "held", "found"}
  /\ t.pc = "called" => t.op \in EntryOps
  /\ t.pc = "held" => t.op \in EntryOps \cup FieldOps \cup TypeOps
  /\ t.pc = "found" => t.op \in {"retype", "untype"}
  /\ t.pc = "idle" => t.type = None
  /\ t.op \in EntryOps => t.type = None /\ (t.pc = "held" => t.entry \in DOMAIN entries)
  /\ t.op \in FieldOps \cup TypeOps => t.pc \in {"held", "found"} /\ t.type \in DOMAIN types /\ t.entry = None
  /\ t.op \in FieldOps => t.type = Owner
Saw(t) ==
  /\ t.op \in FieldOps \cup TypeOps =>
       \A f \in DOMAIN t.seen : t.seen[f] \in FieldType
  /\ t.op \in EntryOps /\ t.pc = "held" =>
       LET fs == FieldsOf(TypeOf[t.entry], fields) IN
       /\ DOMAIN t.seen = DOMAIN fs
       /\ \A f \in DOMAIN fs : t.seen[f].key = fs[f].key /\ t.seen[f].required = fs[f].required
  /\ t.pc = "found" =>
       \A f \in DOMAIN t.seen : f \in DOMAIN fields /\ t.seen[f].allowed = fields[f].allowed
Knows(t) == Asked(t) /\ Staged(t) /\ Saw(t)

\* What the locks keep apart.
Holds(t) == t.pc \in {"held", "found"}
Reads(t, x) == Holds(t) /\ t.op \in EntryOps /\ TypeOf[t.entry] = x
Apart(t, r) ==
  /\ \A x \in Types : Holds(t) /\ t.type = x => ~(Holds(r) /\ r.type = x) /\ ~Reads(r, x)
  /\ Holds(t) /\ Holds(r) /\ t.op \in EntryOps /\ r.op \in EntryOps => t.entry # r.entry
  /\ ~(t.pc = "found" /\ r.pc = "found")
Transactions ==
  /\ IsFunction(tx) /\ DOMAIN tx = Workers
  /\ \A w \in Workers : Knows(tx[w])
  /\ \A v, w \in Workers : v # w => Apart(tx[v], tx[w])

IInv == SchemaData /\ Transactions

USE SchemaAssumption

-----------------------------------------------------------------------------
(* What the invariant says of the properties.                              *)

LEMMA FitsReaders == IInv => SchemaInv
<1> SUFFICES ASSUME IInv PROVE SchemaInv
  OBVIOUS
<1> USE DEF IInv, SchemaData, Schema, Rows, RowFits
<1>1. TypeOK
  <2>1. Range(fields) \subseteq FieldType
    BY DEF Range
  <2> QED
    BY <2>1 DEF TypeOK, IsRow, IsData
<1>2. FiledRight
  <2> SUFFICES ASSUME NEW e \in PublishedRows
               PROVE  /\ DOMAIN entries[e].data \subseteq KeysOf(FieldsOf(TypeOf[e], fields))
                      /\ \A f \in DOMAIN FieldsOf(TypeOf[e], fields) : LET k == fields[f].key IN
                           k \in DOMAIN entries[e].data =>
                             LET g == entries[e].data[k].field IN g = f \/ had[f] \cap had[g] # {}
    BY DEF FiledRight
  <2>1. e \in DOMAIN entries /\ entries[e].status = "published"
    BY DEF PublishedRows
  <2>2. DOMAIN entries[e].data \subseteq KeysOf(FieldsOf(TypeOf[e], fields))
    BY <2>1 DEF Public
  <2>3. ASSUME NEW f \in DOMAIN FieldsOf(TypeOf[e], fields), NEW k, k = fields[f].key,
               k \in DOMAIN entries[e].data, NEW g, g = entries[e].data[k].field
        PROVE  had[f] \cap had[g] # {}
    <3>1. TypeOf[e] = Owner /\ f \in DOMAIN fields
      BY DEF FieldsOf, Nothing
    <3>2. Placed(k, g)
      BY <2>1, <2>3, <3>1
    <3>3. k \in had[f]
      BY <2>3, <3>1
    <3>4. ASSUME NEW h \in DOMAIN fields, fields[h].key = k  PROVE h = f
      BY <2>3, <3>1, <3>4
    <3> QED
      BY <3>2, <3>3, <3>4 DEF Placed
  <2> QED
    BY <2>2, <2>3
<1>3. DanglesBySchema
  BY DEF DanglesBySchema, PublishedRows, Public
<1>4. AddressFollows
  BY DEF AddressFollows, Addressed
<1> QED
  BY <1>1, <1>2, <1>3, <1>4 DEF SchemaInv

-----------------------------------------------------------------------------
(* The start.                                                              *)

LEMMA IdleIs ==
  /\ IsTx(Idle) /\ Idle.op = "none" /\ Idle.pc = "idle" /\ Idle.type = None /\ Idle.entry = None
  /\ Idle.data = Nothing
BY DEF Idle, IsTx, TxParts

LEMMA NothingStrong == IsData(Nothing) /\ Strong(Nothing) /\ Strong(Nothing)'
BY DEF Nothing, IsData, IsFunction, Strong

LEMMA IdleKnows == Knows(Idle)
<1>1. /\ Idle.op = "none" /\ Idle.pc = "idle" /\ Idle.type = None /\ Idle.entry = None
      /\ Idle.data = Nothing /\ IsTx(Idle)
  BY IdleIs
<1>2. IsData(Nothing) /\ Strong(Nothing)
  BY DEF Nothing, IsData, IsFunction, Strong
<1> HIDE DEF Idle
<1> QED
  BY <1>1, <1>2 DEF Knows, Asked, Staged, Saw, EntryOps, FieldOps, TypeOps

LEMMA IdleApart == \A t : Apart(Idle, t) /\ Apart(t, Idle)
<1>1. Idle.pc = "idle"
  BY DEF Idle
<1> QED
  BY <1>1 DEF Apart, Holds, Reads

-----------------------------------------------------------------------------
(* Statements before a commit.                                             *)

LEMMA KnowsStays ==
  ASSUME NEW v \in Workers, NEW u, Knows(u), tx'[v] = u, UNCHANGED <<types, fields, entries, had>>
  PROVE  Knows(tx[v])'
<1>1. Asked(tx[v])'
  BY DEF Knows, Asked
<1>2. Staged(tx[v])'
  BY DEF Knows, Staged, Strong
<1>3. Saw(tx[v])'
  BY DEF Knows, Saw, FieldsOf
<1> QED
  BY <1>1, <1>2, <1>3 DEF Knows

LEMMA DataStays ==
  ASSUME SchemaData, UNCHANGED <<types, fields, entries, index, had>>, calls' \in 0..MaxCalls
  PROVE  SchemaData'
<1>1. Schema'
  BY DEF SchemaData, Schema
<1>2. \A e \in DOMAIN entries : RowFits(e, entries[e])'
  BY DEF SchemaData, Rows, RowFits, Strong, Placed, Public, Addressed, FieldsOf, KeysOf
<1>3. Rows'
  BY <1>2 DEF SchemaData, Rows
<1> QED
  BY <1>1, <1>3 DEF SchemaData

LEMMA Goes ==
  ASSUME IInv, NEW w \in Workers, NEW u, Set(w, u), Knows(u),
         UNCHANGED <<types, fields, entries, index, had>>, calls' \in 0..MaxCalls,
         \A v \in Workers \ {w} : Apart(u, tx[v]) /\ Apart(tx[v], u)
  PROVE  IInv'
<1>1. tx' = [tx EXCEPT ![w] = u] /\ IsFunction(tx')
  BY DEF Set, IInv, Transactions, IsFunction
<1>2. tx'[w] = u /\ DOMAIN tx' = Workers /\ \A v \in Workers \ {w} : tx'[v] = tx[v]
  BY <1>1 DEF IInv, Transactions
<1>3. \A v \in Workers : Knows(tx[v])'
  <2> TAKE v \in Workers
  <2>1. CASE v = w
    BY <1>2, <2>1, KnowsStays
  <2>2. CASE v # w
    <3>1. Knows(tx[v]) /\ tx'[v] = tx[v]
      BY <1>2, <2>2 DEF IInv, Transactions
    <3> QED
      BY <3>1, KnowsStays
  <2> QED
    BY <2>1, <2>2
<1>4. \A v, x \in Workers : v # x => Apart(tx'[v], tx'[x])
  BY <1>2 DEF IInv, Transactions
<1> QED
  BY <1>1, <1>2, <1>3, <1>4, DataStays DEF IInv, Transactions

LEMMA SchemaInit == Init => IInv
<1> SUFFICES ASSUME Init PROVE IInv
  OBVIOUS
<1>1. PICK drafts \in BOOLEAN, status \in {"draft", "published"}, waits \in BOOLEAN :
    /\ types = [t \in Types |-> [key |-> TypeKey0[t], routable |-> TRUE, pattern |-> Pattern0,
                                 drafts |-> drafts]]
    /\ fields = [f \in {Field0} |-> [key |-> Key0, required |-> FALSE,
                                     allowed |-> {TypeKey0[t] : t \in Types \ {Owner}}]]
    /\ had = [f \in Fields |-> IF f = Field0 THEN {Key0} ELSE {}]
    /\ entries = [e \in Entries |->
         IF TypeOf[e] # Owner THEN StartRow(e, "draft", None)
         ELSE StartRow(e, status, IF waits THEN [data |-> StartData(e), slug |-> Slug0] ELSE None)]
    /\ index = UNION {{[entry |-> e, field |-> Field0, target |-> StartData(e)[k].target] :
                         k \in DOMAIN StartData(e)} : e \in Entries}
    /\ tx = [w \in Workers |-> Idle] /\ calls = 0
  BY DEF Init
<1>2. Transactions
  BY <1>1, IdleKnows, IdleApart DEF Transactions, IsFunction
<1>3. Schema
  <2>1. \A t \in Types : IsType(types[t])
    BY <1>1 DEF IsType
  <2>2. fields[Field0] \in FieldType /\ fields[Field0].key = Key0
    BY <1>1 DEF FieldType
  <2>3. IsFunction(types) /\ IsFunction(fields) /\ DOMAIN types = Types /\ DOMAIN fields = {Field0}
    BY <1>1 DEF IsFunction
  <2>4. had \in [Fields -> SUBSET Keys] /\ had[Field0] = {Key0} /\ calls \in 0..MaxCalls
    BY <1>1
  <2>5. \A t, x \in Types : types[t].key = types[x].key => t = x
    BY <1>1, KeysDiffer
  <2> QED
    BY <2>1, <2>2, <2>3, <2>4, <2>5 DEF Schema
<1>4. ASSUME NEW e \in Entries  PROVE RowFits(e, entries[e])
  <2> DEFINE d == StartData(e)
  <2>1. IsData(d) /\ Strong(d) /\ DOMAIN d \subseteq {Key0} /\ (TypeOf[e] # Owner => DOMAIN d = {})
        /\ \A k \in DOMAIN d : d[k].field = Field0 /\ d[k].target \in Entries
    <3>1. CASE TypeOf[e] = Owner /\ Others # {}
      <4>1. PICK x \in Entries : d = [k \in {Key0} |-> Value(Field0, x, "entry")]
        BY <3>1 DEF StartData, Others
      <4>2. LET v == Value(Field0, x, "entry") IN IsValue(v) /\ v.field = Field0 /\ v.target = x
        BY DEF Value, IsValue, ValueParts
      <4> HIDE DEF d
      <4> QED
        BY <1>1, <3>1, <4>1, <4>2 DEF IsData, IsFunction, Strong
    <3>2. CASE ~(TypeOf[e] = Owner /\ Others # {})
      <4>1. d = Nothing
        BY <3>2 DEF StartData
      <4> HIDE DEF d
      <4> QED
        BY <4>1 DEF Nothing, IsData, IsFunction, Strong
    <3> QED
      BY <3>1, <3>2
  <2>2. PICK s, draft :
          /\ entries[e] = StartRow(e, s, draft) /\ s \in {"draft", "published"} /\ (TypeOf[e] # Owner => s = "draft")
          /\ draft = None \/ draft = [data |-> d, slug |-> Slug0]
    BY <1>1
  <2>3. LET r == entries[e] IN
        /\ r.data = d /\ r.status = s /\ r.draft = draft /\ r.slug = Slug0
        /\ r.path # None => r.status = "published" /\ r.path = [pattern |-> Pattern0, slug |-> Slug0]
    BY <2>2 DEF StartRow
  <2>4. IsRow(entries[e]) /\ (draft # None => Strong(draft.data))
    <3> HIDE DEF d
    <3>1. draft # None => draft = [data |-> draft.data, slug |-> draft.slug] /\ draft.data = d
      BY <2>2
    <3> QED
      BY <2>1, <2>2, <2>3, <3>1 DEF IsRow, RowParts, StartRow, d
  <2>5. \A k \in DOMAIN d : <<e, k>> \in Entries \X {Key0} /\ Link(e, Field0, d[k]) \in index
    BY <1>1, <2>1 DEF Link
  <2> HIDE DEF d
  <2>6. TypeOf[e] = Owner => \A k \in DOMAIN d : Placed(k, d[k].field)
    BY <1>1, <2>1 DEF Placed
  <2>7. s = "published" => Public(e, entries[e])
    <3>1. s = "published" => TypeOf[e] = Owner /\ FieldsOf(TypeOf[e], fields) = fields
      BY <2>2 DEF FieldsOf
    <3>2. KeysOf(fields) = {Key0} /\ DOMAIN fields = {Field0} /\ DOMAIN entries = Entries
      BY <1>1 DEF KeysOf
    <3> SUFFICES ASSUME s = "published" PROVE Public(e, entries[e])
      OBVIOUS
    <3>3. fields[Field0].key = Key0 /\ entries[e].data = d
      BY <1>1, <2>3
    <3>4. \A k \in DOMAIN d : k = Key0 /\ d[k].target \in DOMAIN entries /\ Link(e, Field0, d[k]) \in index
      BY <2>1, <2>5, <3>2
    <3> QED
      BY <3>1, <3>2, <3>3, <3>4 DEF Public
  <2>8. Addressed(e, entries[e])
    <3>1. types[TypeOf[e]].routable /\ types[TypeOf[e]].pattern = Pattern0
      BY <1>1
    <3> QED
      BY <2>3, <3>1 DEF Addressed, Path
  <2> QED
    BY <2>3, <2>4, <2>6, <2>7, <2>8 DEF RowFits
<1>5. Rows
  <2>1. DOMAIN entries = Entries /\ IsFunction(entries) /\ DOMAIN types = Types
    BY <1>1 DEF IsFunction
  <2> QED
    BY <1>4, <2>1 DEF Rows
<1> QED
  BY <1>2, <1>3, <1>5 DEF IInv, SchemaData

LEMMA BeginGoes ==
  ASSUME IInv, NEW w \in Workers, Begin(w)  PROVE IInv'
<1> DEFINE t == tx[w]
           u == [t EXCEPT !.pc = "held", !.seen = FieldsOf(TypeOf[t.entry], fields)]
<1>1. /\ t.pc = "called" /\ t.entry \in DOMAIN entries /\ Sharable(TypeOf[t.entry]) /\ RowFree(w, t.entry)
      /\ Set(w, u) /\ UNCHANGED <<types, fields, entries, index, had, calls>>
  BY DEF Begin
<1>2. Knows(t) /\ t.entry \in Entries /\ TypeOf[t.entry] \in Types /\ calls \in 0..MaxCalls
  BY <1>1 DEF IInv, Transactions, SchemaData, Schema, Rows
<1>3. /\ IsTx(u) /\ u.op = t.op /\ u.type = t.type /\ u.entry = t.entry /\ u.data = t.data /\ u.arg = t.arg
      /\ u.pc = "held" /\ u.seen = FieldsOf(TypeOf[t.entry], fields)
  <2>1. IsTx(t)
    BY <1>2 DEF Knows, Staged
  <2> QED
    BY <2>1 DEF IsTx, TxParts
<1>4. t.op \in EntryOps /\ t.type = None /\ EntryOps \cap (FieldOps \cup TypeOps) = {}
  BY <1>1, <1>2 DEF Knows, Staged, EntryOps, FieldOps, TypeOps
<1> HIDE DEF u
<1>5. Knows(u)
  <2>1. Asked(u)
    BY <1>3, <1>4 DEF Asked, EntryOps
  <2>2. Staged(u)
    BY <1>1, <1>2, <1>3, <1>4 DEF Knows, Staged
  <2>3. Saw(u)
    BY <1>3, <1>4 DEF Saw
  <2> QED
    BY <2>1, <2>2, <2>3 DEF Knows
<1>6. \A v \in Workers \ {w} : Apart(u, tx[v]) /\ Apart(tx[v], u)
  BY <1>1, <1>2, <1>3, <1>4 DEF Apart, Holds, Reads, RowFree, Sharable, Owns, Holding
<1> QED
  BY <1>1, <1>2, <1>5, <1>6, Goes

LEMMA CallGoes ==
  ASSUME IInv, NEW w \in Workers, NEW op \in EntryOps, NEW e, NEW data, NEW slug,
         Call(w, op, e, data, slug), IsData(data), Strong(data)
  PROVE  IInv'
<1> DEFINE u == [Idle EXCEPT !.op = op, !.pc = "called", !.entry = e, !.base = entries[e].version,
                             !.data = data, !.slug = slug]
<1>1. Set(w, u) /\ UNCHANGED <<types, fields, entries, index, had>> /\ calls < MaxCalls /\ calls' = calls + 1
  BY DEF Call, Counted
<1>2. u.op = op /\ u.pc = "called" /\ u.type = None /\ u.data = data /\ IsTx(u)
  BY IdleIs DEF IsTx, TxParts
<1> HIDE DEF u
<1>3. calls' \in 0..MaxCalls
  BY <1>1 DEF IInv, SchemaData, Schema
<1>4. Knows(u)
  BY <1>2 DEF Knows, Asked, Staged, Saw, EntryOps, FieldOps, TypeOps
<1>5. \A v \in Workers \ {w} : Apart(u, tx[v]) /\ Apart(tx[v], u)
  BY <1>2 DEF Apart, Holds, Reads
<1> QED
  BY <1>1, <1>3, <1>4, <1>5, Goes

LEMMA OwnGoes ==
  ASSUME IInv, NEW w \in Workers, NEW op \in FieldOps \cup TypeOps, NEW t, NEW arg, Own(w, op, t, arg),
         op \in FieldOps => t = Owner,
         \A u : u.op = op /\ u.seen = fields /\ u.arg = arg => Asked(u)
  PROVE  IInv'
<1> DEFINE u == [Idle EXCEPT !.op = op, !.pc = "held", !.type = t, !.seen = fields, !.arg = arg]
<1>1. /\ Set(w, u) /\ UNCHANGED <<types, fields, entries, index, had>>
      /\ calls < MaxCalls /\ calls' = calls + 1 /\ t \in DOMAIN types /\ Ownable(t)
  BY DEF Own, Counted
<1>2. /\ u.op = op /\ u.pc = "held" /\ u.type = t /\ u.entry = None /\ u.data = Nothing
      /\ u.seen = fields /\ u.arg = arg /\ IsTx(u)
  BY IdleIs DEF IsTx, TxParts
<1> HIDE DEF u
<1>3. calls' \in 0..MaxCalls /\ \A f \in DOMAIN fields : fields[f] \in FieldType
  BY <1>1 DEF IInv, SchemaData, Schema
<1>4. op \notin EntryOps
  BY DEF EntryOps, FieldOps, TypeOps
<1>5. Knows(u)
  <2>1. IsData(Nothing) /\ Strong(Nothing)
    BY DEF Nothing, IsData, IsFunction, Strong
  <2>2. Staged(u)
    BY <1>1, <1>2, <1>4, <2>1 DEF Staged
  <2>3. Saw(u)
    BY <1>2, <1>3, <1>4 DEF Saw
  <2> QED
    BY <1>2, <2>2, <2>3 DEF Knows
<1>6. \A v \in Workers \ {w} : Apart(u, tx[v]) /\ Apart(tx[v], u)
  BY <1>1, <1>2, <1>4 DEF Apart, Holds, Reads, Ownable, Owns, Shares, Holding
<1> QED
  BY <1>1, <1>3, <1>5, <1>6, Goes

LEMMA LockGoes ==
  ASSUME IInv, NEW w \in Workers, LockFields(w)  PROVE IInv'
<1> DEFINE t == tx[w]
           u == [t EXCEPT !.pc = "found", !.seen = Found(t.seen)]
<1>1. /\ t.pc = "held" /\ t.op \in {"retype", "untype"} /\ FieldsFree(w)
      /\ Set(w, u) /\ UNCHANGED <<types, fields, entries, index, had, calls>>
  BY DEF LockFields, Ready
<1>2. Knows(t) /\ calls \in 0..MaxCalls /\ \A f \in DOMAIN fields : fields[f] \in FieldType
  BY DEF IInv, Transactions, SchemaData, Schema
<1>3. /\ IsTx(u) /\ u.op = t.op /\ u.type = t.type /\ u.entry = t.entry /\ u.data = t.data /\ u.arg = t.arg
      /\ u.pc = "found" /\ u.seen = [f \in DOMAIN t.seen \cap DOMAIN fields |-> fields[f]]
  <2>1. IsTx(t)
    BY <1>2 DEF Knows, Staged
  <2> QED
    BY <2>1 DEF IsTx, TxParts, Found
<1> HIDE DEF u
<1>4. Knows(u)
  <2>1. Asked(u)
    BY <1>1, <1>2, <1>3 DEF Knows, Asked
  <2>2. Staged(u)
    BY <1>1, <1>2, <1>3 DEF Knows, Staged, EntryOps, FieldOps, TypeOps
  <2>3. Saw(u)
    BY <1>1, <1>2, <1>3 DEF Saw, EntryOps
  <2> QED
    BY <2>1, <2>2, <2>3 DEF Knows
<1>5. \A v \in Workers \ {w} : Apart(u, tx[v]) /\ Apart(tx[v], u)
  <2> TAKE v \in Workers \ {w}
  <2>1. Apart(t, tx[v]) /\ Apart(tx[v], t) /\ tx[v].pc # "found"
    BY <1>1 DEF IInv, Transactions, FieldsFree
  <2> QED
    BY <1>1, <1>3, <2>1 DEF Apart, Holds, Reads, EntryOps
<1> QED
  BY <1>1, <1>2, <1>4, <1>5, Goes

-----------------------------------------------------------------------------
(* Commits.                                                                *)

HadGrows == \A f \in Fields : had[f] \subseteq had'[f]
\* What was found of the fields stays true while they are locked.
FoundStays(w) ==
  \/ FieldsFree(w)
  \/ \A f \in DOMAIN fields : f \in DOMAIN fields' /\ fields'[f].allowed = fields[f].allowed

\* A transaction ends; what others rely on it changes only under its locks.
Ending(w) ==
  /\ tx' = [tx EXCEPT ![w] = Idle] /\ calls' = calls
  /\ HadGrows
  /\ \A e \in DOMAIN entries :
       e \in DOMAIN entries' \/ (Holds(tx[w]) /\ tx[w].op \in EntryOps /\ tx[w].entry = e)
  /\ \A x \in DOMAIN types : x \in DOMAIN types' \/ Owns(w, x)
  /\ \/ Owns(w, Owner)
     \/ /\ DOMAIN fields' = DOMAIN fields
        /\ \A f \in DOMAIN fields : fields'[f].key = fields[f].key /\ fields'[f].required = fields[f].required
  /\ FoundStays(w)

LEMMA OthersKnow ==
  ASSUME IInv, NEW w \in Workers, Ending(w), NEW v \in Workers \ {w}
  PROVE  Knows(tx[v])'
<1>1. PICK t : t = tx[v]
  OBVIOUS
<1>2. tx'[v] = t
  BY <1>1 DEF Ending, IInv, Transactions
<1>3. Knows(t) /\ Apart(tx[w], t) /\ Apart(t, tx[w])
  BY <1>1 DEF IInv, Transactions
<1>4. Asked(t) /\ Staged(t) /\ Saw(t)
  BY <1>3 DEF Knows
<1>5. DOMAIN types \subseteq Types /\ DOMAIN entries \subseteq Entries
  BY DEF IInv, SchemaData, Schema, Rows
<1>6. t.op \in EntryOps => t.op \notin FieldOps \cup TypeOps
  BY DEF EntryOps, FieldOps, TypeOps
<1>7. Owns(w, Owner) => ~(Holds(t) /\ t.type = Owner) /\ ~Reads(t, Owner)
  BY <1>3 DEF Apart, Owns, Holds, Holding
<1>8. t.op \in FieldOps \cup TypeOps => Holds(t)
  BY <1>4 DEF Staged, Holds
<1>9. Asked(t)'
  <2>1. t.op \in FieldOps => DOMAIN fields' = DOMAIN fields
    BY <1>4, <1>7, <1>8 DEF Ending, Staged
  <2> QED
    BY <1>4, <2>1 DEF Asked, FieldOps
<1>10. Staged(t)'
  <2>1. Strong(t.data)'
    <3>1. \A k \in DOMAIN t.data : t.data[k].field \in Fields
      BY <1>4 DEF Staged, IsData, IsValue
    <3> QED
      BY <1>4, <3>1 DEF HadGrows, Staged, Strong, Ending
  <2>2. t.op \in EntryOps /\ t.pc = "held" => t.entry \in DOMAIN entries'
    BY <1>3, <1>4 DEF Ending, Apart, Staged, Holds
  <2>3. t.op \in FieldOps \cup TypeOps => t.type \in DOMAIN types'
    BY <1>3, <1>4, <1>5, <1>8 DEF Ending, Apart, Staged, Owns, Holds, Holding
  <2> QED
    BY <1>4, <2>1, <2>2, <2>3 DEF Staged
<1>11. Saw(t)'
  <2>1. t.pc = "found" =>
          \A f \in DOMAIN t.seen : f \in DOMAIN fields' /\ t.seen[f].allowed = fields'[f].allowed
    BY <1>1, <1>4 DEF Saw, Ending, FoundStays, FieldsFree
  <2>2. ASSUME t.op \in EntryOps, t.pc = "held"
        PROVE  LET fs == FieldsOf(TypeOf[t.entry], fields') IN
               /\ DOMAIN t.seen = DOMAIN fs
               /\ \A f \in DOMAIN fs : t.seen[f].key = fs[f].key /\ t.seen[f].required = fs[f].required
    <3>1. CASE TypeOf[t.entry] = Owner
      <4>1. ~Owns(w, Owner)
        BY <1>7, <2>2, <3>1 DEF Reads, Holds
      <4> QED
        BY <1>4, <2>2, <3>1, <4>1 DEF Saw, Ending, FieldsOf
    <3>2. CASE TypeOf[t.entry] # Owner
      BY <1>4, <2>2, <3>2 DEF Saw, FieldsOf
    <3> QED
      BY <3>1, <3>2
  <2> QED
    BY <1>4, <2>1, <2>2 DEF Saw
<1> QED
  BY <1>2, <1>9, <1>10, <1>11 DEF Knows

LEMMA Commits ==
  ASSUME IInv, NEW w \in Workers, Ending(w), SchemaData'
  PROVE  IInv'
<1>1. IsFunction(tx') /\ DOMAIN tx' = Workers /\ tx'[w] = Idle /\ \A v \in Workers \ {w} : tx'[v] = tx[v]
  BY DEF Ending, IInv, Transactions, IsFunction
<1>2. \A v \in Workers : Knows(tx[v])'
  <2> TAKE v \in Workers
  <2>1. CASE v = w
    <3>1. Knows(Idle)'
      BY IdleIs, NothingStrong DEF Knows, Asked, Staged, Saw, EntryOps, FieldOps, TypeOps
    <3> QED
      BY <1>1, <2>1, <3>1
  <2>2. CASE v # w
    BY <2>2, OthersKnow
  <2> QED
    BY <2>1, <2>2
<1>3. \A v, x \in Workers : v # x => Apart(tx'[v], tx'[x])
  BY <1>1, IdleApart DEF IInv, Transactions
<1> QED
  BY <1>1, <1>2, <1>3 DEF IInv, Transactions

-----------------------------------------------------------------------------
(* Commits of entries.                                                     *)

LEMMA WrittenFits ==
  ASSUME IInv, NEW w \in Workers, tx' = [tx EXCEPT ![w] = Idle], UNCHANGED <<types, fields, had, calls>>,
         NEW e \in DOMAIN entries, NEW r, entries' = [entries EXCEPT ![e] = r],
         {i \in index : i.entry # e} \subseteq index', RowFits(e, r)'
  PROVE  IInv'
<1>1. IsFunction(entries') /\ DOMAIN entries' = DOMAIN entries
      /\ entries'[e] = r /\ \A d \in DOMAIN entries \ {e} : entries'[d] = entries[d]
  BY DEF IInv, SchemaData, Rows, IsFunction
<1>2. Schema'
  BY DEF IInv, SchemaData, Schema
<1>3. ASSUME NEW d \in DOMAIN entries \ {e}, NEW row, row = entries[d]  PROVE RowFits(d, row)'
  <2>1. RowFits(d, row)
    BY <1>3 DEF IInv, SchemaData, Rows
  <2>2. Public(d, row) => Public(d, row)'
    <3>1. \A f, v : Link(d, f, v) \in index => Link(d, f, v) \in index'
      BY DEF Link
    <3> QED
      BY <1>1, <3>1 DEF Public, FieldsOf, KeysOf
  <2> QED
    BY <2>1, <2>2 DEF RowFits, Strong, Placed, Addressed
<1>4. ASSUME NEW d \in DOMAIN entries'  PROVE TypeOf[d] \in DOMAIN types' /\ RowFits(d, entries[d])'
  <2>1. PICK row : row = entries'[d]
    OBVIOUS
  <2>2. RowFits(d, row)'
    BY <1>1, <1>3, <2>1
  <2> QED
    BY <1>1, <2>1, <2>2 DEF IInv, SchemaData, Rows
<1>5. Rows'
  BY <1>1, <1>4 DEF IInv, SchemaData, Rows
<1>6. Ending(w)
  BY <1>1 DEF Ending, HadGrows, FoundStays
<1> QED
  BY <1>2, <1>5, <1>6, Commits DEF SchemaData

LEMMA ValidFits ==
  ASSUME IInv, NEW w \in Workers, NEW t, t = tx[w], t.op \in EntryOps, t.pc = "held",
         NEW data, Valid(t.seen, data), Resolvable(w, t.seen, data)
  PROVE  LET fs == FieldsOf(TypeOf[t.entry], fields) IN
         /\ Valid(fs, data) /\ DOMAIN data \subseteq KeysOf(fs)
         /\ References(fs, data) = References(t.seen, data)
         /\ \A r \in References(fs, data) : r.target \in DOMAIN entries
         /\ \A f \in DOMAIN fs : fs[f].key \in DOMAIN data =>
              [field |-> f, target |-> data[fs[f].key].target] \in References(fs, data)
<1> DEFINE fs == FieldsOf(TypeOf[t.entry], fields)
<1>1. DOMAIN t.seen = DOMAIN fs
      /\ \A f \in DOMAIN fs : t.seen[f].key = fs[f].key /\ t.seen[f].required = fs[f].required
  BY DEF IInv, Transactions, Knows, Saw
<1> HIDE DEF fs
<1>2. KeysOf(t.seen) = KeysOf(fs)
  BY <1>1 DEF KeysOf
<1>3. Valid(fs, data) /\ DOMAIN data \subseteq KeysOf(fs)
  BY <1>1, <1>2 DEF Valid
<1>4. References(fs, data) = References(t.seen, data)
  BY <1>1 DEF References
<1>5. \A r \in References(fs, data) : r.target \in DOMAIN entries
  BY <1>4 DEF Resolvable
<1>6. \A f \in DOMAIN fs : fs[f].key \in DOMAIN data =>
        [field |-> f, target |-> data[fs[f].key].target] \in References(fs, data)
  BY DEF References
<1> QED
  BY <1>3, <1>4, <1>5, <1>6 DEF fs

\* The row that an entry had, apart from the data and the address.
Rewrites(row, e) ==
  /\ IsRow(row) /\ (row.draft # None => Strong(row.draft.data))
  /\ TypeOf[e] = Owner => \A k \in DOMAIN row.data : Placed(k, row.data[k].field)
  /\ row.path # None => row.status = "published"

LEMMA LiveFits ==
  ASSUME IInv, NEW w \in Workers, NEW t, t = tx[w], t.op \in EntryOps, t.pc = "held",
         NEW e, e = t.entry, NEW row, Rewrites(row, e), GoLive(w, row),
         Valid(t.seen, row.data), Resolvable(w, t.seen, row.data),
         UNCHANGED <<types, fields, had, calls>>
  PROVE  IInv'
<1>0. PICK path, data, r, fs :
        /\ path = IF row.status = "published" THEN Path(types[TypeOf[e]], row.slug) ELSE row.path
        /\ data = Written(row.data) /\ r = Touched([row EXCEPT !.path = path, !.data = data])
        /\ fs = FieldsOf(TypeOf[e], fields)
  OBVIOUS
<1>1. /\ entries' = [entries EXCEPT ![e] = r] /\ index' = Indexed(e, t.seen, row.data)
      /\ tx' = [tx EXCEPT ![w] = Idle]
  BY <1>0 DEF GoLive, Committed, Set
<1>2. e \in DOMAIN entries
  BY DEF IInv, Transactions, Knows, Staged
<1>3. /\ DOMAIN row.data \subseteq KeysOf(fs)
      /\ References(fs, row.data) = References(t.seen, row.data)
      /\ \A q \in References(fs, row.data) : q.target \in DOMAIN entries
      /\ \A f \in DOMAIN fs : fs[f].key \in DOMAIN row.data =>
           [field |-> f, target |-> row.data[fs[f].key].target] \in References(fs, row.data)
  BY <1>0, ValidFits
<1>4. /\ IsData(data) /\ DOMAIN data = DOMAIN row.data
      /\ \A k \in DOMAIN data : data[k].field = row.data[k].field /\ data[k].target = row.data[k].target
  <2>1. data = [k \in DOMAIN row.data |-> [row.data[k] EXCEPT !.by = "entry"]] /\ IsData(row.data)
    BY <1>0 DEF Written, Rewrites, IsRow
  <2>2. ASSUME NEW k \in DOMAIN data, NEW v, v = row.data[k]
        PROVE  IsValue(data[k]) /\ data[k].field = v.field /\ data[k].target = v.target
    <3>1. data[k] = [v EXCEPT !.by = "entry"] /\ IsValue(v)
      BY <2>1, <2>2 DEF IsData
    <3> QED
      BY <3>1 DEF IsValue, ValueParts
  <2>3. IsFunction(data) /\ DOMAIN data = DOMAIN row.data /\ DOMAIN data \subseteq Keys
    BY <2>1 DEF IsData, IsFunction
  <2> QED
    BY <2>2, <2>3 DEF IsData
<1>5. /\ r = [x \in RowParts |-> r[x]] /\ r.path = path /\ r.data = data /\ r.draft = row.draft
      /\ r.status = row.status /\ r.slug = row.slug
  BY <1>0 DEF Rewrites, IsRow, RowParts, Touched
<1>6. DOMAIN entries' = DOMAIN entries
  BY <1>1
<1>7. IsRow(r)
  BY <1>4, <1>5 DEF Rewrites, IsRow
<1>8. Public(e, r)'
  <2>1. \A k \in DOMAIN data : data[k].target \in DOMAIN entries'
    <3> TAKE k \in DOMAIN data
    <3>1. PICK f \in DOMAIN fs : fs[f].key = k
      BY <1>3, <1>4 DEF KeysOf
    <3>2. PICK q : q = [field |-> f, target |-> row.data[k].target]
      OBVIOUS
    <3>3. q \in References(fs, row.data) /\ q.target = row.data[k].target
      BY <1>3, <1>4, <3>1, <3>2
    <3> QED
      BY <1>3, <1>4, <1>6, <3>3
  <2>2. ASSUME NEW f \in DOMAIN fs, fs[f].key \in DOMAIN data
        PROVE  Link(e, f, data[fs[f].key]) \in index'
    <3>1. PICK q : q = [field |-> f, target |-> row.data[fs[f].key].target]
      OBVIOUS
    <3>2. /\ q \in References(t.seen, row.data) /\ q.field = f
          /\ q.target = data[fs[f].key].target
      BY <1>3, <1>4, <2>2, <3>1
    <3>3. [entry |-> e, field |-> q.field, target |-> q.target] \in index'
      BY <1>1, <3>2 DEF Indexed
    <3> QED
      BY <3>2, <3>3 DEF Link
  <2>3. FieldsOf(TypeOf[e], fields)' = fs
    BY <1>0 DEF FieldsOf
  <2>4. fs = Nothing \/ fs = fields
    BY <1>0 DEF FieldsOf
  <2>5. \A f \in DOMAIN fs : fields'[f].key = fs[f].key
    BY <2>4 DEF Nothing
  <2> QED
    BY <1>3, <1>4, <1>5, <2>1, <2>2, <2>3, <2>5 DEF Public
<1>9. Addressed(e, r)'
  BY <1>0, <1>5 DEF Addressed, Rewrites
<1>10. RowFits(e, r)'
  BY <1>4, <1>5, <1>7, <1>8, <1>9 DEF RowFits, Rewrites, Strong, Placed
<1>11. {i \in index : i.entry # e} \subseteq index'
  BY <1>1 DEF Indexed
<1> QED
  BY <1>1, <1>2, <1>10, <1>11, WrittenFits

LEMMA SaveFits ==
  ASSUME IInv, NEW w \in Workers, CommitSave(w)  PROVE IInv'
<1>0. PICK t, e, row : t = tx[w] /\ e = t.entry /\ row = entries[e]
  OBVIOUS
<1>1. /\ t.op = "save" /\ t.op \in EntryOps /\ t.pc = "held"
      /\ Valid(t.seen, t.data) /\ Resolvable(w, t.seen, t.data) /\ UNCHANGED <<types, fields, had, calls>>
  BY <1>0 DEF CommitSave, Ready, EntryOps
<1>2. e \in DOMAIN entries /\ IsData(t.data) /\ Strong(t.data)
  BY <1>0, <1>1 DEF IInv, Transactions, Knows, Staged
<1>3. RowFits(e, row) /\ IsRow(row)
  BY <1>0, <1>2 DEF IInv, SchemaData, Rows, RowFits
<1>4. CASE types[TypeOf[e]].drafts /\ row.status = "published"
  <2>0. PICK draft, r : draft = [data |-> t.data, slug |-> t.slug] /\ r = Touched([row EXCEPT !.draft = draft])
    OBVIOUS
  <2>1. entries' = [entries EXCEPT ![e] = r] /\ index' = index /\ tx' = [tx EXCEPT ![w] = Idle]
    BY <1>0, <1>4, <2>0 DEF CommitSave, Committed, Set
  <2>2. /\ r = [x \in RowParts |-> r[x]] /\ r.path = row.path /\ r.data = row.data /\ r.draft = draft
        /\ r.status = row.status /\ r.slug = row.slug
    BY <1>3, <2>0 DEF IsRow, RowParts, Touched
  <2>3. draft = [data |-> draft.data, slug |-> draft.slug] /\ draft.data = t.data
    BY <2>0
  <2>4. DOMAIN entries' = DOMAIN entries
    BY <2>1
  <2>5. RowFits(e, r)'
    <3>1. IsRow(r) /\ Strong(r.draft.data)' /\ Addressed(e, r)'
      BY <1>1, <1>2, <1>3, <2>2, <2>3 DEF RowFits, IsRow, Strong, Addressed
    <3>2. TypeOf[e] = Owner => \A k \in DOMAIN r.data : Placed(k, r.data[k].field)'
      BY <1>1, <1>3, <2>2 DEF RowFits, Placed
    <3>3. Public(e, row)
      BY <1>3, <1>4 DEF RowFits
    <3>4. Public(e, r)'
      BY <1>1, <2>1, <2>2, <2>4, <3>3 DEF Public, FieldsOf, KeysOf
    <3> QED
      BY <3>1, <3>2, <3>4 DEF RowFits
  <2> QED
    BY <1>1, <1>2, <2>1, <2>5, WrittenFits
<1>5. CASE ~(types[TypeOf[e]].drafts /\ row.status = "published")
  <2>0. PICK new : new = [row EXCEPT !.data = t.data, !.slug = t.slug]
    OBVIOUS
  <2>1. GoLive(w, new)
    BY <1>0, <1>5, <2>0 DEF CommitSave
  <2>2. /\ new = [x \in RowParts |-> new[x]] /\ new.path = row.path /\ new.data = t.data
        /\ new.draft = row.draft /\ new.status = row.status
    BY <1>3, <2>0 DEF IsRow, RowParts
  <2>3. Rewrites(new, e)
    BY <1>2, <1>3, <2>2 DEF Rewrites, RowFits, IsRow, Strong, Placed, Addressed
  <2> QED
    BY <1>0, <1>1, <2>1, <2>2, <2>3, LiveFits
<1> QED
  BY <1>4, <1>5

LEMMA PromotedFits ==
  ASSUME NEW e, NEW row, RowFits(e, row)
  PROVE  LET copy == Promoted(row) IN
         /\ Rewrites(copy, e) /\ copy.status = row.status /\ copy.path = row.path
<1> DEFINE copy == Promoted(row)
<1>1. IsRow(row)
  BY DEF RowFits
<1>2. CASE row.draft = None
  BY <1>1, <1>2 DEF Promoted, Rewrites, RowFits, Addressed
<1>3. CASE row.draft # None
  <2>1. /\ copy = [x \in RowParts |-> copy[x]] /\ copy.data = row.draft.data /\ copy.draft = None
        /\ copy.status = row.status /\ copy.path = row.path
    BY <1>1, <1>3 DEF Promoted, IsRow, RowParts
  <2>2. IsData(row.draft.data) /\ Strong(row.draft.data) /\ (row.path # None => row.status = "published")
    BY <1>1, <1>3 DEF RowFits, IsRow, Addressed
  <2> HIDE DEF copy
  <2>3. Rewrites(copy, e)
    BY <2>1, <2>2 DEF Rewrites, IsRow, Strong, Placed
  <2> QED
    BY <2>1, <2>3 DEF copy
<1> QED
  BY <1>2, <1>3

LEMMA PublishFits ==
  ASSUME IInv, NEW w \in Workers, CommitPublish(w)  PROVE IInv'
<1>0. PICK t, e, row, copy, new :
        /\ t = tx[w] /\ e = t.entry /\ row = entries[e] /\ copy = Promoted(row)
        /\ new = [copy EXCEPT !.status = "published"]
  OBVIOUS
<1>1. /\ t.op \in EntryOps /\ t.pc = "held" /\ Valid(t.seen, copy.data) /\ Resolvable(w, t.seen, copy.data)
      /\ GoLive(w, new) /\ UNCHANGED <<types, fields, had, calls>>
  BY <1>0 DEF CommitPublish, Ready, EntryOps
<1>2. e \in DOMAIN entries
  BY <1>0, <1>1 DEF IInv, Transactions, Knows, Staged
<1>3. RowFits(e, row)
  BY <1>0, <1>2 DEF IInv, SchemaData, Rows
<1>4. Rewrites(copy, e)
  BY <1>0, <1>3, PromotedFits
<1>5. /\ new = [x \in RowParts |-> new[x]] /\ new.data = copy.data /\ new.draft = copy.draft
      /\ new.status = "published"
  BY <1>0, <1>4 DEF Rewrites, IsRow, RowParts
<1>6. Rewrites(new, e)
  BY <1>4, <1>5 DEF Rewrites, IsRow
<1> QED
  BY <1>0, <1>1, <1>5, <1>6, LiveFits

LEMMA PutAwayFits ==
  ASSUME IInv, NEW w \in Workers, CommitPutAway(w)  PROVE IInv'
<1>0. PICK t, e, row, copy, status, r :
        /\ t = tx[w] /\ e = t.entry /\ row = entries[e] /\ copy = Promoted(row)
        /\ status = (IF t.op = "trash" THEN "trashed" ELSE "draft")
        /\ r = Touched([copy EXCEPT !.path = None, !.status = status])
  OBVIOUS
<1>1. /\ t.op \in EntryOps /\ t.pc = "held" /\ UNCHANGED <<types, fields, index, had, calls>>
      /\ entries' = [entries EXCEPT ![e] = r] /\ tx' = [tx EXCEPT ![w] = Idle]
  BY <1>0 DEF CommitPutAway, Ready, EntryOps, Committed, Set
<1>2. e \in DOMAIN entries
  BY <1>0, <1>1 DEF IInv, Transactions, Knows, Staged
<1>3. RowFits(e, row)
  BY <1>0, <1>2 DEF IInv, SchemaData, Rows
<1>4. Rewrites(copy, e)
  BY <1>0, <1>3, PromotedFits
<1>5. /\ r = [x \in RowParts |-> r[x]] /\ r.data = copy.data /\ r.draft = copy.draft
      /\ r.status = status /\ r.path = None
  BY <1>0, <1>4 DEF Rewrites, IsRow, RowParts, Touched
<1>6. RowFits(e, r)'
  <2>1. status # "published"
    BY <1>0
  <2> QED
    BY <1>1, <1>4, <1>5, <2>1 DEF Rewrites, RowFits, IsRow, Strong, Placed, Addressed
<1> QED
  BY <1>1, <1>2, <1>6, WrittenFits

LEMMA StrippedFits ==
  ASSUME SchemaData, NEW e, UNCHANGED <<types, fields, had, calls>>,
         DOMAIN entries' = DOMAIN entries \ {e}, index' = {i \in index : e \notin {i.entry, i.target}},
         NEW d \in DOMAIN entries \ {e}, NEW row, row = entries[d], NEW r,
         r = IF d \in Referring(e) THEN StrippedOf(row, e) ELSE row
  PROVE  RowFits(d, r)'
<1>0. PICK gone : gone = {k \in DOMAIN row.data \cap KeysOf(fields) : row.data[k].target = e}
  OBVIOUS
<1>1. RowFits(d, row) /\ IsRow(row) /\ IsData(row.data)
  BY DEF SchemaData, Rows, RowFits, IsRow
<1>2. /\ r = [x \in RowParts |-> r[x]] /\ IsData(r.data)
      /\ r.draft = row.draft /\ r.status = row.status /\ r.path = row.path /\ r.slug = row.slug
      /\ DOMAIN r.data \subseteq DOMAIN row.data /\ \A k \in DOMAIN r.data : r.data[k] = row.data[k]
      /\ d \in Referring(e) => DOMAIN r.data \cap gone = {}
  <2>1. CASE d \in Referring(e) /\ gone # {}
    <3>1. PICK data : data = Without(row.data, gone)
      OBVIOUS
    <3>2. r = Touched([row EXCEPT !.data = data])
      BY <1>0, <2>1, <3>1 DEF StrippedOf
    <3>3. /\ IsData(data) /\ DOMAIN data = DOMAIN row.data \ gone
          /\ \A k \in DOMAIN data : data[k] = row.data[k]
      BY <1>1, <3>1 DEF Without, IsData, IsFunction
    <3>4. /\ r = [x \in RowParts |-> r[x]] /\ r.data = data
          /\ r.draft = row.draft /\ r.status = row.status /\ r.path = row.path /\ r.slug = row.slug
      BY <1>1, <3>2 DEF IsRow, RowParts, Touched
    <3> QED
      BY <3>3, <3>4
  <2>2. CASE ~(d \in Referring(e) /\ gone # {})
    <3>1. r = row
      BY <1>0, <2>2 DEF StrippedOf
    <3> QED
      BY <1>1, <2>2, <3>1 DEF IsRow
  <2> QED
    BY <2>1, <2>2
<1>3. IsRow(r)
  BY <1>1, <1>2 DEF IsRow
<1>4. TypeOf[d] = Owner => \A k \in DOMAIN r.data : Placed(k, r.data[k].field)'
  BY <1>1, <1>2 DEF RowFits, Placed
<1>5. ASSUME r.status = "published"  PROVE Public(d, r)'
  <2>1. Public(d, row)
    BY <1>1, <1>2, <1>5 DEF RowFits
  <2>2. PICK fs : fs = FieldsOf(TypeOf[d], fields)
    OBVIOUS
  <2>3. fs = FieldsOf(TypeOf[d], fields)' /\ (fs = Nothing \/ fs = fields)
    BY <2>2 DEF FieldsOf
  <2>4. \A f \in DOMAIN fs : fields[f].key = fs[f].key /\ f \in DOMAIN fields
    BY <2>3 DEF Nothing
  <2>5. ASSUME NEW f \in DOMAIN fs, NEW k \in DOMAIN r.data, k = fs[f].key, r.data[k].by # "schema"
        PROVE  Link(d, f, r.data[k]) \in index'
    <3>1. Link(d, f, row.data[k]) \in index
      BY <1>2, <2>1, <2>2, <2>4, <2>5 DEF Public
    <3>2. row.data[k].target # e
      <4> SUFFICES ASSUME row.data[k].target = e PROVE FALSE
        OBVIOUS
      <4>1. d \in Referring(e)
        BY <3>1 DEF Referring, Link
      <4>2. k \in gone
        BY <1>0, <1>2, <2>4, <2>5 DEF KeysOf
      <4> QED
        BY <1>2, <4>1, <4>2
    <3> QED
      BY <1>2, <3>1, <3>2 DEF Link
  <2>6. ASSUME NEW k \in DOMAIN r.data, r.data[k].by # "schema"
        PROVE  r.data[k].target \in DOMAIN entries'
    <3>1. PICK f \in DOMAIN fs : fs[f].key = k
      BY <1>2, <2>1, <2>2 DEF Public, KeysOf
    <3>2. Link(d, f, r.data[k]) \in index'
      BY <2>5, <2>6, <3>1
    <3>3. r.data[k].target # e
      BY <3>2 DEF Link
    <3> QED
      BY <1>2, <2>1, <2>6, <3>3 DEF Public
  <2>7. DOMAIN r.data \subseteq KeysOf(fs)
    BY <1>2, <2>1, <2>2 DEF Public
  <2> QED
    BY <2>3, <2>4, <2>5, <2>6, <2>7 DEF Public
<1>6. Addressed(d, r)'
  BY <1>1, <1>2 DEF RowFits, Addressed
<1> QED
  BY <1>1, <1>2, <1>3, <1>4, <1>5, <1>6 DEF RowFits, Strong

LEMMA DeleteFits ==
  ASSUME IInv, NEW w \in Workers, CommitDelete(w)  PROVE IInv'
<1>0. PICK t, e : t = tx[w] /\ e = t.entry
  OBVIOUS
<1>1. /\ t.op = "delete" /\ t.op \in EntryOps /\ t.pc = "held" /\ UNCHANGED <<types, fields, had, calls>>
      /\ entries' = [d \in DOMAIN entries \ {e} |->
                       IF d \in Referring(e) THEN StrippedOf(entries[d], e) ELSE entries[d]]
      /\ index' = {i \in index : e \notin {i.entry, i.target}} /\ tx' = [tx EXCEPT ![w] = Idle]
  BY <1>0 DEF CommitDelete, Ready, EntryOps, Committed, Set
<1>2. DOMAIN entries' = DOMAIN entries \ {e} /\ IsFunction(entries')
  BY <1>1 DEF IsFunction
<1>3. ASSUME NEW d \in DOMAIN entries'  PROVE RowFits(d, entries[d])'
  <2>1. PICK row, r : row = entries[d] /\ r = entries'[d]
    OBVIOUS
  <2>2. r = IF d \in Referring(e) THEN StrippedOf(row, e) ELSE row
    BY <1>1, <1>2, <2>1
  <2>3. RowFits(d, r)'
    BY <1>1, <1>2, <2>1, <2>2, StrippedFits DEF IInv
  <2> QED
    BY <2>1, <2>3
<1>4. Rows' /\ Schema'
  BY <1>1, <1>2, <1>3 DEF IInv, SchemaData, Rows, Schema
<1>5. Ending(w)
  BY <1>0, <1>1, <1>2 DEF Ending, HadGrows, FoundStays, Holds
<1> QED
  BY <1>4, <1>5, Commits DEF SchemaData

-----------------------------------------------------------------------------
(* Commits of fields.                                                      *)

LEMMA RewrittenIs ==
  ASSUME SchemaData, NEW D, entries' = Rewritten(D)
  PROVE  /\ IsFunction(entries') /\ DOMAIN entries' = DOMAIN entries
         /\ \A e, r, row : e \in DOMAIN entries /\ r = entries'[e] /\ row = entries[e] =>
              /\ r = [x \in RowParts |-> r[x]] /\ r.status = row.status /\ r.slug = row.slug
              /\ r.draft = row.draft /\ r.path = row.path
              /\ r.data = IF e \in DOMAIN D THEN D[e] ELSE row.data
<1>1. IsFunction(entries') /\ DOMAIN entries' = DOMAIN entries
  BY DEF Rewritten, IsFunction
<1>2. ASSUME NEW e \in DOMAIN entries, NEW r, NEW row, r = entries'[e], row = entries[e]
      PROVE  /\ r = [x \in RowParts |-> r[x]] /\ r.status = row.status /\ r.slug = row.slug
             /\ r.draft = row.draft /\ r.path = row.path
             /\ r.data = IF e \in DOMAIN D THEN D[e] ELSE row.data
  <2>1. row = [x \in RowParts |-> row[x]]
    BY <1>2 DEF SchemaData, Rows, RowFits, IsRow
  <2>2. CASE e \in DOMAIN D
    <3>1. PICK d : d = D[e]
      OBVIOUS
    <3>2. r = Touched([row EXCEPT !.data = d])
      BY <1>2, <2>2, <3>1 DEF Rewritten
    <3> QED
      BY <2>1, <2>2, <3>1, <3>2 DEF RowParts, Touched
  <2>3. CASE e \notin DOMAIN D
    BY <1>2, <2>1, <2>3 DEF Rewritten
  <2> QED
    BY <2>2, <2>3
<1> QED
  BY <1>1, <1>2

LEMMA NotRewritten == ASSUME SchemaData PROVE entries = Rewritten(Nothing)
<1>1. DOMAIN Nothing = {}
  BY DEF Nothing
<1> QED
  BY <1>1 DEF SchemaData, Rows, IsFunction, Rewritten

LEMMA FieldsFit ==
  ASSUME IInv, NEW w \in Workers, tx[w].op \in FieldOps, tx[w].pc = "held",
         tx' = [tx EXCEPT ![w] = Idle], UNCHANGED <<types, calls>>,
         NEW D, entries' = Rewritten(D), DOMAIN D \subseteq Of(Owner), \A e \in DOMAIN D : IsData(D[e]),
         Schema', HadGrows,
         FoundStays(w),
         \A e, r, row :
           e \in Of(Owner) /\ r = entries'[e] /\ row = entries[e] /\ RowFits(e, row) /\ r.status = row.status
           /\ r.data = (IF e \in DOMAIN D THEN D[e] ELSE row.data) =>
             /\ \A k \in DOMAIN r.data : Placed(k, r.data[k].field)'
             /\ r.status = "published" => Public(e, r)'
  PROVE  IInv'
<1>1. /\ IsFunction(entries') /\ DOMAIN entries' = DOMAIN entries
      /\ \A e, r, row : e \in DOMAIN entries /\ r = entries'[e] /\ row = entries[e] =>
           /\ r = [x \in RowParts |-> r[x]] /\ r.status = row.status /\ r.slug = row.slug
           /\ r.draft = row.draft /\ r.path = row.path
           /\ r.data = IF e \in DOMAIN D THEN D[e] ELSE row.data
  BY RewrittenIs DEF IInv
<1>2. ASSUME NEW e \in DOMAIN entries, NEW r, r = entries'[e]  PROVE RowFits(e, r)'
  <2>1. PICK row : row = entries[e]
    OBVIOUS
  <2>2. RowFits(e, row) /\ IsRow(row)
    BY <2>1 DEF IInv, SchemaData, Rows, RowFits
  <2>3. /\ r = [x \in RowParts |-> r[x]] /\ r.status = row.status /\ r.slug = row.slug
        /\ r.draft = row.draft /\ r.path = row.path
        /\ r.data = IF e \in DOMAIN D THEN D[e] ELSE row.data
    BY <1>1, <1>2, <2>1
  <2>4. IsRow(r)
    BY <2>2, <2>3 DEF IsRow
  <2>5. r.draft # None => Strong(r.draft.data)'
    <3>1. r.draft # None => Strong(r.draft.data) /\ IsData(r.draft.data)
      BY <2>2, <2>3 DEF RowFits, IsRow
    <3> QED
      BY <3>1 DEF HadGrows, Strong, IsData, IsValue
  <2>6. Addressed(e, r)'
    BY <2>2, <2>3 DEF RowFits, Addressed
  <2>7. /\ TypeOf[e] = Owner => \A k \in DOMAIN r.data : Placed(k, r.data[k].field)'
        /\ r.status = "published" => Public(e, r)'
    <3>1. CASE TypeOf[e] = Owner
      BY <1>2, <2>1, <2>2, <2>3, <3>1 DEF Of
    <3>2. CASE TypeOf[e] # Owner
      <4>1. e \notin DOMAIN D
        BY <3>2 DEF Of
      <4> QED
        BY <1>1, <2>2, <2>3, <3>2, <4>1 DEF RowFits, Public, FieldsOf, Nothing
    <3> QED
      BY <3>1, <3>2
  <2> QED
    BY <2>4, <2>5, <2>6, <2>7 DEF RowFits
<1>3. ASSUME NEW e \in DOMAIN entries'  PROVE TypeOf[e] \in DOMAIN types' /\ RowFits(e, entries[e])'
  <2>1. PICK r : r = entries'[e]
    OBVIOUS
  <2>2. RowFits(e, r)'
    BY <1>1, <1>2, <2>1
  <2> QED
    BY <1>1, <2>1, <2>2 DEF IInv, SchemaData, Rows
<1>4. Rows'
  BY <1>1, <1>3 DEF IInv, SchemaData, Rows
<1>5. Owns(w, Owner)
  BY DEF IInv, Transactions, Knows, Staged, Owns, Holding
<1>6. Ending(w)
  BY <1>1, <1>5 DEF Ending
<1> QED
  BY <1>4, <1>6, Commits DEF SchemaData

\* What a default and a copy add.
Extended(D, k, f) ==
  /\ DOMAIN D \subseteq Of(Owner)
  /\ \A e \in DOMAIN D :
       /\ IsData(D[e]) /\ DOMAIN D[e] = DOMAIN entries[e].data \cup {k}
       /\ \A j \in DOMAIN entries[e].data \ {k} : D[e][j] = entries[e].data[j]
       /\ D[e][k].field = f /\ D[e][k].by = "schema"

IsAdded(a, d, k, v) ==
  /\ IsData(a) /\ DOMAIN a = DOMAIN d \cup {k} /\ a[k] = v
  /\ \A j \in DOMAIN d \ {k} : a[j] = d[j]

LEMMA AddedIs ==
  ASSUME NEW d, IsData(d), NEW k \in Keys, NEW v, IsValue(v)
  PROVE  IsAdded(Added(d, k, v), d, k, v)
BY DEF IsAdded, Added, IsData, IsFunction

LEMMA ValueIs ==
  ASSUME NEW f \in Fields, NEW e, NEW by
  PROVE  LET v == Value(f, e, by) IN IsValue(v) /\ v.field = f /\ v.target = e /\ v.by = by
BY DEF Value, IsValue, ValueParts

LEMMA NothingExtended == \A k, f : Extended(Nothing, k, f)
BY DEF Extended, Nothing

LEMMA BackfillExtends ==
  ASSUME SchemaData, NEW f \in Fields, NEW k \in Keys, NEW default
  PROVE  \E D : Backfilled(f, k, default) = Rewritten(D) /\ Extended(D, k, f)
<1>1. CASE default = None
  BY <1>1, NotRewritten, NothingExtended DEF Backfilled
<1>2. CASE default # None
  <2>1. PICK v : v = Value(f, default, "schema")
    OBVIOUS
  <2>2. PICK D : D = [e \in Of(Owner) \ Having(k) |-> Added(entries[e].data, k, v)]
    OBVIOUS
  <2>3. Backfilled(f, k, default) = Rewritten(D)
    BY <1>2, <2>1, <2>2 DEF Backfilled
  <2>4. IsValue(v) /\ v.field = f /\ v.by = "schema"
    BY <2>1, ValueIs
  <2>5. ASSUME NEW e \in DOMAIN D
        PROVE  /\ IsData(D[e]) /\ DOMAIN D[e] = DOMAIN entries[e].data \cup {k} /\ D[e][k] = v
               /\ \A j \in DOMAIN entries[e].data \ {k} : D[e][j] = entries[e].data[j]
    <3>1. PICK d, a : d = entries[e].data /\ a = D[e]
      OBVIOUS
    <3>2. IsData(d) /\ a = Added(d, k, v)
      BY <2>2, <3>1 DEF SchemaData, Rows, RowFits, IsRow, Of
    <3>3. IsAdded(a, d, k, v)
      BY <2>4, <3>2, AddedIs
    <3> QED
      BY <3>1, <3>3 DEF IsAdded
  <2>6. Extended(D, k, f)
    BY <2>2, <2>4, <2>5 DEF Extended
  <2> QED
    BY <2>3, <2>6
<1> QED
  BY <1>1, <1>2

GrownBy(f, k) ==
  /\ f \in DOMAIN fields' /\ fields'[f].key = k
  /\ \A g \in DOMAIN fields : g \in DOMAIN fields' /\ fields'[g].key = fields[g].key
  /\ \A g \in DOMAIN fields' : g \in DOMAIN fields \/ (g = f /\ k \notin KeysOf(fields))

LEMMA ExtensionFits ==
  ASSUME IInv, NEW w \in Workers, tx[w].op \in FieldOps, tx[w].pc = "held",
         tx' = [tx EXCEPT ![w] = Idle], UNCHANGED <<types, index, calls>>,
         NEW D, NEW k, NEW f, entries' = Rewritten(D), Extended(D, k, f),
         Schema', HadGrows,
         FoundStays(w),
         GrownBy(f, k)
  PROVE  IInv'
<1>1. DOMAIN D \subseteq Of(Owner) /\ \A e \in DOMAIN D : IsData(D[e])
  BY DEF Extended
<1>2. DOMAIN entries' = DOMAIN entries
  BY RewrittenIs DEF IInv
<1>3. ASSUME NEW e \in Of(Owner), NEW r, NEW row, r = entries'[e], row = entries[e], RowFits(e, row),
             r.status = row.status, r.data = (IF e \in DOMAIN D THEN D[e] ELSE row.data)
      PROVE  /\ \A j \in DOMAIN r.data : Placed(j, r.data[j].field)'
             /\ r.status = "published" => Public(e, r)'
  <2>1. TypeOf[e] = Owner /\ FieldsOf(TypeOf[e], fields) = fields /\ FieldsOf(TypeOf[e], fields)' = fields'
    BY DEF Of, FieldsOf
  <2>2. /\ DOMAIN r.data = DOMAIN row.data \/ DOMAIN r.data = DOMAIN row.data \cup {k}
        /\ \A j \in DOMAIN r.data :
             \/ j \in DOMAIN row.data /\ r.data[j] = row.data[j]
             \/ e \in DOMAIN D /\ j = k /\ r.data[j].field = f /\ r.data[j].by = "schema"
    <3>1. CASE e \in DOMAIN D
      <4>1. /\ DOMAIN D[e] = DOMAIN row.data \cup {k} /\ D[e][k].field = f /\ D[e][k].by = "schema"
            /\ \A j \in DOMAIN row.data \ {k} : D[e][j] = row.data[j]
        BY <1>3, <3>1 DEF Extended
      <4>2. r.data = D[e]
        BY <1>3, <3>1
      <4> QED
        BY <3>1, <4>1, <4>2
    <3>2. CASE e \notin DOMAIN D
      BY <1>3, <3>2
    <3> QED
      BY <3>1, <3>2
  <2>3. ASSUME NEW j \in DOMAIN r.data, NEW v, v = r.data[j]  PROVE Placed(j, v.field)'
    <3>1. CASE j \in DOMAIN row.data /\ v = row.data[j]
      <4>1. Placed(j, v.field) /\ v.field \in Fields
        BY <1>3, <2>1, <3>1 DEF RowFits, IsRow, IsData, IsValue
      <4> QED
        BY <4>1 DEF HadGrows, GrownBy, Placed, IInv, SchemaData, Schema
    <3>2. CASE j = k /\ v.field = f
      BY <3>2 DEF Schema, Placed, GrownBy
    <3> QED
      BY <2>2, <2>3, <3>1, <3>2
  <2>4. ASSUME r.status = "published"  PROVE Public(e, r)'
    <3>1. Public(e, row)
      BY <1>3, <2>4 DEF RowFits
    <3>2. KeysOf(fields) \subseteq KeysOf(fields') /\ k \in KeysOf(fields')
      BY DEF KeysOf, GrownBy
    <3>3. DOMAIN r.data \subseteq KeysOf(fields')
      BY <2>1, <2>2, <3>1, <3>2 DEF Public
    <3>4. \A j \in DOMAIN r.data : r.data[j].by = "schema" \/ r.data[j].target \in DOMAIN entries'
      BY <1>2, <2>2, <3>1 DEF Public
    <3>5. ASSUME NEW g \in DOMAIN fields', NEW j \in DOMAIN r.data, j = fields'[g].key, r.data[j].by # "schema"
          PROVE  Link(e, g, r.data[j]) \in index'
      <4>1. j \in DOMAIN row.data /\ r.data[j] = row.data[j]
        BY <2>2, <3>5
      <4>2. g \in DOMAIN fields /\ fields[g].key = j
        BY <2>1, <3>1, <3>5, <4>1 DEF Public, KeysOf, GrownBy
      <4> QED
        BY <2>1, <3>1, <3>5, <4>1, <4>2 DEF Public
    <3> QED
      BY <2>1, <3>3, <3>4, <3>5 DEF Public
  <2> QED
    BY <2>3, <2>4
<1> QED
  BY <1>1, <1>3, FieldsFit

LEMMA FieldAdded ==
  ASSUME Schema, UNCHANGED <<types, calls>>, NEW f \in Fresh, NEW k \in Keys \ KeysOf(fields),
         NEW new \in FieldType, new.key = k, fields' = Added(fields, f, new), Had(f, k)
  PROVE  Schema' /\ HadGrows /\ GrownBy(f, k) /\ \A w \in Workers : FoundStays(w)
<1>1. f \in Fields /\ f \notin DOMAIN fields
  BY DEF Schema, Fresh
<1>2. /\ IsFunction(fields') /\ DOMAIN fields' = DOMAIN fields \cup {f} /\ fields'[f] = new
      /\ \A g \in DOMAIN fields : fields'[g] = fields[g]
  BY <1>1 DEF Added, IsFunction
<1>3. had' \in [Fields -> SUBSET Keys] /\ k \in had'[f] /\ \A g \in Fields : had[g] \subseteq had'[g]
  BY <1>1 DEF Had, Schema
<1>4. \A g \in DOMAIN fields : fields[g].key # k
  BY DEF KeysOf
<1>5. \A g \in DOMAIN fields' : fields'[g] \in FieldType /\ fields'[g].key \in had'[g]
  BY <1>1, <1>2, <1>3 DEF Schema
<1>6. \A g, h \in DOMAIN fields' : fields'[g].key = fields'[h].key => g = h
  BY <1>2, <1>4 DEF Schema
<1>7. Schema'
  BY <1>1, <1>2, <1>3, <1>5, <1>6 DEF Schema, FieldType
<1> QED
  BY <1>2, <1>3, <1>4, <1>7 DEF HadGrows, GrownBy, FoundStays

LEMMA AddFits ==
  ASSUME IInv, NEW w \in Workers, CommitAdd(w)  PROVE IInv'
<1>0. PICK t, a, f, k, new :
        /\ t = tx[w] /\ a = t.arg /\ f = a.field /\ k = a.key
        /\ new = [key |-> k, required |-> a.required, allowed |-> a.allowed]
  OBVIOUS
<1>1. /\ t.op = "add" /\ t.op \in FieldOps /\ t.pc = "held" /\ f \in Fresh /\ k \notin KeysOf(fields)
      /\ fields' = Added(fields, f, new) /\ entries' = Backfilled(f, k, a.default) /\ Had(f, k)
      /\ tx' = [tx EXCEPT ![w] = Idle] /\ UNCHANGED <<types, index, calls>>
  BY <1>0 DEF CommitAdd, SchemaStep, Ready, Committed, Set, FieldOps
<1>2. Asked(t) /\ Schema /\ SchemaData
  BY <1>0 DEF IInv, Transactions, Knows, SchemaData
<1>3. f \in Fields /\ k \in Keys /\ a.required \in BOOLEAN /\ a.allowed \in SUBSET TypeKeys
  BY <1>0, <1>1, <1>2 DEF Asked
<1>4. new \in FieldType /\ new.key = k
  BY <1>0, <1>3 DEF FieldType
<1>5. Schema' /\ HadGrows /\ GrownBy(f, k) /\ FoundStays(w)
  BY <1>1, <1>2, <1>3, <1>4, FieldAdded
<1>6. PICK D : entries' = Rewritten(D) /\ Extended(D, k, f)
  BY <1>1, <1>2, <1>3, BackfillExtends
<1>7. tx[w].op \in FieldOps /\ tx[w].pc = "held"
  BY <1>0, <1>1
<1> QED
  BY <1>1, <1>5, <1>6, <1>7, ExtensionFits

LEMMA CopyExtends ==
  ASSUME SchemaData, NEW f \in Fields, NEW k \in Keys, NEW from, NEW D,
         D = [e \in Having(from) |->
                Added(entries[e].data, k, Value(f, entries[e].data[from].target, "schema"))]
  PROVE  Extended(D, k, f)
<1>1. ASSUME NEW e \in DOMAIN D
      PROVE  /\ IsData(D[e]) /\ DOMAIN D[e] = DOMAIN entries[e].data \cup {k}
             /\ \A j \in DOMAIN entries[e].data \ {k} : D[e][j] = entries[e].data[j]
             /\ D[e][k].field = f /\ D[e][k].by = "schema"
  <2>1. PICK d, v, a : d = entries[e].data /\ v = Value(f, d[from].target, "schema") /\ a = D[e]
    OBVIOUS
  <2>2. IsData(d) /\ a = Added(d, k, v)
    BY <2>1 DEF SchemaData, Rows, RowFits, IsRow, Of, Having
  <2>3. IsValue(v) /\ v.field = f /\ v.by = "schema"
    BY <2>1, ValueIs
  <2>4. IsAdded(a, d, k, v)
    BY <2>2, <2>3, AddedIs
  <2> QED
    BY <2>1, <2>3, <2>4 DEF IsAdded
<1> QED
  BY <1>1 DEF Extended, Having, Of

LEMMA DuplicateFits ==
  ASSUME IInv, NEW w \in Workers, CommitDuplicate(w)  PROVE IInv'
<1>0. PICK t, a, f, k, from, new :
        /\ t = tx[w] /\ a = t.arg /\ f = a.field /\ k = a.key /\ from = fields[a.from].key
        /\ new = [fields[a.from] EXCEPT !.key = k, !.allowed = t.seen[a.from].allowed]
  OBVIOUS
<1>1. /\ t.op = "duplicate" /\ t.op \in FieldOps \cup TypeOps /\ t.op \in FieldOps /\ t.pc = "held"
      /\ f \in Fresh /\ k \notin KeysOf(fields) /\ fields' = Added(fields, f, new) /\ Had(f, k)
      /\ tx' = [tx EXCEPT ![w] = Idle] /\ UNCHANGED <<types, index, calls>>
  BY <1>0 DEF CommitDuplicate, SchemaStep, Ready, Committed, Set, FieldOps
<1>2. Asked(t) /\ Saw(t) /\ Schema /\ SchemaData
  BY <1>0 DEF IInv, Transactions, Knows, SchemaData
<1>3. f \in Fields /\ k \in Keys /\ a.from \in DOMAIN fields /\ a.from \in DOMAIN t.seen
  BY <1>0, <1>1, <1>2 DEF Asked
<1>4. new \in FieldType /\ new.key = k
  <2>1. fields[a.from] \in FieldType /\ t.seen[a.from] \in FieldType
    BY <1>1, <1>2, <1>3 DEF Schema, Saw
  <2> QED
    BY <1>0, <1>3, <2>1 DEF FieldType
<1>5. Schema' /\ HadGrows /\ GrownBy(f, k) /\ FoundStays(w)
  BY <1>1, <1>2, <1>3, <1>4, FieldAdded
<1>6. PICK D : entries' = Rewritten(D) /\ Extended(D, k, f)
  <2>1. CASE a.copy
    <3>1. PICK D : D = [e \in Having(from) |->
                Added(entries[e].data, k, Value(f, entries[e].data[from].target, "schema"))]
      OBVIOUS
    <3>2. entries' = Rewritten(D)
      BY <1>0, <2>1, <3>1 DEF CommitDuplicate, Committed
    <3>3. Extended(D, k, f)
      BY <1>2, <1>3, <3>1, CopyExtends
    <3> QED
      BY <3>2, <3>3
  <2>2. CASE ~a.copy
    <3>1. entries' = entries
      BY <1>0, <2>2 DEF CommitDuplicate, Committed
    <3> QED
      BY <1>2, <3>1, NotRewritten, NothingExtended
  <2> QED
    BY <2>1, <2>2
<1>7. tx[w].op \in FieldOps /\ tx[w].pc = "held"
  BY <1>0, <1>1
<1> QED
  BY <1>1, <1>5, <1>6, <1>7, ExtensionFits

LEMMA UpdateFits ==
  ASSUME IInv, NEW w \in Workers, CommitUpdate(w)  PROVE IInv'
<1>0. PICK t, a, f, now, allowed, new :
        /\ t = tx[w] /\ a = t.arg /\ f = a.field /\ now = fields[f]
        /\ allowed = (IF a.allowed = None THEN t.seen[f].allowed ELSE a.allowed)
        /\ new = [now EXCEPT !.required = a.required, !.allowed = allowed]
  OBVIOUS
<1>1. /\ t.op = "update" /\ t.op \in FieldOps \cup TypeOps /\ t.op \in FieldOps /\ t.pc = "held"
      /\ FieldsFree(w) /\ fields' = [fields EXCEPT ![f] = new]
      /\ entries' = IF a.required /\ ~now.required THEN Backfilled(f, now.key, a.default) ELSE entries
      /\ tx' = [tx EXCEPT ![w] = Idle] /\ UNCHANGED <<types, index, had, calls>>
  BY <1>0 DEF CommitUpdate, SchemaStep, Ready, Committed, Set, FieldOps
<1>2. Asked(t) /\ Saw(t) /\ Schema /\ SchemaData
  BY <1>0 DEF IInv, Transactions, Knows, SchemaData
<1>3. /\ f \in DOMAIN fields /\ f \in Fields /\ now \in FieldType /\ now.key \in Keys
      /\ a.required \in BOOLEAN /\ allowed \in SUBSET TypeKeys
  <2>1. f \in DOMAIN fields /\ f \in DOMAIN t.seen /\ a.required \in BOOLEAN
        /\ (a.allowed = None \/ a.allowed \in SUBSET TypeKeys)
    BY <1>0, <1>1, <1>2 DEF Asked
  <2>2. t.seen[f] \in FieldType /\ now \in FieldType
    BY <1>0, <1>1, <1>2, <2>1 DEF Saw, Schema
  <2> QED
    BY <1>0, <1>2, <2>1, <2>2 DEF FieldType, Schema
<1>4. new \in FieldType /\ new.key = now.key
  BY <1>0, <1>3 DEF FieldType
<1>5. /\ DOMAIN fields' = DOMAIN fields /\ IsFunction(fields')
      /\ \A g \in DOMAIN fields : fields'[g] \in FieldType /\ fields'[g].key = fields[g].key
  <2>1. DOMAIN fields' = DOMAIN fields /\ IsFunction(fields')
    BY <1>1 DEF IsFunction
  <2>2. fields'[f] = new /\ \A g \in DOMAIN fields \ {f} : fields'[g] = fields[g]
    BY <1>1, <1>3
  <2> QED
    <3>1. \A g \in DOMAIN fields : fields[g] \in FieldType
      BY <1>2 DEF Schema
    <3> QED
      BY <1>0, <1>4, <2>1, <2>2, <3>1
<1>6. Schema'
  BY <1>1, <1>2, <1>5 DEF Schema, FieldType
<1>7. PICK D : entries' = Rewritten(D) /\ Extended(D, now.key, f)
  <2>1. CASE a.required /\ ~now.required
    BY <1>1, <1>2, <1>3, <2>1, BackfillExtends
  <2>2. CASE ~(a.required /\ ~now.required)
    BY <1>1, <1>2, <2>2, NotRewritten, NothingExtended
  <2> QED
    BY <2>1, <2>2
<1>8. PICK k : k = now.key
  OBVIOUS
<1>9. HadGrows /\ GrownBy(f, k) /\ FoundStays(w) /\ tx[w].op \in FieldOps /\ tx[w].pc = "held"
  BY <1>0, <1>1, <1>3, <1>5, <1>8 DEF HadGrows, GrownBy, FoundStays
<1> QED
  BY <1>1, <1>6, <1>7, <1>8, <1>9, ExtensionFits

IsWithout(a, d, S) == IsData(a) /\ DOMAIN a = DOMAIN d \ S /\ \A j \in DOMAIN a : a[j] = d[j]

LEMMA WithoutIs ==
  ASSUME NEW d, IsData(d), NEW S  PROVE IsWithout(Without(d, S), d, S)
BY DEF IsWithout, Without, IsData, IsFunction

IsMoved(m, d, from, to) ==
  /\ IsData(m) /\ DOMAIN m = (DOMAIN d \ {from}) \cup {to} /\ m[to] = d[from]
  /\ \A j \in DOMAIN d \ {from, to} : m[j] = d[j]

LEMMA MovedIs ==
  ASSUME NEW d, IsData(d), NEW from \in DOMAIN d, NEW to \in Keys
  PROVE  IsMoved(Moved(d, from, to), d, from, to)
<1>1. PICK b, v, m : b = Without(d, {from}) /\ v = d[from] /\ m = Added(b, to, v)
  OBVIOUS
<1>2. IsWithout(b, d, {from})
  BY <1>1, WithoutIs
<1>3. IsData(b) /\ IsValue(v)
  BY <1>1, <1>2 DEF IsWithout, IsData
<1>4. IsAdded(m, b, to, v)
  BY <1>1, <1>3, AddedIs
<1>5. m = Moved(d, from, to)
  BY <1>1 DEF Moved
<1>6. IsMoved(m, d, from, to)
  BY <1>1, <1>2, <1>4 DEF IsWithout, IsAdded, IsMoved
<1> QED
  BY <1>5, <1>6

LEMMA RenameFits ==
  ASSUME IInv, NEW w \in Workers, CommitRename(w)  PROVE IInv'
<1>0. PICK t, a, f, from, to, D :
        /\ t = tx[w] /\ a = t.arg /\ f = a.field /\ from = fields[f].key /\ to = a.key
        /\ D = [e \in Having(from) |-> Moved(entries[e].data, from, to)]
  OBVIOUS
<1>1. /\ t.op = "rename" /\ t.op \in FieldOps /\ t.pc = "held" /\ FieldsFree(w) /\ to \notin KeysOf(fields)
      /\ fields' = [fields EXCEPT ![f].key = to] /\ Had(f, to) /\ entries' = Rewritten(D)
      /\ tx' = [tx EXCEPT ![w] = Idle] /\ UNCHANGED <<types, index, calls>>
  BY <1>0 DEF CommitRename, Renamed, SchemaStep, Ready, Committed, Set, FieldOps
<1>2. Asked(t) /\ Schema /\ SchemaData
  BY <1>0 DEF IInv, Transactions, Knows, SchemaData
<1>3. f \in DOMAIN fields /\ f \in Fields /\ to \in Keys /\ fields[f] \in FieldType
      /\ from \in Keys /\ from \in had[f] /\ from # to
  BY <1>0, <1>1, <1>2 DEF Asked, Schema, FieldType, KeysOf
<1>4. /\ DOMAIN fields' = DOMAIN fields /\ IsFunction(fields')
      /\ fields'[f].key = to /\ fields'[f] \in FieldType
      /\ \A g \in DOMAIN fields \ {f} : fields'[g] = fields[g]
  <2>1. DOMAIN fields' = DOMAIN fields /\ IsFunction(fields')
    BY <1>1 DEF IsFunction
  <2>2. fields'[f] = [fields[f] EXCEPT !.key = to] /\ \A g \in DOMAIN fields \ {f} : fields'[g] = fields[g]
    BY <1>1, <1>3
  <2> QED
    BY <1>3, <2>1, <2>2 DEF FieldType
<1>5. /\ had' \in [Fields -> SUBSET Keys] /\ had'[f] = had[f] \cup {to} /\ HadGrows
      /\ \A g \in Fields \ {f} : had'[g] = had[g]
  BY <1>1, <1>2, <1>3 DEF Had, Schema, HadGrows
<1>6. Schema'
  <2>1. \A g \in DOMAIN fields \ {f} : fields[g].key # to
    BY <1>1 DEF KeysOf
  <2>2. \A g \in DOMAIN fields' : fields'[g] \in FieldType /\ fields'[g].key \in had'[g]
    BY <1>2, <1>4, <1>5 DEF Schema
  <2>3. \A g, h \in DOMAIN fields' : fields'[g].key = fields'[h].key => g = h
    BY <1>2, <1>4, <2>1 DEF Schema
  <2> QED
    BY <1>1, <1>2, <1>4, <1>5, <2>2, <2>3 DEF Schema, FieldType
<1>7. ASSUME NEW e \in DOMAIN D
      PROVE  e \in Of(Owner) /\ from \in DOMAIN entries[e].data
             /\ IsData(entries[e].data) /\ IsMoved(D[e], entries[e].data, from, to)
  <2>1. e \in Of(Owner) /\ from \in DOMAIN entries[e].data /\ IsData(entries[e].data)
    BY <1>0, <1>2 DEF Having, SchemaData, Rows, RowFits, IsRow, Of
  <2>2. PICK d, m : d = entries[e].data /\ m = D[e]
    OBVIOUS
  <2>3. m = Moved(d, from, to)
    BY <1>0, <2>2
  <2>4. IsMoved(m, d, from, to)
    BY <1>3, <2>1, <2>2, <2>3, MovedIs
  <2> QED
    BY <2>1, <2>2, <2>4
<1>8. DOMAIN D \subseteq Of(Owner) /\ \A e \in DOMAIN D : IsData(D[e])
  BY <1>7 DEF IsMoved
<1>9. \A e \in Of(Owner) \ DOMAIN D : from \notin DOMAIN entries[e].data
  BY <1>0 DEF Having
<1>10. DOMAIN entries' = DOMAIN entries
  BY <1>1, <1>2, RewrittenIs
<1>11. ASSUME NEW e \in Of(Owner), NEW r, NEW row, r = entries'[e], row = entries[e], RowFits(e, row),
              r.status = row.status, r.data = (IF e \in DOMAIN D THEN D[e] ELSE row.data)
       PROVE  /\ \A j \in DOMAIN r.data : Placed(j, r.data[j].field)'
              /\ r.status = "published" => Public(e, r)'
  <2>1. TypeOf[e] = Owner /\ FieldsOf(TypeOf[e], fields) = fields /\ FieldsOf(TypeOf[e], fields)' = fields'
    BY DEF Of, FieldsOf
  <2>2. \A j \in DOMAIN r.data : j # from /\
          \/ j \in DOMAIN row.data /\ r.data[j] = row.data[j]
          \/ j = to /\ from \in DOMAIN row.data /\ r.data[j] = row.data[from]
    <3>1. CASE e \in DOMAIN D
      <4>1. IsMoved(r.data, row.data, from, to) /\ from \in DOMAIN row.data
        BY <1>7, <1>11, <3>1
      <4> QED
        BY <1>3, <4>1 DEF IsMoved
    <3>2. CASE e \notin DOMAIN D
      BY <1>9, <1>11, <3>2
    <3> QED
      BY <3>1, <3>2
  <2>3. ASSUME NEW j \in DOMAIN r.data, NEW v, v = r.data[j]  PROVE Placed(j, v.field)'
    <3>1. CASE j \in DOMAIN row.data /\ v = row.data[j]
      <4>1. Placed(j, v.field) /\ v.field \in Fields /\ j # from
        BY <1>11, <2>1, <2>2, <3>1 DEF RowFits, IsRow, IsData, IsValue
      <4>2. CASE j \in had[v.field]
        BY <1>5, <4>1, <4>2 DEF HadGrows, Placed
      <4>3. CASE j \notin had[v.field]
        <5>1. PICK h \in DOMAIN fields : fields[h].key = j /\ had[h] \cap had[v.field] # {}
          BY <4>1, <4>3 DEF Placed
        <5>2. h # f /\ h \in Fields
          BY <1>0, <1>2, <4>1, <5>1 DEF Schema
        <5>3. h \in DOMAIN fields' /\ fields'[h].key = j
          BY <1>4, <5>1, <5>2
        <5>4. had'[h] \cap had'[v.field] # {}
          BY <1>5, <4>1, <5>1, <5>2 DEF HadGrows
        <5> QED
          BY <5>3, <5>4 DEF Placed
      <4> QED
        BY <4>2, <4>3
    <3>2. CASE j = to /\ from \in DOMAIN row.data /\ v = row.data[from]
      <4>1. Placed(from, v.field) /\ v.field \in Fields
        BY <1>11, <2>1, <3>2 DEF RowFits, IsRow, IsData, IsValue
      <4>2. had[f] \cap had[v.field] # {}
        BY <1>0, <1>2, <1>3, <4>1 DEF Placed, Schema
      <4>3. had'[f] \cap had'[v.field] # {}
        BY <1>3, <1>5, <4>1, <4>2 DEF HadGrows
      <4> QED
        BY <1>3, <1>4, <3>2, <4>3 DEF Placed
    <3> QED
      BY <2>2, <2>3, <3>1, <3>2
  <2>4. ASSUME r.status = "published"  PROVE Public(e, r)'
    <3>1. Public(e, row)
      BY <1>11, <2>4 DEF RowFits
    <3>2. ASSUME NEW j \in DOMAIN r.data  PROVE \E g \in DOMAIN fields' : fields'[g].key = j
      <4>1. CASE j = to
        BY <1>3, <1>4, <4>1
      <4>2. CASE j # to
        <5>1. PICK g \in DOMAIN fields : fields[g].key = j
          BY <2>1, <2>2, <3>1, <4>2 DEF Public, KeysOf
        <5>2. g # f
          BY <1>0, <2>2, <5>1
        <5> QED
          BY <1>4, <5>1, <5>2
      <4> QED
        BY <4>1, <4>2
    <3>3. \A j \in DOMAIN r.data : r.data[j].by = "schema" \/ r.data[j].target \in DOMAIN entries'
      BY <1>10, <2>2, <3>1 DEF Public
    <3>4. ASSUME NEW g \in DOMAIN fields', NEW j \in DOMAIN r.data, j = fields'[g].key, r.data[j].by # "schema"
          PROVE  Link(e, g, r.data[j]) \in index'
      <4>1. to \notin DOMAIN row.data
        BY <1>1, <2>1, <3>1 DEF Public
      <4>2. CASE g = f
        <5>1. j = to /\ from \in DOMAIN row.data /\ r.data[j] = row.data[from]
          BY <1>4, <2>2, <3>4, <4>1, <4>2
        <5>2. Link(e, f, row.data[from]) \in index
          BY <1>0, <1>3, <2>1, <3>1, <3>4, <5>1 DEF Public
        <5> QED
          BY <1>1, <4>2, <5>1, <5>2
      <4>3. CASE g # f
        <5>1. g \in DOMAIN fields /\ j = fields[g].key /\ j # to
          BY <1>1, <1>4, <3>4, <4>3 DEF KeysOf
        <5>2. j \in DOMAIN row.data /\ r.data[j] = row.data[j]
          BY <2>2, <5>1
        <5>3. Link(e, g, row.data[j]) \in index
          BY <2>1, <3>1, <3>4, <5>1, <5>2 DEF Public
        <5> QED
          BY <1>1, <5>2, <5>3
      <4> QED
        BY <4>2, <4>3
    <3> QED
      BY <2>1, <3>2, <3>3, <3>4 DEF Public, KeysOf
  <2> QED
    BY <2>3, <2>4
<1>12. FoundStays(w) /\ tx[w].op \in FieldOps /\ tx[w].pc = "held"
  BY <1>0, <1>1 DEF FoundStays
<1> QED
  BY <1>1, <1>5, <1>6, <1>8, <1>11, <1>12, FieldsFit

LEMMA DeleteFieldFits ==
  ASSUME IInv, NEW w \in Workers, CommitDeleteField(w)  PROVE IInv'
<1>0. PICK t, a, f, k, D :
        /\ t = tx[w] /\ a = t.arg /\ f = a.field /\ k = fields[f].key
        /\ D = [e \in Having(k) |-> Without(entries[e].data, {k})]
  OBVIOUS
<1>1. /\ t.op = "drop" /\ t.op \in FieldOps /\ t.pc = "held" /\ FieldsFree(w)
      /\ fields' = Without(fields, {f}) /\ entries' = Rewritten(D)
      /\ index' = {i \in index : i.field # f}
      /\ tx' = [tx EXCEPT ![w] = Idle] /\ UNCHANGED <<types, had, calls>>
  BY <1>0 DEF CommitDeleteField, SchemaStep, Ready, Committed, Set, FieldOps
<1>2. Asked(t) /\ Schema /\ SchemaData
  BY <1>0 DEF IInv, Transactions, Knows, SchemaData
<1>3. f \in DOMAIN fields
  BY <1>0, <1>1, <1>2 DEF Asked
<1>4. /\ DOMAIN fields' = DOMAIN fields \ {f} /\ IsFunction(fields')
      /\ \A g \in DOMAIN fields' : fields'[g] = fields[g]
  BY <1>1 DEF Without, IsFunction
<1>5. HadGrows /\ Schema'
  BY <1>1, <1>2, <1>4 DEF HadGrows, Schema
<1>6. ASSUME NEW e \in DOMAIN D
      PROVE  e \in Of(Owner) /\ IsWithout(D[e], entries[e].data, {k})
  <2>1. e \in Of(Owner) /\ IsData(entries[e].data)
    BY <1>0, <1>2 DEF Having, SchemaData, Rows, RowFits, IsRow, Of
  <2>2. PICK d, m : d = entries[e].data /\ m = D[e]
    OBVIOUS
  <2>3. m = Without(d, {k})
    BY <1>0, <2>2
  <2>4. IsWithout(m, d, {k})
    BY <2>1, <2>2, <2>3, WithoutIs
  <2> QED
    BY <2>1, <2>2, <2>4
<1>7. DOMAIN D \subseteq Of(Owner) /\ \A e \in DOMAIN D : IsData(D[e])
  BY <1>6 DEF IsWithout
<1>8. \A e \in Of(Owner) \ DOMAIN D : k \notin DOMAIN entries[e].data
  BY <1>0 DEF Having
<1>9. DOMAIN entries' = DOMAIN entries
  BY <1>1, <1>2, RewrittenIs
<1>10. ASSUME NEW e \in Of(Owner), NEW r, NEW row, r = entries'[e], row = entries[e], RowFits(e, row),
              r.status = row.status, r.data = (IF e \in DOMAIN D THEN D[e] ELSE row.data)
       PROVE  /\ \A j \in DOMAIN r.data : Placed(j, r.data[j].field)'
              /\ r.status = "published" => Public(e, r)'
  <2>1. TypeOf[e] = Owner /\ FieldsOf(TypeOf[e], fields) = fields /\ FieldsOf(TypeOf[e], fields)' = fields'
    BY DEF Of, FieldsOf
  <2>2. \A j \in DOMAIN r.data : j # k /\ j \in DOMAIN row.data /\ r.data[j] = row.data[j]
    <3>1. CASE e \in DOMAIN D
      <4>1. IsWithout(r.data, row.data, {k})
        BY <1>6, <1>10, <3>1
      <4> QED
        BY <4>1 DEF IsWithout
    <3>2. CASE e \notin DOMAIN D
      BY <1>8, <1>10, <3>2
    <3> QED
      BY <3>1, <3>2
  <2>3. ASSUME NEW j \in DOMAIN r.data, NEW v, v = r.data[j]  PROVE Placed(j, v.field)'
    <3>1. Placed(j, v.field) /\ j # k
      BY <1>10, <2>1, <2>2, <2>3 DEF RowFits
    <3> QED
      BY <1>0, <1>1, <1>4, <3>1 DEF Placed
  <2>4. ASSUME r.status = "published"  PROVE Public(e, r)'
    <3>1. Public(e, row)
      BY <1>10, <2>4 DEF RowFits
    <3>2. ASSUME NEW j \in DOMAIN r.data  PROVE \E g \in DOMAIN fields' : fields'[g].key = j
      <4>1. PICK g \in DOMAIN fields : fields[g].key = j
        BY <2>1, <2>2, <3>1 DEF Public, KeysOf
      <4> QED
        BY <1>0, <1>4, <2>2, <4>1
    <3>3. \A j \in DOMAIN r.data : r.data[j].by = "schema" \/ r.data[j].target \in DOMAIN entries'
      BY <1>9, <2>2, <3>1 DEF Public
    <3>4. ASSUME NEW g \in DOMAIN fields', NEW j \in DOMAIN r.data, j = fields'[g].key, r.data[j].by # "schema"
          PROVE  Link(e, g, r.data[j]) \in index'
      <4>1. g \in DOMAIN fields /\ g # f /\ fields[g].key = j
        BY <1>4, <3>4
      <4>2. Link(e, g, row.data[j]) \in index
        BY <2>1, <2>2, <3>1, <3>4, <4>1 DEF Public
      <4> QED
        BY <1>1, <2>2, <4>1, <4>2 DEF Link
    <3> QED
      BY <2>1, <3>2, <3>3, <3>4 DEF Public, KeysOf
  <2> QED
    BY <2>3, <2>4
<1>11. FoundStays(w) /\ tx[w].op \in FieldOps /\ tx[w].pc = "held"
  BY <1>0, <1>1 DEF FoundStays
<1> QED
  BY <1>1, <1>5, <1>7, <1>10, <1>11, FieldsFit

-----------------------------------------------------------------------------
(* Commits of types.                                                       *)

SameKeys ==
  /\ DOMAIN fields' = DOMAIN fields
  /\ \A f \in DOMAIN fields : fields'[f].key = fields[f].key /\ fields'[f].required = fields[f].required

LEMMA TypesFit ==
  ASSUME SchemaData, Schema', UNCHANGED <<entries, index, had>>, Of(Owner) = {} \/ SameKeys,
         \A e \in DOMAIN entries : TypeOf[e] \in DOMAIN types',
         \A e \in DOMAIN entries : entries[e].path # None =>
           Path(types'[TypeOf[e]], entries[e].slug) = Path(types[TypeOf[e]], entries[e].slug)
  PROVE  SchemaData'
<1>1. ASSUME NEW e \in DOMAIN entries, NEW r, r = entries[e]  PROVE RowFits(e, r)'
  <2>1. RowFits(e, r)
    BY <1>1 DEF SchemaData, Rows
  <2>2. TypeOf[e] = Owner => SameKeys
    BY DEF Of
  <2>3. (r.draft # None => Strong(r.draft.data)) => (r.draft # None => Strong(r.draft.data))'
    BY DEF Strong
  <2>4. TypeOf[e] = Owner => \A k \in DOMAIN r.data : Placed(k, r.data[k].field)'
    BY <2>1, <2>2 DEF RowFits, Placed, SameKeys
  <2>5. Public(e, r) => Public(e, r)'
    <3>1. CASE TypeOf[e] = Owner
      BY <2>2, <3>1 DEF Public, FieldsOf, KeysOf, SameKeys
    <3>2. CASE TypeOf[e] # Owner
      BY <3>2 DEF Public, FieldsOf, KeysOf, Nothing
    <3> QED
      BY <3>1, <3>2
  <2>6. Addressed(e, r)'
    BY <1>1, <2>1 DEF RowFits, Addressed
  <2> QED
    BY <2>1, <2>3, <2>4, <2>5, <2>6 DEF RowFits
<1>2. Rows'
  BY <1>1 DEF SchemaData, Rows
<1> QED
  BY <1>2 DEF SchemaData

\* Of two transactions at most one has found fields.
LEMMA FinderAlone ==
  ASSUME IInv, NEW w \in Workers, tx[w].pc = "found"  PROVE FieldsFree(w)
BY DEF IInv, Transactions, Apart, FieldsFree

LEMMA RekeyedIs ==
  ASSUME Schema, NEW seen, \A f \in DOMAIN seen : seen[f] \in FieldType, NEW old, NEW new,
         new = None \/ new \in TypeKeys, fields' = Rekeyed(seen, old, new)
  PROVE  /\ SameKeys /\ IsFunction(fields') /\ \A f \in DOMAIN fields' : fields'[f] \in FieldType
         /\ \A f \in DOMAIN fields : fields'[f].allowed =
              IF f \in DOMAIN seen THEN Replaced(seen[f].allowed, old, new) ELSE fields[f].allowed
<1>1. DOMAIN fields' = DOMAIN fields /\ IsFunction(fields')
  BY DEF Rekeyed, IsFunction
<1>2. ASSUME NEW f \in DOMAIN fields, NEW now, now = fields[f]
      PROVE  /\ fields'[f] \in FieldType /\ fields'[f].key = now.key /\ fields'[f].required = now.required
             /\ fields'[f].allowed =
                  IF f \in DOMAIN seen THEN Replaced(seen[f].allowed, old, new) ELSE now.allowed
  <2>1. now \in FieldType
    BY <1>2 DEF Schema
  <2>2. CASE f \in DOMAIN seen
    <3>1. PICK K : K = Replaced(seen[f].allowed, old, new)
      OBVIOUS
    <3>2. K \in SUBSET TypeKeys
      BY <2>2, <3>1 DEF Replaced, FieldType
    <3>3. fields'[f] = [now EXCEPT !.allowed = K]
      BY <1>2, <2>2, <3>1 DEF Rekeyed
    <3> QED
      BY <2>1, <2>2, <3>1, <3>2, <3>3 DEF FieldType
  <2>3. CASE f \notin DOMAIN seen
    BY <1>2, <2>1, <2>3 DEF Rekeyed
  <2> QED
    BY <2>2, <2>3
<1> QED
  BY <1>1, <1>2 DEF SameKeys

LEMMA RenameTypeFits ==
  ASSUME IInv, NEW w \in Workers, CommitRenameType(w)  PROVE IInv'
<1>0. PICK t, x, old : t = tx[w] /\ x = t.type /\ old = types[x].key
  OBVIOUS
<1>1. /\ t.pc = "found" /\ t.op = "retype" /\ t.op \in FieldOps \cup TypeOps
      /\ fields' = Rekeyed(t.seen, old, t.arg) /\ types' = [types EXCEPT ![x].key = t.arg]
      /\ tx' = [tx EXCEPT ![w] = Idle] /\ UNCHANGED <<entries, index, had, calls>>
  BY <1>0 DEF CommitRenameType, Set, TypeOps
<1>2. Asked(t) /\ Staged(t) /\ Saw(t) /\ Schema /\ SchemaData
  BY <1>0 DEF IInv, Transactions, Knows, SchemaData
<1>3. t.arg \in TypeKeys /\ x \in DOMAIN types /\ \A f \in DOMAIN t.seen : t.seen[f] \in FieldType
  BY <1>0, <1>1, <1>2 DEF Asked, Staged, Saw
<1>4. SameKeys /\ IsFunction(fields') /\ \A f \in DOMAIN fields' : fields'[f] \in FieldType
  BY <1>1, <1>2, <1>3, RekeyedIs
<1>5. /\ DOMAIN types' = DOMAIN types /\ IsFunction(types')
      /\ \A y \in DOMAIN types : /\ IsType(types'[y]) /\ types'[y].routable = types[y].routable
                                 /\ types'[y].pattern = types[y].pattern
                                 /\ types'[y].key = IF y = x THEN t.arg ELSE types[y].key
  <2>1. DOMAIN types' = DOMAIN types /\ IsFunction(types')
    BY <1>1 DEF IsFunction
  <2>2. ASSUME NEW y \in DOMAIN types, NEW type, type = types[y], NEW new, new = types'[y]
        PROVE  /\ IsType(new) /\ new.routable = type.routable /\ new.pattern = type.pattern
               /\ new.key = IF y = x THEN t.arg ELSE type.key
    <3>1. IsType(type)
      BY <1>2, <2>2 DEF Schema
    <3>2. new = IF y = x THEN [type EXCEPT !.key = t.arg] ELSE type
      BY <1>1, <1>3, <2>2
    <3> QED
      BY <1>3, <3>1, <3>2 DEF IsType
  <2> QED
    BY <2>1, <2>2
<1>6. Schema'
  <2>1. \A y \in DOMAIN types : types[y].key # t.arg
    BY <1>0 DEF CommitRenameType, Named
  <2>2. \A y, z \in DOMAIN types' : types'[y].key = types'[z].key => y = z
    BY <1>2, <1>5, <2>1 DEF Schema
  <2>3. \A f \in DOMAIN fields' : fields'[f] \in FieldType /\ fields'[f].key \in had'[f]
    BY <1>1, <1>2, <1>4 DEF Schema, SameKeys
  <2>4. \A f, g \in DOMAIN fields' : fields'[f].key = fields'[g].key => f = g
    BY <1>2, <1>4 DEF Schema, SameKeys
  <2> QED
    BY <1>1, <1>2, <1>4, <1>5, <2>2, <2>3, <2>4 DEF Schema, SameKeys, FieldType
<1>7. SchemaData'
  <2>1. \A e \in DOMAIN entries : TypeOf[e] \in DOMAIN types' /\ TypeOf[e] \in DOMAIN types
    BY <1>2, <1>5 DEF SchemaData, Rows
  <2>2. \A e \in DOMAIN entries :
          Path(types'[TypeOf[e]], entries[e].slug) = Path(types[TypeOf[e]], entries[e].slug)
    BY <1>5, <2>1 DEF Path
  <2> QED
    BY <1>1, <1>2, <1>4, <1>6, <2>1, <2>2, TypesFit
<1>8. Ending(w)
  <2>1. FoundStays(w)
    BY <1>0, <1>1, FinderAlone DEF FoundStays
  <2> QED
    BY <1>1, <1>4, <1>5, <2>1 DEF Ending, HadGrows, SameKeys
<1> QED
  BY <1>7, <1>8, Commits

LEMMA DeleteTypeFits ==
  ASSUME IInv, NEW w \in Workers, CommitDeleteType(w)  PROVE IInv'
<1>0. PICK t, x, old : t = tx[w] /\ x = t.type /\ old = types[x].key
  OBVIOUS
<1>1. /\ t.pc = "found" /\ t.op = "untype" /\ t.op \in FieldOps \cup TypeOps /\ Of(x) = {}
      /\ fields' = IF x = Owner THEN Nothing ELSE Rekeyed(t.seen, old, None)
      /\ types' = Without(types, {x})
      /\ tx' = [tx EXCEPT ![w] = Idle] /\ UNCHANGED <<entries, index, had, calls>>
  BY <1>0 DEF CommitDeleteType, Set, TypeOps
<1>2. Asked(t) /\ Staged(t) /\ Saw(t) /\ Schema /\ SchemaData
  BY <1>0 DEF IInv, Transactions, Knows, SchemaData
<1>3. x \in DOMAIN types /\ \A f \in DOMAIN t.seen : t.seen[f] \in FieldType
  BY <1>0, <1>1, <1>2 DEF Staged, Saw
<1>4. /\ IsFunction(fields') /\ \A f \in DOMAIN fields' : fields'[f] \in FieldType
      /\ (x = Owner /\ DOMAIN fields' = {}) \/ SameKeys
  <2>1. CASE x = Owner
    BY <1>1, <2>1 DEF Nothing, IsFunction
  <2>2. CASE x # Owner
    BY <1>1, <1>2, <1>3, <2>2, RekeyedIs
  <2> QED
    BY <2>1, <2>2
<1>5. /\ DOMAIN types' = DOMAIN types \ {x} /\ IsFunction(types')
      /\ \A y \in DOMAIN types' : types'[y] = types[y]
  BY <1>1 DEF Without, IsFunction
<1>6. Schema'
  <2>1. \A y, z \in DOMAIN types' : types'[y].key = types'[z].key => y = z
    BY <1>2, <1>5 DEF Schema
  <2>2. \A f \in DOMAIN fields' : fields'[f] \in FieldType /\ fields'[f].key \in had'[f]
    BY <1>1, <1>2, <1>4 DEF Schema, SameKeys
  <2>3. \A f, g \in DOMAIN fields' : fields'[f].key = fields'[g].key => f = g
    BY <1>2, <1>4 DEF Schema, SameKeys
  <2> QED
    BY <1>1, <1>2, <1>4, <1>5, <2>1, <2>2, <2>3 DEF Schema, SameKeys, FieldType
<1>7. SchemaData'
  <2>1. \A e \in DOMAIN entries : TypeOf[e] \in DOMAIN types'
    BY <1>1, <1>2, <1>5 DEF SchemaData, Rows, Of
  <2>2. \A e \in DOMAIN entries :
          Path(types'[TypeOf[e]], entries[e].slug) = Path(types[TypeOf[e]], entries[e].slug)
    BY <1>5, <2>1
  <2> QED
    BY <1>1, <1>2, <1>4, <1>6, <2>1, <2>2, TypesFit
<1>8. Ending(w)
  <2>1. FoundStays(w)
    BY <1>0, <1>1, FinderAlone DEF FoundStays
  <2>2. Owns(w, x)
    BY <1>0, <1>1 DEF Owns, Holding
  <2> QED
    BY <1>1, <1>4, <1>5, <2>1, <2>2 DEF Ending, HadGrows, SameKeys
<1> QED
  BY <1>7, <1>8, Commits

LEMMA SettingsFit ==
  ASSUME IInv, NEW w \in Workers, CommitSettings(w)  PROVE IInv'
<1>0. PICK t, x, a : t = tx[w] /\ x = t.type /\ a = t.arg
  OBVIOUS
<1>1. /\ t.pc = "held" /\ t.op = "settings" /\ t.op \in FieldOps \cup TypeOps
      /\ ~a.routable => \A e \in Of(x) : entries[e].status # "published"
      /\ types' = [types EXCEPT ![x].routable = a.routable, ![x].drafts = a.drafts]
      /\ tx' = [tx EXCEPT ![w] = Idle] /\ UNCHANGED <<fields, entries, index, had, calls>>
  BY <1>0 DEF CommitSettings, SchemaStep, Ready, Set, TypeOps
<1>2. Staged(t) /\ Schema /\ SchemaData
  BY <1>0 DEF IInv, Transactions, Knows, SchemaData
<1>3. x \in DOMAIN types
  BY <1>0, <1>1, <1>2 DEF Staged
<1>4. /\ DOMAIN types' = DOMAIN types /\ IsFunction(types')
      /\ \A y \in DOMAIN types \ {x} : types'[y] = types[y]
      /\ IsType(types'[x]) /\ types'[x].routable = a.routable /\ types'[x].pattern = types[x].pattern
      /\ types'[x].key = types[x].key
  <2>1. DOMAIN types' = DOMAIN types /\ IsFunction(types') /\ \A y \in DOMAIN types \ {x} : types'[y] = types[y]
    BY <1>1 DEF IsFunction
  <2>2. PICK type, new : type = types[x] /\ new = types'[x]
    OBVIOUS
  <2>3. IsType(type) /\ new = [[type EXCEPT !.routable = a.routable] EXCEPT !.drafts = a.drafts]
    BY <1>1, <1>2, <1>3, <2>2 DEF Schema
  <2>4. IsType(new) /\ new.routable = a.routable /\ new.pattern = type.pattern /\ new.key = type.key
    BY <2>3 DEF IsType
  <2> QED
    BY <2>1, <2>2, <2>4
<1>5. Schema'
  <2>1. \A y \in DOMAIN types : types'[y].key = types[y].key
    BY <1>4
  <2>2. \A y \in DOMAIN types : IsType(types'[y])
    BY <1>2, <1>4 DEF Schema
  <2>3. \A y, z \in DOMAIN types' : types'[y].key = types'[z].key => y = z
    BY <1>2, <1>4, <2>1 DEF Schema
  <2> QED
    BY <1>1, <1>2, <1>4, <2>2, <2>3 DEF Schema, FieldType
<1>6. SchemaData'
  <2>1. \A e \in DOMAIN entries : TypeOf[e] \in DOMAIN types' /\ RowFits(e, entries[e])
    BY <1>2, <1>4 DEF SchemaData, Rows
  <2>2. ASSUME NEW e \in DOMAIN entries, entries[e].path # None
        PROVE  Path(types'[TypeOf[e]], entries[e].slug) = Path(types[TypeOf[e]], entries[e].slug)
    <3>1. entries[e].status = "published" /\ types[TypeOf[e]].routable
      BY <2>1, <2>2 DEF RowFits, Addressed, Path
    <3>2. CASE TypeOf[e] = x
      BY <1>1, <1>4, <3>1, <3>2 DEF Of, Path
    <3>3. CASE TypeOf[e] # x
      BY <1>4, <2>1, <3>3
    <3> QED
      BY <3>2, <3>3
  <2>3. SameKeys
    BY <1>1 DEF SameKeys
  <2> QED
    BY <1>1, <1>2, <1>5, <2>1, <2>2, <2>3, TypesFit
<1>7. Ending(w)
  BY <1>1, <1>4 DEF Ending, HadGrows, FoundStays
<1> QED
  BY <1>6, <1>7, Commits

LEMMA PatternFits ==
  ASSUME IInv, NEW w \in Workers, CommitPattern(w)  PROVE IInv'
<1>0. PICK t, x, type : t = tx[w] /\ x = t.type /\ type = [types[x] EXCEPT !.pattern = t.arg]
  OBVIOUS
<1>1. /\ t.pc = "held" /\ t.op = "pattern" /\ t.op \in FieldOps \cup TypeOps
      /\ entries' = [e \in DOMAIN entries |->
               IF e \in Of(x) /\ entries[e].path # None
               THEN [entries[e] EXCEPT !.path = Path(type, entries[e].slug)] ELSE entries[e]]
      /\ types' = [types EXCEPT ![x] = type]
      /\ tx' = [tx EXCEPT ![w] = Idle] /\ UNCHANGED <<fields, index, had, calls>>
  BY <1>0 DEF CommitPattern, Ready, Committed, Set, TypeOps
<1>2. Staged(t) /\ Schema /\ SchemaData
  BY <1>0 DEF IInv, Transactions, Knows, SchemaData
<1>3. x \in DOMAIN types /\ IsType(types[x])
  BY <1>0, <1>1, <1>2 DEF Staged, Schema
<1>4. IsType(type) /\ type.key = types[x].key
  BY <1>0, <1>3 DEF IsType
<1>5. /\ DOMAIN types' = DOMAIN types /\ IsFunction(types') /\ types'[x] = type
      /\ \A y \in DOMAIN types \ {x} : types'[y] = types[y]
  BY <1>1, <1>2, <1>3 DEF Schema, IsFunction
<1>6. Schema'
  <2>1. \A y \in DOMAIN types : types'[y].key = types[y].key
    BY <1>4, <1>5
  <2> QED
    BY <1>1, <1>2, <1>4, <1>5, <2>1 DEF Schema, FieldType
<1>7. DOMAIN entries' = DOMAIN entries /\ IsFunction(entries')
  BY <1>1 DEF IsFunction
<1>8. ASSUME NEW e \in DOMAIN entries, NEW r, r = entries'[e]  PROVE RowFits(e, r)'
  <2>1. PICK row : row = entries[e]
    OBVIOUS
  <2>2. RowFits(e, row) /\ IsRow(row) /\ TypeOf[e] \in DOMAIN types
    BY <1>2, <2>1 DEF SchemaData, Rows, RowFits
  <2>3. /\ IsRow(r) /\ r.data = row.data /\ r.draft = row.draft /\ r.status = row.status /\ r.slug = row.slug
        /\ r.path = IF TypeOf[e] = x /\ row.path # None THEN Path(type, row.slug) ELSE row.path
    <3>1. CASE TypeOf[e] = x /\ row.path # None
      <4>1. PICK path : path = Path(type, row.slug)
        OBVIOUS
      <4>2. r = [row EXCEPT !.path = path]
        BY <1>1, <1>8, <2>1, <3>1, <4>1 DEF Of
      <4> QED
        BY <2>2, <3>1, <4>1, <4>2 DEF IsRow, RowParts
    <3>2. CASE ~(TypeOf[e] = x /\ row.path # None)
      BY <1>1, <1>8, <2>1, <2>2, <3>2 DEF Of
    <3> QED
      BY <3>1, <3>2
  <2>4. Addressed(e, r)'
    BY <1>5, <2>2, <2>3 DEF RowFits, Addressed
  <2>5. Public(e, row) => Public(e, r)'
    BY <1>1, <1>7, <2>3 DEF Public, FieldsOf, KeysOf
  <2> QED
    BY <1>1, <2>2, <2>3, <2>4, <2>5 DEF RowFits, Strong, Placed
<1>9. SchemaData'
  <2>1. ASSUME NEW e \in DOMAIN entries'  PROVE TypeOf[e] \in DOMAIN types' /\ RowFits(e, entries[e])'
    <3>1. PICK r : r = entries'[e]
      OBVIOUS
    <3>2. RowFits(e, r)'
      BY <1>7, <1>8, <3>1
    <3> QED
      BY <1>2, <1>5, <1>7, <3>1, <3>2 DEF SchemaData, Rows
  <2> QED
    BY <1>2, <1>6, <1>7, <2>1 DEF SchemaData, Rows
<1>10. Ending(w)
  BY <1>1, <1>5, <1>7 DEF Ending, HadGrows, FoundStays
<1> QED
  BY <1>9, <1>10, Commits

LEMMA CreateFits == ASSUME IInv, CreateType PROVE IInv'
<1>1. PICK t, k : /\ t \in Types \ DOMAIN types /\ k \in TypeKeys /\ k \notin Named
                  /\ types' = Added(types, t, [key |-> k, routable |-> FALSE, pattern |-> None, drafts |-> FALSE])
  BY DEF CreateType
<1>2. calls' \in 0..MaxCalls /\ UNCHANGED <<fields, entries, index, had, tx>> /\ Schema /\ SchemaData
  BY DEF CreateType, Counted, IInv, SchemaData, Schema
<1>3. PICK new : new = [key |-> k, routable |-> FALSE, pattern |-> None, drafts |-> FALSE]
  OBVIOUS
<1>4. /\ DOMAIN types' = DOMAIN types \cup {t} /\ IsFunction(types') /\ types'[t] = new
      /\ \A y \in DOMAIN types : types'[y] = types[y]
  BY <1>1, <1>3 DEF Added, IsFunction
<1>5. Schema'
  <2>1. IsType(new)
    BY <1>1, <1>3 DEF IsType
  <2>2. new.key = k /\ \A y \in DOMAIN types : types[y].key # k
    BY <1>1, <1>3 DEF Named
  <2>3. \A y, z \in DOMAIN types' : types'[y].key = types'[z].key => y = z
    BY <1>2, <1>4, <2>2 DEF Schema
  <2> QED
    BY <1>1, <1>2, <1>4, <2>1, <2>3 DEF Schema, FieldType
<1>6. SchemaData'
  <2>1. \A e \in DOMAIN entries : TypeOf[e] \in DOMAIN types
    BY <1>2 DEF SchemaData, Rows
  <2>2. SameKeys
    BY <1>2 DEF SameKeys
  <2> QED
    BY <1>2, <1>4, <1>5, <2>1, <2>2, TypesFit
<1>7. ASSUME NEW w \in Workers  PROVE Knows(tx[w])'
  <2>1. PICK u : u = tx[w]
    OBVIOUS
  <2>2. Asked(u) /\ Staged(u) /\ Saw(u)
    BY <2>1 DEF IInv, Transactions, Knows
  <2>3. Asked(u)'
    BY <1>2, <2>2 DEF Asked
  <2>4. Staged(u)'
    BY <1>2, <1>4, <2>2 DEF Staged, Strong
  <2>5. Saw(u)'
    BY <1>2, <2>2 DEF Saw, FieldsOf
  <2> QED
    BY <1>2, <2>1, <2>3, <2>4, <2>5 DEF Knows
<1>8. Transactions'
  <2>1. \A v, w \in Workers : v # w => Apart(tx[v], tx[w])'
    BY <1>2 DEF IInv, Transactions, Apart, Holds, Reads
  <2> QED
    BY <1>2, <1>7, <2>1 DEF IInv, Transactions
<1> QED
  BY <1>6, <1>8 DEF IInv

-----------------------------------------------------------------------------
(* Every step.                                                             *)

LEMMA FiledStrong ==
  ASSUME Schema, NEW S \in SUBSET DOMAIN fields, NEW to
  PROVE  IsData(Filed(S, to)) /\ Strong(Filed(S, to))
<1>1. PICK d : d = Filed(S, to)
  OBVIOUS
<1>2. DOMAIN d = {fields[f].key : f \in S} /\ IsFunction(d)
  BY <1>1 DEF Filed, IsFunction
<1>3. ASSUME NEW k \in DOMAIN d
      PROVE  IsValue(d[k]) /\ k \in had[d[k].field] /\ k \in Keys
  <2>1. PICK f : f = CHOOSE g \in S : fields[g].key = k
    OBVIOUS
  <2>2. f \in S /\ fields[f].key = k
    BY <1>2, <2>1
  <2>3. d[k] = Value(f, to, "entry")
    BY <1>1, <1>2, <2>1 DEF Filed
  <2>4. f \in Fields /\ k \in had[f] /\ k \in Keys
    BY <2>2 DEF Schema, FieldType
  <2> QED
    BY <2>3, <2>4, ValueIs
<1> QED
  BY <1>1, <1>2, <1>3 DEF IsData, Strong

LEMMA CallsGo ==
  ASSUME IInv, NEW w \in Workers, SaveEntry(w) \/ CallOnEntry(w)  PROVE IInv'
<1>1. CASE SaveEntry(w)
  <2>1. PICK e \in DOMAIN entries, s \in Slugs : \E to \in Entries \ {e} :
           \E S \in SUBSET DOMAIN FieldsOf(TypeOf[e], fields) : Call(w, "save", e, Filed(S, to), s)
    BY <1>1 DEF SaveEntry
  <2>2. PICK to \in Entries \ {e} :
           \E S \in SUBSET DOMAIN FieldsOf(TypeOf[e], fields) : Call(w, "save", e, Filed(S, to), s)
    BY <2>1
  <2>3. PICK S \in SUBSET DOMAIN FieldsOf(TypeOf[e], fields) : Call(w, "save", e, Filed(S, to), s)
    BY <2>2
  <2>4. S \in SUBSET DOMAIN fields
    BY DEF FieldsOf, Nothing
  <2>5. PICK d : d = Filed(S, to)
    OBVIOUS
  <2>6. IsData(d) /\ Strong(d)
    BY <2>4, <2>5, FiledStrong DEF IInv, SchemaData
  <2>7. Call(w, "save", e, d, s) /\ "save" \in EntryOps
    BY <2>3, <2>5 DEF EntryOps
  <2> QED
    BY <2>6, <2>7, CallGoes
<1>2. CASE CallOnEntry(w)
  <2>1. PICK e \in DOMAIN entries, op \in EntryOps : Call(w, op, e, Nothing, None)
    BY <1>2 DEF CallOnEntry
  <2> QED
    BY <2>1, NothingStrong, CallGoes
<1> QED
  BY <1>1, <1>2

LEMMA AbortGoes ==
  ASSUME IInv, NEW w \in Workers, Abort(w)  PROVE IInv'
BY IdleKnows, IdleApart, Goes DEF Abort, IInv, SchemaData, Schema

LEMMA OfferedKeys == ASSUME Schema, NEW K \in Offered PROVE K \in SUBSET TypeKeys
BY DEF Schema, IsType, Offered

LEMMA ChangesGo ==
  ASSUME IInv, NEW w \in Workers,
         \/ AddField(w) \/ UpdateField(w) \/ RenameField(w) \/ DuplicateField(w) \/ DeleteField(w)
         \/ SetUrlPattern(w) \/ UpdateSettings(w) \/ RenameType(w) \/ DeleteType(w)
  PROVE  IInv'
<1>0. Schema
  BY DEF IInv, SchemaData
<1> DEFINE Good(op, arg) == \A u : u.op = op /\ u.seen = fields /\ u.arg = arg => Asked(u)
<1>1. ASSUME NEW op \in FieldOps, NEW arg, Own(w, op, Owner, arg), Good(op, arg)  PROVE IInv'
  BY <1>1, OwnGoes
<1>2. ASSUME NEW op \in TypeOps, NEW t, NEW arg, Own(w, op, t, arg), Good(op, arg)  PROVE IInv'
  <2>1. op \notin FieldOps
    BY DEF FieldOps, TypeOps
  <2> QED
    BY <1>2, <2>1, OwnGoes
<1>3. CASE AddField(w)
  <2>1. PICK f \in Fresh, k \in Keys, allowed \in Offered, default \in Entries \cup {None}, r \in BOOLEAN :
          Own(w, "add", Owner, [field |-> f, key |-> k, required |-> r,
                                allowed |-> allowed, default |-> default])
    BY <1>3 DEF AddField
  <2>2. PICK a : a = [field |-> f, key |-> k, required |-> r, allowed |-> allowed, default |-> default]
    OBVIOUS
  <2>3. a.field \in Fields /\ a.key \in Keys /\ a.required \in BOOLEAN /\ a.allowed \in SUBSET TypeKeys
    BY <1>0, <2>2, OfferedKeys DEF Fresh
  <2>4. Good("add", a)
    BY <2>3 DEF Asked
  <2> QED
    BY <1>1, <2>1, <2>2, <2>4 DEF FieldOps
<1>4. CASE UpdateField(w)
  <2>1. PICK f \in DOMAIN fields, r \in BOOLEAN, allowed \in Offered \cup {None},
             default \in Entries \cup {None} :
          Own(w, "update", Owner, [field |-> f, required |-> r, allowed |-> allowed, default |-> default])
    BY <1>4 DEF UpdateField
  <2>2. PICK a : a = [field |-> f, required |-> r, allowed |-> allowed, default |-> default]
    OBVIOUS
  <2>3. /\ a.field \in Fields /\ a.field \in DOMAIN fields /\ a.required \in BOOLEAN
        /\ a.allowed = None \/ a.allowed \in SUBSET TypeKeys
    BY <1>0, <2>2, OfferedKeys DEF Schema
  <2>4. Good("update", a)
    BY <2>3 DEF Asked
  <2> QED
    BY <1>1, <2>1, <2>2, <2>4 DEF FieldOps
<1>5. CASE RenameField(w)
  <2>1. PICK f \in DOMAIN fields, k \in Keys : Own(w, "rename", Owner, [field |-> f, key |-> k])
    BY <1>5 DEF RenameField
  <2>2. PICK a : a = [field |-> f, key |-> k]
    OBVIOUS
  <2>3. a.field \in Fields /\ a.field \in DOMAIN fields /\ a.key \in Keys
    BY <1>0, <2>2 DEF Schema
  <2>4. Good("rename", a)
    BY <2>3 DEF Asked
  <2> QED
    BY <1>1, <2>1, <2>2, <2>4 DEF FieldOps
<1>6. CASE DuplicateField(w)
  <2>1. PICK f \in DOMAIN fields, g \in Fresh, k \in Keys, copy \in BOOLEAN :
          Own(w, "duplicate", Owner, [field |-> g, from |-> f, key |-> k, copy |-> copy])
    BY <1>6 DEF DuplicateField
  <2>2. PICK a : a = [field |-> g, from |-> f, key |-> k, copy |-> copy]
    OBVIOUS
  <2>3. a.field \in Fields /\ a.from \in DOMAIN fields /\ a.key \in Keys
    BY <2>2 DEF Fresh
  <2>4. Good("duplicate", a)
    BY <2>3 DEF Asked
  <2> QED
    BY <1>1, <2>1, <2>2, <2>4 DEF FieldOps
<1>7. CASE DeleteField(w)
  <2>1. PICK f \in DOMAIN fields : Own(w, "drop", Owner, [field |-> f])
    BY <1>7 DEF DeleteField
  <2>2. PICK a : a = [field |-> f]
    OBVIOUS
  <2>3. a.field \in DOMAIN fields
    BY <2>2
  <2>4. Good("drop", a)
    BY <2>3 DEF Asked
  <2> QED
    BY <1>1, <2>1, <2>2, <2>4 DEF FieldOps
<1>8. CASE SetUrlPattern(w)
  <2>1. PICK t, a : Own(w, "pattern", t, a)
    BY <1>8 DEF SetUrlPattern
  <2>2. Good("pattern", a)
    BY DEF Asked
  <2> QED
    BY <1>2, <2>1, <2>2 DEF TypeOps
<1>9. CASE UpdateSettings(w)
  <2>1. PICK t, a : Own(w, "settings", t, a)
    BY <1>9 DEF UpdateSettings
  <2>2. Good("settings", a)
    BY DEF Asked
  <2> QED
    BY <1>2, <2>1, <2>2 DEF TypeOps
<1>10. CASE RenameType(w)
  <2>1. PICK t, a : Own(w, "retype", t, a) /\ a \in TypeKeys
    BY <1>10 DEF RenameType
  <2>2. Good("retype", a)
    BY <2>1 DEF Asked
  <2> QED
    BY <1>2, <2>1, <2>2 DEF TypeOps
<1>11. CASE DeleteType(w)
  <2>1. PICK t, a : Own(w, "untype", t, a)
    BY <1>11 DEF DeleteType
  <2>2. Good("untype", a)
    BY DEF Asked
  <2> QED
    BY <1>2, <2>1, <2>2 DEF TypeOps
<1> QED
  BY <1>3, <1>4, <1>5, <1>6, <1>7, <1>8, <1>9, <1>10, <1>11

LEMMA StutterGoes == ASSUME IInv, UNCHANGED vars PROVE IInv'
<1> USE DEF vars
<1>1. SchemaData'
  BY DataStays DEF IInv, SchemaData, Schema
<1>2. \A w \in Workers : Knows(tx[w])'
  BY KnowsStays DEF IInv, Transactions
<1>3. Transactions'
  BY <1>2 DEF IInv, Transactions
<1> QED
  BY <1>1, <1>3 DEF IInv

LEMMA IInvKept == IInv /\ [Next]_vars => IInv'
<1> SUFFICES ASSUME IInv, [Next]_vars PROVE IInv'
  OBVIOUS
<1>1. ASSUME NEW w \in Workers,
             \/ SaveEntry(w) \/ CallOnEntry(w) \/ Begin(w) \/ Abort(w)
             \/ CommitSave(w) \/ CommitPublish(w) \/ CommitPutAway(w) \/ CommitDelete(w)
      PROVE  IInv'
  BY <1>1, CallsGo, BeginGoes, AbortGoes, SaveFits, PublishFits, PutAwayFits, DeleteFits
<1>2. ASSUME NEW w \in Workers,
             \/ CommitAdd(w) \/ CommitUpdate(w) \/ CommitRename(w) \/ CommitDuplicate(w)
             \/ CommitDeleteField(w) \/ LockFields(w) \/ CommitRenameType(w) \/ CommitDeleteType(w)
             \/ CommitPattern(w) \/ CommitSettings(w)
      PROVE  IInv'
  BY <1>2, AddFits, UpdateFits, RenameFits, DuplicateFits, DeleteFieldFits, LockGoes,
     RenameTypeFits, DeleteTypeFits, PatternFits, SettingsFit
<1>3. CASE UNCHANGED vars
  BY <1>3, StutterGoes
<1>4. CASE CreateType
  BY <1>4, CreateFits
<1> QED
  BY <1>1, <1>2, <1>3, <1>4, ChangesGo DEF Next

\* What readers see fits the schema: their values are filed under keys that
\* exist and in fields that have had a key of the one they were written for,
\* they dangle only where a change of the schema put them, and addresses are
\* those of the pattern and the slug as they are (fields.ts, routing.ts).
THEOREM SchemaFits == Spec => []SchemaInv
<1>1. Spec => []IInv
  BY SchemaInit, IInvKept, PTL DEF Spec
<1> QED
  BY <1>1, FitsReaders, PTL

-----------------------------------------------------------------------------
(* Who writes what.                                                        *)

LEMMA NoWriter ==
  ASSUME NEW w \in Workers,
         \/ SaveEntry(w) \/ CallOnEntry(w) \/ Begin(w) \/ Abort(w) \/ LockFields(w)
         \/ AddField(w) \/ UpdateField(w) \/ RenameField(w) \/ DuplicateField(w) \/ DeleteField(w)
         \/ SetUrlPattern(w) \/ UpdateSettings(w) \/ RenameType(w) \/ DeleteType(w)
  PROVE  UNCHANGED <<types, fields, index>>
<1>1. \A op, e, data, slug : Call(w, op, e, data, slug) => UNCHANGED <<types, fields, index>>
  BY DEF Call
<1>2. \A op, t, arg : Own(w, op, t, arg) => UNCHANGED <<types, fields, index>>
  BY DEF Own
<1>3. CASE Begin(w) \/ Abort(w) \/ LockFields(w)
  BY <1>3 DEF Begin, Abort, LockFields
<1>4. CASE SaveEntry(w) \/ CallOnEntry(w)
  BY <1>1, <1>4 DEF SaveEntry, CallOnEntry
<1>5. CASE AddField(w) \/ UpdateField(w)
  BY <1>2, <1>5 DEF AddField, UpdateField
<1>6. CASE RenameField(w) \/ DuplicateField(w) \/ DeleteField(w)
  BY <1>2, <1>6 DEF RenameField, DuplicateField, DeleteField
<1>7. CASE SetUrlPattern(w) \/ UpdateSettings(w) \/ RenameType(w) \/ DeleteType(w)
  BY <1>2, <1>7 DEF SetUrlPattern, UpdateSettings, RenameType, DeleteType
<1> QED
  BY <1>3, <1>4, <1>5, <1>6, <1>7

LEMMA Writers ==
  ASSUME [Next]_vars
  PROVE  \/ UNCHANGED <<types, fields, index>>
         \/ CreateType
         \/ \E v \in Workers :
              \/ CommitSave(v) \/ CommitPublish(v) \/ CommitPutAway(v) \/ CommitDelete(v)
              \/ CommitAdd(v) \/ CommitUpdate(v) \/ CommitRename(v) \/ CommitDuplicate(v)
              \/ CommitDeleteField(v) \/ CommitRenameType(v) \/ CommitDeleteType(v)
              \/ CommitPattern(v) \/ CommitSettings(v)
<1>1. CASE UNCHANGED vars
  BY <1>1 DEF vars
<1>2. CASE Next
  BY <1>2, NoWriter DEF Next
<1> QED
  BY <1>1, <1>2

LEMMA OneEnds ==
  ASSUME IInv, NEW v \in Workers, tx' = [tx EXCEPT ![v] = Idle], NEW w \in Workers, NEW ops, Ends(w, ops)
  PROVE  v = w
BY IdleIs DEF Ends, IInv, Transactions

LEMMA IndexWriter ==
  ASSUME IInv, [Next]_vars, NEW w \in Workers, Ends(w, {"save", "publish"}), index' # index
  PROVE  CommitSave(w) \/ CommitPublish(w)
<1>1. PICK v \in Workers :
         \/ CommitSave(v) \/ CommitPublish(v) \/ CommitDelete(v) \/ CommitDeleteField(v)
  <2>1. CreateType => index' = index
    BY DEF CreateType
  <2>2. \A v \in Workers :
          CommitPutAway(v) \/ CommitAdd(v) \/ CommitUpdate(v) \/ CommitRename(v) \/ CommitDuplicate(v)
            => index' = index
    BY DEF CommitPutAway, CommitAdd, CommitUpdate, CommitRename, CommitDuplicate
  <2>3. \A v \in Workers :
          CommitRenameType(v) \/ CommitDeleteType(v) \/ CommitPattern(v) \/ CommitSettings(v)
            => index' = index
    BY DEF CommitRenameType, CommitDeleteType, CommitPattern, CommitSettings
  <2> QED
    BY <2>1, <2>2, <2>3, Writers
<1>2. CASE CommitSave(v) \/ CommitPublish(v)
  <2>1. tx' = [tx EXCEPT ![v] = Idle]
    BY <1>2 DEF CommitSave, CommitPublish, GoLive, Committed, Set
  <2> QED
    BY <1>2, <2>1, OneEnds
<1>3. CASE CommitDelete(v) \/ CommitDeleteField(v)
  <2>1. tx' = [tx EXCEPT ![v] = Idle] /\ tx[v].op \in {"delete", "drop"}
    BY <1>3 DEF CommitDelete, CommitDeleteField, SchemaStep, Ready, Committed, Set
  <2> QED
    BY <2>1, OneEnds DEF Ends
<1> QED
  BY <1>1, <1>2, <1>3

\* What a save or a publish that moves the index has made live.
LEMMA LiveWrites ==
  ASSUME IInv, NEW w \in Workers, CommitSave(w) \/ CommitPublish(w), index' # index,
         NEW t, t = tx[w], NEW e, e = t.entry
  PROVE  \E data : /\ Valid(t.seen, data) /\ Resolvable(w, t.seen, data) /\ IsData(data)
                   /\ entries'[e].data = Written(data) /\ DOMAIN entries' = DOMAIN entries
                   /\ UNCHANGED fields /\ t.op \in EntryOps /\ t.pc = "held"
<1>1. /\ t.op \in EntryOps /\ t.pc = "held" /\ UNCHANGED fields
  BY DEF CommitSave, CommitPublish, Ready, EntryOps
<1>2. e \in DOMAIN entries /\ IsData(t.data)
  BY <1>1 DEF IInv, Transactions, Knows, Staged
<1>3. PICK row : row = entries[e]
  OBVIOUS
<1>4. RowFits(e, row) /\ IsRow(row)
  BY <1>2, <1>3 DEF IInv, SchemaData, Rows, RowFits
<1>5. ASSUME NEW new, IsRow(new), GoLive(w, new)
      PROVE  entries'[e].data = Written(new.data) /\ DOMAIN entries' = DOMAIN entries
  <2>1. PICK path, data, r :
          /\ path = IF new.status = "published" THEN Path(types[TypeOf[e]], new.slug) ELSE new.path
          /\ data = Written(new.data) /\ r = Touched([new EXCEPT !.path = path, !.data = data])
    OBVIOUS
  <2>2. entries' = [entries EXCEPT ![e] = r]
    BY <1>5, <2>1 DEF GoLive, Committed
  <2>3. r.data = data
    BY <1>5, <2>1 DEF IsRow, RowParts, Touched
  <2> QED
    BY <1>2, <2>1, <2>2, <2>3
<1>6. CASE CommitSave(w)
  <2>1. PICK new : new = [row EXCEPT !.data = t.data, !.slug = t.slug]
    OBVIOUS
  <2>2. GoLive(w, new) /\ Valid(t.seen, t.data) /\ Resolvable(w, t.seen, t.data)
    BY <1>3, <1>6, <2>1 DEF CommitSave
  <2>3. IsRow(new) /\ new.data = t.data
    BY <1>2, <1>4, <2>1 DEF IsRow, RowParts
  <2> QED
    BY <1>1, <1>2, <1>5, <2>2, <2>3
<1>7. CASE CommitPublish(w)
  <2>1. PICK copy, new : copy = Promoted(row) /\ new = [copy EXCEPT !.status = "published"]
    OBVIOUS
  <2>2. GoLive(w, new) /\ Valid(t.seen, copy.data) /\ Resolvable(w, t.seen, copy.data)
    BY <1>3, <1>7, <2>1 DEF CommitPublish
  <2>3. IsRow(copy)
    BY <1>4, <2>1, PromotedFits DEF Rewrites
  <2>4. IsRow(new) /\ new.data = copy.data /\ IsData(copy.data)
    BY <2>1, <2>3 DEF IsRow, RowParts
  <2> QED
    BY <1>1, <1>5, <2>2, <2>4
<1> QED
  BY <1>6, <1>7

\* What a save or a publish makes public fits the fields of that very moment
\* (saveEntryInTransaction and publishEntry), although others change them.
THEOREM PublicWritesFit == Spec => WritesFit
<1> DEFINE Fit(e) ==
             LET fs == FieldsOf(TypeOf[e], fields') data == entries'[e].data IN
             /\ Valid(fs, data)
             /\ \A r \in References(fs, data) : r.target \in DOMAIN entries'
           Fits == \A w \in Workers : \A e \in PublishedRows' :
             (Ends(w, {"save", "publish"}) /\ tx[w].entry = e /\ index' # index) => Fit(e)
<1>1. ASSUME IInv, [Next]_vars  PROVE Fits
  <2> SUFFICES ASSUME NEW w \in Workers, NEW e, Ends(w, {"save", "publish"}), tx[w].entry = e, index' # index
               PROVE  Fit(e)
    OBVIOUS
  <2>1. PICK t : t = tx[w]
    OBVIOUS
  <2>2. CommitSave(w) \/ CommitPublish(w)
    BY <1>1, IndexWriter
  <2>3. PICK data : /\ Valid(t.seen, data) /\ Resolvable(w, t.seen, data) /\ IsData(data)
                    /\ entries'[e].data = Written(data) /\ DOMAIN entries' = DOMAIN entries
                    /\ UNCHANGED fields /\ t.op \in EntryOps /\ t.pc = "held"
    BY <1>1, <2>1, <2>2, LiveWrites
  <2>4. PICK fs, new : fs = FieldsOf(TypeOf[e], fields) /\ new = Written(data)
    OBVIOUS
  <2>5. /\ Valid(fs, data) /\ \A r \in References(fs, data) : r.target \in DOMAIN entries
        /\ \A f \in DOMAIN fs : fs[f].key \in DOMAIN data =>
             [field |-> f, target |-> data[fs[f].key].target] \in References(fs, data)
    BY <1>1, <2>1, <2>3, <2>4, ValidFits
  <2>6. DOMAIN new = DOMAIN data /\ \A k \in DOMAIN data : new[k].target = data[k].target
    <3>1. new = [k \in DOMAIN data |-> [data[k] EXCEPT !.by = "entry"]]
      BY <2>4 DEF Written
    <3> QED
      BY <2>3, <3>1 DEF IsData, IsValue, ValueParts
  <2>7. Valid(fs, new)
    BY <2>5, <2>6 DEF Valid
  <2>8. \A r \in References(fs, new) : r.target \in DOMAIN entries'
    BY <2>3, <2>5, <2>6 DEF References
  <2> QED
    BY <2>3, <2>4, <2>7, <2>8
<1>2. IInv /\ [Next]_vars => IInv' /\ [Fits]_vars
  BY <1>1, IInvKept
<1> QED
  BY <1>2, SchemaInit, PTL DEF Spec, WritesFit

\* The rename or the deletion of a type, with what it found of the fields.
TypeGone(w) == CommitRenameType(w) \/ (CommitDeleteType(w) /\ tx[w].type # Owner)

LEMMA TypeGoneIs ==
  ASSUME IInv, NEW w \in Workers, TypeGone(w),
         NEW t, t = tx[w], NEW old, old = types[t.type].key
  PROVE  /\ DOMAIN fields' = DOMAIN fields /\ Named \subseteq Named' \cup {old} /\ old \notin Named'
         /\ \A f \in DOMAIN fields \ DOMAIN t.seen : fields'[f].allowed = fields[f].allowed
         /\ \A f \in DOMAIN fields \cap DOMAIN t.seen :
              \A k \in TypeKeys \cup fields'[f].allowed \cup fields[f].allowed :
                /\ k \in fields'[f].allowed => k \in Named' \/ (k \in fields[f].allowed /\ k # old)
                /\ k \in fields[f].allowed /\ k # old => k \in fields'[f].allowed
                /\ k \in fields'[f].allowed /\ k \in Named => k \in fields[f].allowed
<1>1. PICK x, new : x = t.type /\ new = IF t.op = "retype" THEN t.arg ELSE None
  OBVIOUS
<1>2. /\ t.pc = "found" /\ t.op \in {"retype", "untype"} /\ t.op \in FieldOps \cup TypeOps
      /\ fields' = Rekeyed(t.seen, old, new)
      /\ t.op = "retype" => types' = [types EXCEPT ![x].key = new] /\ new \notin Named
      /\ t.op = "untype" => types' = Without(types, {x}) /\ new = None
  BY <1>1 DEF TypeGone, CommitRenameType, CommitDeleteType, TypeOps
<1>3. Asked(t) /\ Staged(t) /\ Saw(t) /\ Schema
  BY DEF IInv, Transactions, Knows, SchemaData
<1>4. /\ x \in DOMAIN types /\ \A f \in DOMAIN t.seen : t.seen[f] \in FieldType
      /\ t.op = "retype" => new \in TypeKeys
      /\ new = None \/ new \in TypeKeys
      /\ \A f \in DOMAIN t.seen : f \in DOMAIN fields /\ t.seen[f].allowed = fields[f].allowed
  BY <1>1, <1>2, <1>3 DEF Asked, Staged, Saw
<1>5. /\ DOMAIN fields' = DOMAIN fields
      /\ \A f \in DOMAIN fields : fields'[f].allowed =
           IF f \in DOMAIN t.seen THEN Replaced(fields[f].allowed, old, new) ELSE fields[f].allowed
  BY <1>2, <1>3, <1>4, RekeyedIs DEF SameKeys
<1>6. \A y \in DOMAIN types : types[y].key = old => y = x
  BY <1>1, <1>3, <1>4 DEF Schema
<1>7. Named \subseteq Named' \cup {old} /\ old \notin Named' /\ (new = None \/ (new \in Named' /\ new \notin Named))
  <2>1. CASE t.op = "retype"
    <3>1. DOMAIN types' = DOMAIN types /\ \A y \in DOMAIN types \ {x} : types'[y] = types[y]
      BY <1>2, <2>1
    <3>2. types'[x].key = new
      <4>1. PICK type, changed : type = types[x] /\ changed = types'[x]
        OBVIOUS
      <4>2. IsType(type) /\ changed = [type EXCEPT !.key = new]
        BY <1>2, <1>3, <1>4, <2>1, <4>1 DEF Schema
      <4>3. changed.key = new
        BY <4>2 DEF IsType
      <4> QED
        BY <4>1, <4>3
    <3>3. new \notin Named /\ old \in Named
      BY <1>1, <1>2, <1>4, <2>1 DEF Named
    <3> QED
      BY <1>1, <1>4, <1>6, <3>1, <3>2, <3>3 DEF Named
  <2>2. CASE t.op = "untype"
    <3>1. DOMAIN types' = DOMAIN types \ {x} /\ \A y \in DOMAIN types' : types'[y] = types[y]
      BY <1>2, <2>2 DEF Without
    <3>2. old \notin Named'
      BY <1>6, <3>1 DEF Named
    <3>3. Named \subseteq Named' \cup {old}
      <4> SUFFICES ASSUME NEW y \in DOMAIN types, types[y].key # old  PROVE types[y].key \in Named'
        BY DEF Named
      <4>1. y \in DOMAIN types' /\ types'[y].key = types[y].key
        BY <1>1, <3>1
      <4> QED
        BY <4>1 DEF Named
    <3> QED
      BY <1>2, <2>2, <3>2, <3>3
  <2> QED
    BY <1>2, <2>1, <2>2
<1>8. ASSUME NEW f \in DOMAIN fields \cap DOMAIN t.seen, NEW k
      PROVE  /\ k \in fields'[f].allowed => k \in Named' \/ (k \in fields[f].allowed /\ k # old)
             /\ k \in fields[f].allowed /\ k # old => k \in fields'[f].allowed
             /\ k \in fields'[f].allowed /\ k \in Named => k \in fields[f].allowed
  <2>1. fields'[f].allowed = Replaced(fields[f].allowed, old, new)
    BY <1>5
  <2> QED
    BY <1>7, <2>1 DEF Replaced
<1> QED
  BY <1>5, <1>7, <1>8

LEMMA FollowsWhenGone ==
  ASSUME IInv, [Next]_vars, NEW w \in Workers, Ends(w, {"retype", "untype"}), types' # types,
         NEW f \in DOMAIN fields \cap DOMAIN fields'
  PROVE  /\ fields'[f].allowed \cap (Named \cap Named') = fields[f].allowed \cap (Named \cap Named')
         /\ f \in DOMAIN tx[w].seen => fields'[f].allowed \subseteq fields[f].allowed \cup Named'
<1>1. PICK v \in Workers :
         CommitRenameType(v) \/ CommitDeleteType(v) \/ CommitPattern(v) \/ CommitSettings(v)
  <2>1. CreateType => FALSE
    BY IdleIs DEF CreateType, Ends
  <2>2. \A v \in Workers :
          CommitSave(v) \/ CommitPublish(v) \/ CommitPutAway(v) \/ CommitDelete(v) => types' = types
    BY DEF CommitSave, CommitPublish, CommitPutAway, CommitDelete
  <2>3. \A v \in Workers :
          \/ CommitAdd(v) \/ CommitUpdate(v) \/ CommitRename(v) \/ CommitDuplicate(v) \/ CommitDeleteField(v)
            => types' = types
    BY DEF CommitAdd, CommitUpdate, CommitRename, CommitDuplicate, CommitDeleteField
  <2> QED
    BY <2>1, <2>2, <2>3, Writers
<1>2. tx' = [tx EXCEPT ![v] = Idle]
  BY <1>1 DEF CommitRenameType, CommitDeleteType, CommitPattern, CommitSettings, Committed, Set
<1>3. v = w
  BY <1>2, OneEnds
<1>4. TypeGone(w)
  <2>1. CommitPattern(v) \/ CommitSettings(v) => FALSE
    BY <1>3 DEF CommitPattern, CommitSettings, SchemaStep, Ready, Ends
  <2>2. CommitDeleteType(w) => tx[w].type # Owner
    BY DEF CommitDeleteType, Nothing
  <2> QED
    BY <1>1, <1>3, <2>1, <2>2 DEF TypeGone
<1>5. PICK t, old : t = tx[w] /\ old = types[t.type].key
  OBVIOUS
<1>6. /\ old \notin Named'
      /\ f \notin DOMAIN t.seen => fields'[f].allowed = fields[f].allowed
      /\ f \in DOMAIN t.seen =>
           \A k \in fields'[f].allowed \cup fields[f].allowed :
             /\ k \in fields'[f].allowed => k \in Named' \/ (k \in fields[f].allowed /\ k # old)
             /\ k \in fields[f].allowed /\ k # old => k \in fields'[f].allowed
             /\ k \in fields'[f].allowed /\ k \in Named => k \in fields[f].allowed
  BY <1>4, <1>5, TypeGoneIs
<1> QED
  BY <1>5, <1>6

LEMMA StrangeKeys ==
  ASSUME IInv, [Next]_vars, NEW f \in DOMAIN fields', NEW k \in fields'[f].allowed \ Named'
  PROVE  \/ f \in DOMAIN fields /\ k \in fields[f].allowed \ Named
         \/ \E w \in Workers :
              \/ Ends(w, {"add", "update", "duplicate"})
              \/ Ends(w, {"retype", "untype"}) /\ f \notin DOMAIN tx[w].seen
<1> DEFINE Before == f \in DOMAIN fields /\ k \in fields[f].allowed \ Named
<1>1. CASE UNCHANGED <<types, fields, index>>
  BY <1>1 DEF Named
<1>2. CASE CreateType
  <2>1. PICK t, new : types' = Added(types, t, new) /\ t \notin DOMAIN types /\ UNCHANGED fields
    BY <1>2 DEF CreateType
  <2>2. Named \subseteq Named'
    BY <2>1 DEF Added, Named
  <2> QED
    BY <2>1, <2>2
<1>3. ASSUME NEW v \in Workers,
             CommitSave(v) \/ CommitPublish(v) \/ CommitPutAway(v) \/ CommitDelete(v)
      PROVE  Before
  <2>1. UNCHANGED <<types, fields>>
    BY <1>3 DEF CommitSave, CommitPublish, CommitPutAway, CommitDelete
  <2> QED
    BY <2>1 DEF Named
<1>4. ASSUME NEW v \in Workers, CommitAdd(v) \/ CommitUpdate(v) \/ CommitDuplicate(v)
      PROVE  Ends(v, {"add", "update", "duplicate"})
  <2>1. tx' = [tx EXCEPT ![v] = Idle] /\ tx[v].pc = "held" /\ tx[v].op \in {"add", "update", "duplicate"}
    BY <1>4 DEF CommitAdd, CommitUpdate, CommitDuplicate, SchemaStep, Ready, Committed, Set
  <2> QED
    BY <2>1 DEF Ends, IInv, Transactions
<1>5. ASSUME NEW v \in Workers, CommitRename(v)  PROVE Before
  <2>1. PICK a, to : fields' = [fields EXCEPT ![a].key = to] /\ UNCHANGED types
    BY <1>5 DEF CommitRename
  <2>2. DOMAIN fields' = DOMAIN fields /\ fields[f] \in FieldType
    BY <2>1 DEF IInv, SchemaData, Schema
  <2>3. PICK now, new : now = fields[f] /\ new = fields'[f]
    OBVIOUS
  <2>4. now \in FieldType /\ (new = now \/ new = [now EXCEPT !.key = to])
    BY <2>1, <2>2, <2>3
  <2>5. new.allowed = now.allowed
    BY <2>4 DEF FieldType
  <2> QED
    BY <2>1, <2>2, <2>3, <2>5 DEF Named
<1>6. ASSUME NEW v \in Workers, CommitDeleteField(v)  PROVE Before
  <2>1. PICK a : fields' = Without(fields, {a}) /\ UNCHANGED types
    BY <1>6 DEF CommitDeleteField
  <2> QED
    BY <2>1 DEF Without, Named
<1>7. ASSUME NEW v \in Workers, CommitPattern(v) \/ CommitSettings(v)  PROVE Before
  <2>1. \A y \in DOMAIN types : IsType(types[y])
    BY DEF IInv, SchemaData, Schema
  <2>2. UNCHANGED fields /\ DOMAIN types' = DOMAIN types
    BY <1>7 DEF CommitPattern, CommitSettings, SchemaStep
  <2>3. ASSUME NEW y \in DOMAIN types  PROVE types'[y].key = types[y].key
    <3>1. PICK type, new, a : type = types[y] /\ new = types'[y] /\ a = tx[v].arg
      OBVIOUS
    <3>2. \/ new = type \/ new = [type EXCEPT !.pattern = a]
          \/ new = [[type EXCEPT !.routable = a.routable] EXCEPT !.drafts = a.drafts]
      BY <1>7, <3>1 DEF CommitPattern, CommitSettings
    <3>3. new.key = type.key
      BY <2>1, <3>1, <3>2 DEF IsType
    <3> QED
      BY <3>1, <3>3
  <2> QED
    BY <2>2, <2>3 DEF Named
<1>8. ASSUME NEW v \in Workers, CommitRenameType(v) \/ CommitDeleteType(v)
      PROVE  Before \/ (Ends(v, {"retype", "untype"}) /\ f \notin DOMAIN tx[v].seen)
  <2>1. TypeGone(v)
    BY <1>8 DEF TypeGone, CommitDeleteType, Nothing
  <2>2. Ends(v, {"retype", "untype"})
    <3>1. tx' = [tx EXCEPT ![v] = Idle] /\ tx[v].pc = "found" /\ tx[v].op \in {"retype", "untype"}
      BY <1>8 DEF CommitRenameType, CommitDeleteType, Set
    <3> QED
      BY <3>1 DEF Ends, IInv, Transactions
  <2>3. PICK t, old : t = tx[v] /\ old = types[t.type].key
    OBVIOUS
  <2>4. /\ DOMAIN fields' = DOMAIN fields /\ Named \subseteq Named' \cup {old}
        /\ \A g \in DOMAIN fields \cap DOMAIN t.seen :
             \A j \in TypeKeys \cup fields'[g].allowed \cup fields[g].allowed :
               j \in fields'[g].allowed => j \in Named' \/ (j \in fields[g].allowed /\ j # old)
    BY <2>1, <2>3, TypeGoneIs
  <2> QED
    BY <2>2, <2>3, <2>4
<1> QED
  BY <1>1, <1>2, <1>3, <1>4, <1>5, <1>6, <1>7, <1>8, Writers

\* When a type is renamed or deleted the fields that were found follow, and lose
\* nothing that others wrote meanwhile; a key that is that of no type comes into
\* a field only from a writer that had it before, or stays in one that was not
\* found (rewriteReferencingFields and findReferencingFields).
THEOREM ReferencesFollowTypes == Spec => TypeKeysFollow
<1> DEFINE Gone == \A w \in Workers : Ends(w, {"retype", "untype"}) /\ types' # types =>
             \A f \in DOMAIN fields \cap DOMAIN fields' :
               /\ fields'[f].allowed \cap (Named \cap Named') = fields[f].allowed \cap (Named \cap Named')
               /\ f \in DOMAIN tx[w].seen => fields'[f].allowed \subseteq fields[f].allowed \cup Named'
           Strange == \A f \in DOMAIN fields' : \A k \in fields'[f].allowed \ Named' :
             \/ f \in DOMAIN fields /\ k \in fields[f].allowed \ Named
             \/ \E w \in Workers :
                  \/ Ends(w, {"add", "update", "duplicate"})
                  \/ Ends(w, {"retype", "untype"}) /\ f \notin DOMAIN tx[w].seen
<1>1. IInv /\ [Next]_vars => Gone
  BY FollowsWhenGone
<1>2. IInv /\ [Next]_vars => Strange
  BY StrangeKeys
<1>3. IInv /\ [Next]_vars => IInv' /\ [Gone /\ Strange]_vars
  <2> HIDE DEF Gone, Strange
  <2> QED
    BY <1>1, <1>2, IInvKept
<1> QED
  BY <1>3, SchemaInit, PTL DEF Spec, TypeKeysFollow

=============================================================================
