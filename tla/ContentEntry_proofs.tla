------------------------ MODULE ContentEntry_proofs -------------------------
(***************************************************************************)
(* For any locales, accounts and settings: the rows and revisions of an    *)
(* entry fit together, nobody loses what they saved, nothing is written    *)
(* that its caller has not seen as it is, and a lock of somebody else      *)
(* shields its row.                                                        *)
(***************************************************************************)
EXTENDS ContentEntry, FiniteSetTheorems, TLAPS

TxParts == {"op", "pc", "locale", "base", "seen", "publishes", "input", "found", "sharing"}
IsFunction(f) == f = [x \in DOMAIN f |-> f[x]]
RowSet ==
  [status : {"draft", "published", "scheduled", "trashed"}, data : Datum,
   version : Nat \ {0}, draft : Nat, live : Nat, scheduled : BOOLEAN, by : Writers \cup {NoOne}]
RevSet == [locale : L, kind : {"save", "publish"}, data : Datum]

\* Rows and revisions that fit together.
Resolves(st, l) ==
  LET row == st.rows[l] IN
  /\ row.draft # 0 =>
       /\ row.draft \in DOMAIN st.revs /\ st.revs[row.draft].locale = l /\ st.revs[row.draft].kind = "save"
       /\ type.drafts /\ row.status \in {"published", "scheduled"}
  /\ row.live # 0 =>
       row.live \in DOMAIN st.revs /\ st.revs[row.live].locale = l /\ st.revs[row.live].kind = "publish"
Recordable(vs) ==
  /\ IsFunction(vs) /\ DOMAIN vs \subseteq Nat \ {0} /\ IsFiniteSet(DOMAIN vs)
  /\ \A r \in DOMAIN vs : vs[r] \in RevSet
Sound(st) ==
  /\ IsFunction(st.rows) /\ DOMAIN st.rows = L /\ Recordable(st.revs)
  /\ \A l \in L : st.rows[l] = Absent \/ (st.rows[l] \in RowSet /\ Resolves(st, l))
Has(st, l) == l \in L /\ st.rows[l] # Absent
CopyOf(st, l) == CopyIn(st.rows, st.revs, l)

\* Nothing of a row has changed.
Same(st, to, l) == to.rows[l] = st.rows[l] /\ (Has(st, l) => CopyOf(to, l) = CopyOf(st, l))
\* Revisions are only added, and rows stay as they are.
Extends(vs, to) == DOMAIN vs \subseteq DOMAIN to /\ \A r \in DOMAIN vs : to[r] = vs[r]
Adds(vs, to, n, rev) ==
  /\ Recordable(to) /\ DOMAIN to = DOMAIN vs \cup {n} /\ n \notin DOMAIN vs /\ n \in Nat \ {0}
  /\ Extends(vs, to) /\ to[n] = rev
Keeps(st, to) == Sound(to) /\ to.rows = st.rows /\ \A k \in L : Same(st, to, k)
\* A row may have been written, which its version tells.
Written(st, to, l) ==
  /\ Has(to, l) /\ to.rows[l].status = st.rows[l].status /\ to.rows[l].by = st.rows[l].by
  /\ (Same(st, to, l) \/ to.rows[l].version = st.rows[l].version + 1)
  /\ (type.drafts /\ st.rows[l].status = "published") => to.rows[l].data = st.rows[l].data

-----------------------------------------------------------------------------
(* Numbers, locales and the helpers on revisions.                          *)

LEMMA MaxIsThere ==
  ASSUME NEW S \in SUBSET Nat, IsFiniteSet(S), S # {}
  PROVE  Max(S) \in S /\ \A s \in S : s <= Max(S)
<1> DEFINE Above(s) == {t \in S : t > s}
           T == {Above(s) : s \in S}
<1>1. \A s \in S : Above(s) \in FiniteSubsetsOf(S)
  BY FS_Subset DEF FiniteSubsetsOf
<1>2. T \subseteq FiniteSubsetsOf(S) /\ T # {}
  <2>1. \E s \in S : Above(s) \in T
    OBVIOUS
  <2>2. \A x \in T : \E s \in S : x = Above(s)
    OBVIOUS
  <2> HIDE DEF T, Above
  <2> QED
    BY <1>1, <2>1, <2>2
<1>3. PICK x \in T : \A y \in T : ~ (<<y, x>> \in StrictSubsetOrdering(S))
  <2> HIDE DEF T
  <2> QED
    BY <1>2, FS_StrictSubsetOrderingWellFounded, WFMin
<1>4. PICK m \in S : x = Above(m)
  OBVIOUS
<1>5. ASSUME NEW s \in S, s > m PROVE FALSE
  <2>1. \A t \in S : t > s => t > m
    <3> TAKE t \in S
    <3>1. s \in Nat /\ m \in Nat /\ t \in Nat
      OBVIOUS
    <3> QED
      BY <1>5, <3>1
  <2>2. Above(s) \subseteq Above(m)
    BY <2>1
  <2>3. s \in Above(m)
    BY <1>5
  <2>4. s \notin Above(s)
    <3>1. s \in Nat
      OBVIOUS
    <3> QED
      BY <3>1
  <2>5. <<Above(s), x>> \in StrictSubsetOrdering(S)
    BY <1>4, <2>2, <2>3, <2>4 DEF StrictSubsetOrdering
  <2> QED
    BY <1>3, <2>5
<1>6. \A s \in S : m >= s
  BY <1>5
<1>7. Max(S) \in S /\ \A s \in S : Max(S) >= s
  BY <1>6 DEF Max
<1> QED
  BY <1>7

LEMMA MinIsThere ==
  ASSUME NEW S \in SUBSET Nat, IsFiniteSet(S), S # {}
  PROVE  Min(S) \in S
<1> DEFINE Below(s) == {t \in S : t < s}
           T == {Below(s) : s \in S}
<1>1. \A s \in S : Below(s) \in FiniteSubsetsOf(S)
  BY FS_Subset DEF FiniteSubsetsOf
<1>2. T \subseteq FiniteSubsetsOf(S) /\ T # {}
  <2>1. \E s \in S : Below(s) \in T
    OBVIOUS
  <2>2. \A x \in T : \E s \in S : x = Below(s)
    OBVIOUS
  <2> HIDE DEF T, Below
  <2> QED
    BY <1>1, <2>1, <2>2
<1>3. PICK x \in T : \A y \in T : ~ (<<y, x>> \in StrictSubsetOrdering(S))
  <2> HIDE DEF T
  <2> QED
    BY <1>2, FS_StrictSubsetOrderingWellFounded, WFMin
<1>4. PICK m \in S : x = Below(m)
  OBVIOUS
<1>5. ASSUME NEW s \in S, s < m PROVE FALSE
  <2>1. \A t \in S : t < s => t < m
    <3> TAKE t \in S
    <3>1. s \in Nat /\ m \in Nat /\ t \in Nat
      OBVIOUS
    <3> QED
      BY <1>5, <3>1
  <2>2. Below(s) \subseteq Below(m)
    BY <2>1
  <2>3. s \in Below(m)
    BY <1>5
  <2>4. s \notin Below(s)
    <3>1. s \in Nat
      OBVIOUS
    <3> QED
      BY <3>1
  <2>5. <<Below(s), x>> \in StrictSubsetOrdering(S)
    BY <1>4, <2>2, <2>3, <2>4 DEF StrictSubsetOrdering
  <2> QED
    BY <1>3, <2>5
<1>6. \A s \in S : m =< s
  BY <1>5
<1> QED
  BY <1>6 DEF Min

LEMMA FewLocales == IsFiniteSet(L) /\ DOMAIN Locales \subseteq Nat /\ IsFiniteSet(DOMAIN Locales)
<1>1. DOMAIN Locales = 1..Len(Locales) /\ Len(Locales) \in Nat
  BY ContentAssumption DEF ContentAssumption
<1>2. IsFiniteSet(DOMAIN Locales)
  BY <1>1, FS_Interval
<1>3. [i \in DOMAIN Locales |-> Locales[i]] \in Surjection(DOMAIN Locales, L)
  BY DEF Surjection, L, Range
<1>4. IsFiniteSet(L)
  BY <1>2, <1>3, FS_Surjection
<1> QED
  BY <1>1, <1>2, <1>4

LEMMA RecordedIs ==
  ASSUME NEW vs, Recordable(vs), NEW l \in L, NEW kind \in {"save", "publish"}, NEW data \in Datum
  PROVE  Adds(vs, Recorded(vs, l, kind, data), Newest(Recorded(vs, l, kind, data)),
              [locale |-> l, kind |-> kind, data |-> data])
<1> DEFINE to == Recorded(vs, l, kind, data)
           n == Newest(vs) + 1
<1>0. DOMAIN vs \subseteq Nat \ {0} /\ IsFiniteSet(DOMAIN vs)
  BY DEF Recordable
<1>1. Newest(vs) \in Nat /\ \A r \in DOMAIN vs : r <= Newest(vs)
  BY <1>0, MaxIsThere DEF Newest
<1>2. n \in Nat \ {0} /\ n \notin DOMAIN vs
  BY <1>0, <1>1
<1>3. DOMAIN to = DOMAIN vs \cup {n} /\ IsFunction(to)
      /\ (\A r \in DOMAIN vs : to[r] = vs[r]) /\ to[n] = [locale |-> l, kind |-> kind, data |-> data]
  BY <1>2 DEF Recorded, IsFunction
<1>4. IsFiniteSet(DOMAIN to)
  BY <1>0, <1>3, FS_AddElement
<1>5. Newest(to) = n
  <2>1. Max(DOMAIN to) \in DOMAIN to /\ \A r \in DOMAIN to : r <= Max(DOMAIN to)
    BY <1>0, <1>2, <1>3, <1>4, MaxIsThere
  <2>2. \A r \in DOMAIN to : r \in Nat /\ r <= n
    BY <1>0, <1>1, <1>2, <1>3
  <2>3. n \in DOMAIN to /\ Max(DOMAIN to) \in Nat /\ n \in Nat
    BY <1>2, <1>3, <2>1, <2>2
  <2>4. Max(DOMAIN to) <= n /\ n <= Max(DOMAIN to)
    BY <2>1, <2>2, <2>3
  <2>5. Max(DOMAIN to) = n
    BY <2>3, <2>4
  <2>6. DOMAIN to # {}
    BY <1>3
  <2> HIDE DEF to
  <2> QED
    BY <2>5, <2>6 DEF Newest
<1>6. \A r \in DOMAIN to : to[r] \in RevSet
  BY <1>3 DEF Recordable, RevSet
<1>7. Recordable(to)
  BY <1>0, <1>2, <1>3, <1>4, <1>6 DEF Recordable
<1> HIDE DEF to, n
<1> QED
  BY <1>2, <1>3, <1>5, <1>7 DEF Adds, Extends, to

\* A revision that no row points at may go.
LEMMA WithoutKeeps ==
  ASSUME NEW st, Sound(st), NEW R,
         \A l \in L : Has(st, l) => st.rows[l].draft \notin R /\ st.rows[l].live \notin R
  PROVE  Keeps(st, Without(st, R))
<1> DEFINE to == Without(st, R)
<1>1. to.rows = st.rows
  <2>1. \A l \in L : Has(st, l) => [st.rows[l] EXCEPT !.draft = IF @ \in R THEN 0 ELSE @,
                                                      !.live = IF @ \in R THEN 0 ELSE @] = st.rows[l]
    BY DEF Sound, RowSet, Has
  <2>2. to.rows = [l \in L |-> st.rows[l]]
    BY <2>1 DEF Without, Has
  <2> QED
    BY <2>2 DEF Sound, IsFunction
<1>2. /\ DOMAIN to.revs = DOMAIN st.revs \ R /\ IsFunction(to.revs)
      /\ \A r \in DOMAIN st.revs \ R : to.revs[r] = st.revs[r]
  BY DEF Without, IsFunction
<1>3. Recordable(to.revs)
  BY <1>2, FS_Subset DEF Sound, Recordable
<1> HIDE DEF to
<1>4. \A l \in L : Has(st, l) => Resolves(to, l) /\ CopyOf(to, l) = CopyOf(st, l)
  BY <1>1, <1>2 DEF Sound, Resolves, Has, CopyOf, CopyIn
<1>5. Sound(to)
  BY <1>1, <1>3, <1>4 DEF Sound, Has
<1> QED
  BY <1>1, <1>4, <1>5 DEF Same, Keeps, to

\* One row is written anew, beside what may have been recorded.
LEMMA PutKeeps ==
  ASSUME NEW st, Sound(st), NEW l \in L, NEW row \in RowSet, NEW vs, Recordable(vs),
         Extends(st.revs, vs),
         NEW to, to.rows = [st.rows EXCEPT ![l] = row], to.revs = vs, Resolves(to, l)
  PROVE  /\ Sound(to) /\ to.rows[l] = row /\ Has(to, l)
         /\ \A k \in L \ {l} : Same(st, to, k)
<1>1. /\ IsFunction(to.rows) /\ DOMAIN to.rows = L /\ to.rows[l] = row
      /\ \A k \in L \ {l} : to.rows[k] = st.rows[k]
  BY DEF Sound, IsFunction
<1>2. \A k \in L \ {l} : Has(st, k) => Resolves(to, k) /\ CopyOf(to, k) = CopyOf(st, k)
  BY <1>1 DEF Sound, Resolves, Has, CopyOf, CopyIn, Extends
<1>3. row # Absent
  BY DEF RowSet, Absent
<1> QED
  BY <1>1, <1>2, <1>3 DEF Sound, Same, Has

-----------------------------------------------------------------------------
(* Writing a working copy.                                                 *)

\* The draft a row no longer points at may go.
LEMMA OldDraftGoes ==
  ASSUME NEW st, Sound(st), NEW l \in L, Has(st, l), st.rows[l].draft # 0,
         NEW mid, Sound(mid), \A k \in L \ {l} : mid.rows[k] = st.rows[k],
         mid.rows[l].draft # st.rows[l].draft,
         Extends(st.revs, mid.revs)
  PROVE  Keeps(mid, Without(mid, {st.rows[l].draft}))
<1> DEFINE r == st.rows[l].draft
<1>1. r \in DOMAIN st.revs /\ st.revs[r].locale = l /\ st.revs[r].kind = "save"
  BY DEF Sound, Has, Resolves
<1>2. mid.revs[r].locale = l /\ mid.revs[r].kind = "save" /\ r # 0
  BY <1>1 DEF Extends
<1> HIDE DEF r
<1>3. ASSUME NEW k \in L, Has(mid, k) PROVE mid.rows[k].draft # r /\ mid.rows[k].live # r
  <2>1. Resolves(mid, k)
    BY <1>3 DEF Sound, Has
  <2>2. mid.rows[k].live # r
    BY <1>2, <2>1 DEF Resolves
  <2>3. CASE k = l
    BY <2>2, <2>3 DEF r
  <2>4. CASE k # l
    BY <1>2, <2>1, <2>2, <2>4 DEF Resolves
  <2> QED
    BY <2>3, <2>4
<1>4. \A k \in L : Has(mid, k) => mid.rows[k].draft \notin {r} /\ mid.rows[k].live \notin {r}
  BY <1>3
<1>5. Keeps(mid, Without(mid, {r}))
  BY <1>4, WithoutKeeps
<1> QED
  BY <1>5 DEF r

LEMMA DroppedKeeps ==
  ASSUME NEW st, Sound(st), NEW l \in L, Has(st, l),
         NEW mid, Sound(mid), \A k \in L \ {l} : mid.rows[k] = st.rows[k],
         mid.rows[l].draft # st.rows[l].draft \/ mid.rows[l].draft = 0,
         Extends(st.revs, mid.revs)
  PROVE  Keeps(mid, Dropped(mid, st.rows[l].draft))
<1>1. CASE st.rows[l].draft = 0 \/ KeepsDrafts
  BY <1>1 DEF Dropped, Same, Keeps
<1>2. CASE ~ (st.rows[l].draft = 0 \/ KeepsDrafts)
  <2>1. Dropped(mid, st.rows[l].draft) = Without(mid, {st.rows[l].draft})
    BY <1>2 DEF Dropped
  <2> QED
    BY <1>2, <2>1, OldDraftGoes
<1> QED
  BY <1>1, <1>2

LEMMA PrunedKeeps ==
  ASSUME NEW st, Sound(st), NEW l
  PROVE  Keeps(st, Pruned(st, l))
<1>1. \A k \in L : Has(st, k) => st.rows[k].draft \notin Prunable(st, l) /\ st.rows[k].live \notin Prunable(st, l)
  BY DEF Has, Prunable, Pointed, Present
<1>2. CASE cap = 0
  BY <1>2 DEF Pruned, Same, Keeps
<1>3. CASE cap # 0
  BY <1>1, <1>3, WithoutKeeps DEF Pruned
<1> QED
  BY <1>2, <1>3

LEMMA StagedDoes ==
  ASSUME NEW st, Sound(st), NEW l \in L, Has(st, l), NEW data \in Datum, Stages(st.rows[l])
  PROVE  LET to == Staged(st, l, data) IN
         /\ Sound(to) /\ \A k \in L \ {l} : Same(st, to, k)
         /\ Has(to, l) /\ CopyOf(to, l) = data /\ to.rows[l].version = st.rows[l].version + 1
         /\ to.rows[l].status = st.rows[l].status /\ to.rows[l].by = st.rows[l].by
         /\ to.rows[l].data = st.rows[l].data
<1> DEFINE vs == Recorded(st.revs, l, "save", data)
           n == Newest(vs)
           row == [st.rows[l] EXCEPT !.draft = n, !.version = @ + 1]
           mid == [rows |-> [st.rows EXCEPT ![l] = row], revs |-> vs]
           to == Dropped(mid, st.rows[l].draft)
<1>1. st.rows[l] \in RowSet /\ Resolves(st, l) /\ Recordable(st.revs)
  BY DEF Sound, Has
<1>2. Adds(st.revs, vs, n, [locale |-> l, kind |-> "save", data |-> data])
  BY <1>1, RecordedIs
<1> HIDE DEF vs, n
<1>3. /\ row \in RowSet /\ row.draft = n /\ row.version = st.rows[l].version + 1
      /\ row.status = st.rows[l].status /\ row.by = st.rows[l].by /\ row.data = st.rows[l].data
      /\ row.live = st.rows[l].live
  <2>1. st.rows[l].version + 1 \in Nat \ {0} /\ n \in Nat
    BY <1>1, <1>2 DEF RowSet, Adds
  <2> QED
    BY <1>1, <2>1 DEF RowSet
<1> HIDE DEF row
<1>4. mid.rows = [st.rows EXCEPT ![l] = row] /\ mid.revs = vs /\ mid.rows[l] = row
  BY DEF Sound
<1> HIDE DEF mid
<1>5. Resolves(mid, l)
  BY <1>1, <1>2, <1>3, <1>4 DEF Resolves, Stages, Adds, Extends
<1>6. /\ Sound(mid) /\ Has(mid, l) /\ \A k \in L \ {l} : Same(st, mid, k)
  BY <1>1, <1>2, <1>3, <1>4, <1>5, PutKeeps DEF Adds
<1>7. CopyOf(mid, l) = data
  BY <1>2, <1>3, <1>4 DEF CopyOf, CopyIn, Adds
<1>8. row.draft # st.rows[l].draft
  BY <1>1, <1>2, <1>3 DEF Resolves, Adds
<1>9. Keeps(mid, to)
  <2>1. \A k \in L \ {l} : mid.rows[k] = st.rows[k]
    BY <1>6 DEF Same
  <2> HIDE DEF to
  <2> QED
    BY <1>2, <1>3, <1>4, <1>6, <1>8, <2>1, DroppedKeeps DEF to, Adds
<1>10. to = Staged(st, l, data)
  BY DEF Staged, to, mid, row, n, vs
<1> HIDE DEF to
<1>11. \A k \in L \ {l} : Same(st, to, k)
  BY <1>6, <1>9 DEF Same, Has, Keeps
<1>12. Has(to, l) /\ CopyOf(to, l) = data
  BY <1>6, <1>7, <1>9 DEF Same, Has, Keeps
<1>13. to.rows[l] = row
  BY <1>4, <1>9 DEF Keeps
<1> QED
  BY <1>3, <1>9, <1>10, <1>11, <1>12, <1>13 DEF Keeps

LEMMA WrittenLiveDoes ==
  ASSUME NEW st, Sound(st), NEW l \in L, Has(st, l), NEW data \in Datum, ~ Stages(st.rows[l])
  PROVE  LET to == WrittenLive(st, l, data) IN
         /\ Sound(to) /\ \A k \in L \ {l} : Same(st, to, k)
         /\ Has(to, l) /\ CopyOf(to, l) = data /\ to.rows[l].version = st.rows[l].version + 1
         /\ to.rows[l].status = st.rows[l].status /\ to.rows[l].by = st.rows[l].by
<1> DEFINE was == st.rows[l]
           public == was.status = "published" /\ type.revisions # "off"
           vs == IF public THEN Recorded(st.revs, l, "publish", data)
                 ELSE IF KeepsDrafts THEN Recorded(st.revs, l, "save", data) ELSE st.revs
           live == IF public THEN Newest(vs) ELSE was.live
           row == [was EXCEPT !.data = data, !.live = live, !.version = @ + 1]
           to == [rows |-> [st.rows EXCEPT ![l] = row], revs |-> vs]
<1>1. was \in RowSet /\ Resolves(st, l) /\ Recordable(st.revs)
  BY DEF Sound, Has
<1>2. /\ Recordable(vs) /\ Extends(st.revs, vs)
      /\ live \in Nat
      /\ (live # 0 => live \in DOMAIN vs /\ vs[live].locale = l /\ vs[live].kind = "publish")
  <2>1. CASE public
    <3> DEFINE new == Recorded(st.revs, l, "publish", data)
    <3>1. vs = new /\ live = Newest(new)
      BY <2>1
    <3>2. Adds(st.revs, new, Newest(new), [locale |-> l, kind |-> "publish", data |-> data])
      BY <1>1, RecordedIs
    <3> HIDE DEF new, vs, live
    <3> QED
      BY <3>1, <3>2 DEF Adds
  <2>2. CASE ~ public /\ KeepsDrafts
    <3> DEFINE new == Recorded(st.revs, l, "save", data)
    <3>1. vs = new /\ live = was.live
      BY <2>2
    <3>2. Adds(st.revs, new, Newest(new), [locale |-> l, kind |-> "save", data |-> data])
      BY <1>1, RecordedIs
    <3>3. was.live \in Nat
      BY <1>1 DEF RowSet
    <3> HIDE DEF new, vs, live
    <3> QED
      BY <1>1, <3>1, <3>2, <3>3 DEF Resolves, Adds, Extends
  <2>3. CASE ~ public /\ ~ KeepsDrafts
    <3>1. vs = st.revs /\ live = was.live
      BY <2>3
    <3>2. was.live \in Nat
      BY <1>1 DEF RowSet
    <3> HIDE DEF vs, live
    <3> QED
      BY <1>1, <3>1, <3>2 DEF Resolves, Extends
  <2> QED
    BY <2>1, <2>2, <2>3
<1>0. to = WrittenLive(st, l, data)
  BY DEF WrittenLive
<1> HIDE DEF vs, live
<1>3. was.draft = 0
  BY <1>1 DEF Resolves, Stages
<1>4. /\ row \in RowSet /\ row.draft = 0 /\ row.version = was.version + 1
      /\ row.status = was.status /\ row.by = was.by /\ row.data = data /\ row.live = live
  <2>1. was.version + 1 \in Nat \ {0}
    BY <1>1 DEF RowSet
  <2> QED
    BY <1>1, <1>2, <1>3, <2>1 DEF RowSet
<1> HIDE DEF row
<1>5. to.rows = [st.rows EXCEPT ![l] = row] /\ to.revs = vs /\ to.rows[l] = row
  BY DEF Sound
<1> HIDE DEF to
<1>6. Resolves(to, l)
  BY <1>2, <1>4, <1>5 DEF Resolves
<1>7. /\ Sound(to) /\ Has(to, l) /\ \A k \in L \ {l} : Same(st, to, k)
  BY <1>1, <1>2, <1>4, <1>5, <1>6, PutKeeps
<1>8. CopyOf(to, l) = data
  BY <1>4, <1>5 DEF CopyOf, CopyIn
<1> QED
  BY <1>0, <1>4, <1>5, <1>7, <1>8

\* A write replaces the working copy of one row, and moves its version; what
\* readers see of a published row stays while the type has drafts.
LEMMA WriteCopyDoes ==
  ASSUME NEW st, Sound(st), NEW l \in L, Has(st, l), NEW data \in Datum
  PROVE  LET to == WriteCopy(st, l, data) IN
         /\ Sound(to) /\ (\A k \in L \ {l} : Same(st, to, k))
         /\ Has(to, l) /\ CopyOf(to, l) = data /\ to.rows[l].version = st.rows[l].version + 1
         /\ to.rows[l].status = st.rows[l].status /\ to.rows[l].by = st.rows[l].by
         /\ (Stages(st.rows[l]) => to.rows[l].data = st.rows[l].data)
<1> DEFINE mid == IF Stages(st.rows[l]) THEN Staged(st, l, data) ELSE WrittenLive(st, l, data)
           to == Pruned(mid, l)
<1>1. /\ Sound(mid) /\ (\A k \in L \ {l} : Same(st, mid, k))
      /\ Has(mid, l) /\ CopyOf(mid, l) = data /\ mid.rows[l].version = st.rows[l].version + 1
      /\ mid.rows[l].status = st.rows[l].status /\ mid.rows[l].by = st.rows[l].by
      /\ (Stages(st.rows[l]) => mid.rows[l].data = st.rows[l].data)
  <2>1. CASE Stages(st.rows[l])
    BY <2>1, StagedDoes
  <2>2. CASE ~ Stages(st.rows[l])
    BY <2>2, WrittenLiveDoes
  <2> QED
    BY <2>1, <2>2
<1>2. to = WriteCopy(st, l, data)
  BY DEF WriteCopy
<1> HIDE DEF mid
<1>3. Keeps(mid, to)
  BY <1>1, PrunedKeeps
<1> HIDE DEF to
<1>4. \A k \in L \ {l} : Same(st, to, k)
  BY <1>1, <1>3 DEF Same, Has, Keeps
<1>5. Has(to, l) /\ CopyOf(to, l) = data
  BY <1>1, <1>3 DEF Same, Has, Keeps
<1> QED
  BY <1>1, <1>2, <1>3, <1>4, <1>5 DEF Keeps

LEMMA CopyIsData ==
  ASSUME NEW st, Sound(st), NEW l \in L, Has(st, l)
  PROVE  CopyOf(st, l) \in Datum
<1>1. st.rows[l] \in RowSet /\ Resolves(st, l) /\ Recordable(st.revs)
  BY DEF Sound, Has
<1>2. st.rows[l].data \in Datum
  BY <1>1 DEF RowSet
<1>3. st.rows[l].draft # 0 => st.revs[st.rows[l].draft].data \in Datum
  <2> SUFFICES ASSUME st.rows[l].draft # 0 PROVE st.revs[st.rows[l].draft].data \in Datum
    OBVIOUS
  <2>1. st.revs[st.rows[l].draft] \in RevSet
    BY <1>1 DEF Resolves, Recordable
  <2> QED
    BY <2>1 DEF RevSet
<1> QED
  BY <1>2, <1>3 DEF CopyOf, CopyIn

\* The shared value is written to a row, beside the text it has.
Takes(st, to, l, value) ==
  Written(st, to, l) /\ CopyOf(to, l).value = value /\ CopyOf(to, l).text = CopyOf(st, l).text

LEMMA SyncedDoes ==
  ASSUME NEW st, Sound(st), NEW l \in L, Has(st, l), NEW value \in Values \cup {0}
  PROVE  LET to == Synced(st, l, value) IN
         Sound(to) /\ (\A k \in L \ {l} : Same(st, to, k)) /\ Takes(st, to, l, value)
<1> DEFINE was == CopyOf(st, l)
           data == [was EXCEPT !.value = value]
           to == Synced(st, l, value)
<1>1. was \in Datum
  BY CopyIsData
<1>2. data \in Datum /\ data.value = value /\ data.text = was.text
  BY <1>1 DEF Datum
<1>3. to = IF data = was THEN st ELSE WriteCopy(st, l, data)
  BY DEF Synced, CopyOf
<1> HIDE DEF data, was, to
<1>4. Sound(to) /\ (\A k \in L \ {l} : Same(st, to, k)) /\ Takes(st, to, l, value)
  <2>1. CASE data = was
    <3>1. to = st
      BY <1>3, <2>1
    <3>2. Same(st, st, l) /\ Written(st, st, l)
      BY DEF Same, Written
    <3>3. CopyOf(st, l).value = value
      BY <1>2, <2>1 DEF was
    <3> QED
      BY <3>1, <3>2, <3>3 DEF Same, Takes
  <2>2. CASE data # was
    <3>1. to = WriteCopy(st, l, data)
      BY <1>3, <2>2
    <3>2. /\ Sound(to) /\ (\A k \in L \ {l} : Same(st, to, k))
          /\ Has(to, l) /\ CopyOf(to, l) = data /\ to.rows[l].version = st.rows[l].version + 1
          /\ to.rows[l].status = st.rows[l].status /\ to.rows[l].by = st.rows[l].by
          /\ (Stages(st.rows[l]) => to.rows[l].data = st.rows[l].data)
      BY <1>2, <3>1, WriteCopyDoes
    <3>3. Written(st, to, l)
      BY <3>2 DEF Written, Stages
    <3> QED
      BY <1>2, <3>2, <3>3 DEF Takes, was
  <2> QED
    BY <2>1, <2>2
<1> QED
  BY <1>4 DEF to

-----------------------------------------------------------------------------
(* Every sibling is synced: the fold of the code's loop.                   *)

One(s) == CHOOSE x \in s : TRUE
SyncOf(g, s, own, value) == IF s = {} THEN own ELSE Synced(g[s \ {One(s)}], One(s), value)
Folding(g, S, own, value) == DOMAIN g = SUBSET S /\ \A s \in SUBSET S : g[s] = SyncOf(g, s, own, value)
Chosen(S, own, value) ==
  CHOOSE g : g = [s \in SUBSET S |-> SyncOf(g, s, own, value)]

LEMMA FoldIsChosen ==
  ASSUME NEW own, NEW S, NEW value
  PROVE  FoldSet(LAMBDA l, st : Synced(st, l, value), own, S) = Chosen(S, own, value)[S]
BY DEF FoldSet, MapThenFoldSet, Chosen, SyncOf, One

\* What holds of every smaller subset and then of a subset holds of them all.
LEMMA Descent ==
  ASSUME NEW S, IsFiniteSet(S), NEW Bad \in SUBSET (SUBSET S), Bad # {}
  PROVE  \E s \in Bad : \A t \in Bad : ~ (t \subseteq s /\ t # s)
<1>1. Bad \subseteq FiniteSubsetsOf(S)
  BY FS_Subset DEF FiniteSubsetsOf
<1>2. PICK s \in Bad : \A t \in Bad : ~ (<<t, s>> \in StrictSubsetOrdering(S))
  BY <1>1, FS_StrictSubsetOrderingWellFounded, WFMin
<1> QED
  BY <1>1, <1>2 DEF StrictSubsetOrdering

LEMMA OneIsIn == ASSUME NEW s, s # {} PROVE One(s) \in s /\ s \ {One(s)} \subseteq s /\ s \ {One(s)} # s
BY DEF One

\* Two such functions agree where both are defined.
LEMMA FoldingsAgree ==
  ASSUME NEW own, NEW value, NEW S, IsFiniteSet(S), NEW T, NEW f, NEW g,
         Folding(f, S, own, value), Folding(g, T, own, value), NEW s \in SUBSET S, s \in SUBSET T
  PROVE  f[s] = g[s]
<1> DEFINE Bad == {t \in SUBSET s : f[t] # g[t]}
<1>1. SUFFICES ASSUME Bad # {} PROVE FALSE
  BY DEF Bad
<1>2. IsFiniteSet(s)
  BY FS_Subset
<1>3. PICK b \in Bad : \A t \in Bad : ~ (t \subseteq b /\ t # b)
  <2> HIDE DEF Bad
  <2>1. Bad \in SUBSET (SUBSET s)
    BY DEF Bad
  <2> QED
    BY <1>1, <1>2, <2>1, Descent
<1>4. f[b] = SyncOf(f, b, own, value) /\ g[b] = SyncOf(g, b, own, value) /\ f[b] # g[b] /\ b \subseteq s
  BY DEF Folding
<1>5. b # {}
  BY <1>4 DEF SyncOf
<1>6. b \ {One(b)} \in SUBSET s /\ b \ {One(b)} \notin Bad
  BY <1>3, <1>4, <1>5, OneIsIn
<1> QED
  BY <1>4, <1>5, <1>6 DEF SyncOf

LEMMA FoldingExists ==
  ASSUME NEW own, NEW value, NEW S, IsFiniteSet(S)
  PROVE  \E g : Folding(g, S, own, value)
<1> DEFINE Bad == {t \in SUBSET S : ~ \E g : Folding(g, t, own, value)}
<1>1. SUFFICES ASSUME Bad # {} PROVE FALSE
  BY DEF Bad
<1>2. PICK b \in Bad : \A t \in Bad : ~ (t \subseteq b /\ t # b)
  <2> HIDE DEF Bad
  <2>1. Bad \in SUBSET (SUBSET S)
    BY DEF Bad
  <2> QED
    BY <1>1, <2>1, Descent
<1>3. b \subseteq S /\ IsFiniteSet(b)
  BY FS_Subset
<1> DEFINE gOf(t) == CHOOSE g : Folding(g, t, own, value)
           At(t) == IF t = b THEN SyncOf([u \in SUBSET b |-> gOf(u)[u]], b, own, value) ELSE gOf(t)[t]
           h == [t \in SUBSET b |-> At(t)]
<1>4. \A t \in SUBSET b : t # b => Folding(gOf(t), t, own, value)
  <2> SUFFICES ASSUME NEW t \in SUBSET b, t # b PROVE Folding(gOf(t), t, own, value)
    OBVIOUS
  <2>1. t \in SUBSET S /\ t \notin Bad
    BY <1>2, <1>3
  <2>2. \E g : Folding(g, t, own, value)
    BY <2>1
  <2> QED
    BY <2>2
<1>5. \A t \in SUBSET b : h[t] = SyncOf(h, t, own, value)
  <2> SUFFICES ASSUME NEW t \in SUBSET b PROVE h[t] = SyncOf(h, t, own, value)
    OBVIOUS
  <2> DEFINE u == t \ {One(t)}
  <2>1. t # {} => u \in SUBSET b /\ u \subseteq t /\ u # t /\ u # b
    BY OneIsIn
  <2>2. CASE t = b
    <3>1. t # {} => h[u] = gOf(u)[u]
      BY <2>1
    <3>2. h[t] = SyncOf([x \in SUBSET b |-> gOf(x)[x]], b, own, value)
      BY <2>2
    <3> HIDE DEF gOf
    <3>3. t # {} => [x \in SUBSET b |-> gOf(x)[x]][u] = h[u]
      BY <2>1, <3>1
    <3> HIDE DEF h
    <3> QED
      BY <2>2, <3>2, <3>3 DEF SyncOf
  <2>3. CASE t # b
    <3>1. h[t] = gOf(t)[t] /\ Folding(gOf(t), t, own, value)
      BY <1>4, <2>3
    <3>2. gOf(t)[t] = SyncOf(gOf(t), t, own, value)
      BY <3>1 DEF Folding
    <3>3. t # {} => h[u] = gOf(u)[u] /\ Folding(gOf(u), u, own, value)
      BY <1>4, <2>1
    <3> HIDE DEF gOf, h
    <3>4. t # {} => gOf(u)[u] = gOf(t)[u]
      <4> SUFFICES ASSUME t # {} PROVE gOf(u)[u] = gOf(t)[u]
        OBVIOUS
      <4>1. IsFiniteSet(u) /\ u \in SUBSET u /\ u \in SUBSET t
        BY <1>3, FS_Subset
      <4>2. Folding(gOf(u), u, own, value) /\ Folding(gOf(t), t, own, value)
        BY <3>1, <3>3
      <4> HIDE DEF u
      <4> QED
        BY <4>1, <4>2, FoldingsAgree
    <3> QED
      BY <3>1, <3>2, <3>3, <3>4 DEF SyncOf
  <2> QED
    BY <2>2, <2>3
<1>6. Folding(h, b, own, value)
  <2>1. DOMAIN h = SUBSET b
    OBVIOUS
  <2> HIDE DEF h
  <2> QED
    BY <1>5, <2>1 DEF Folding
<1> QED
  BY <1>6

LEMMA ChosenFolds ==
  ASSUME NEW own, NEW value, NEW S, IsFiniteSet(S)
  PROVE  Folding(Chosen(S, own, value), S, own, value)
<1>1. PICK f : Folding(f, S, own, value)
  BY FoldingExists
<1> DEFINE g == [s \in SUBSET S |-> f[s]]
<1>2. g = [s \in SUBSET S |-> SyncOf(g, s, own, value)]
  <2>1. \A s \in SUBSET S : g[s] = SyncOf(g, s, own, value)
    <3> SUFFICES ASSUME NEW s \in SUBSET S PROVE g[s] = SyncOf(g, s, own, value)
      OBVIOUS
    <3>1. f[s] = SyncOf(f, s, own, value)
      BY <1>1 DEF Folding
    <3>2. s # {} => g[s \ {One(s)}] = f[s \ {One(s)}]
      BY OneIsIn
    <3>3. g[s] = f[s]
      OBVIOUS
    <3> HIDE DEF g
    <3> QED
      BY <3>1, <3>2, <3>3 DEF SyncOf
  <2>2. g = [s \in SUBSET S |-> g[s]]
    OBVIOUS
  <2> HIDE DEF g
  <2> QED
    BY <2>1, <2>2
<1> DEFINE c == Chosen(S, own, value)
<1>3. c = [s \in SUBSET S |-> SyncOf(c, s, own, value)]
  BY <1>2 DEF Chosen
<1> HIDE DEF c
<1>4. DOMAIN c = SUBSET S /\ \A s \in SUBSET S : c[s] = SyncOf(c, s, own, value)
  BY <1>3
<1> QED
  BY <1>4 DEF Folding, c

SyncedAll(own, S, value) == FoldSet(LAMBDA l, st : Synced(st, l, value), own, S)

\* After the fold every row of the set has taken the value, and no other has
\* changed.
LEMMA FoldSyncs ==
  ASSUME NEW own, Sound(own), NEW S \in SUBSET L, \A l \in S : Has(own, l), NEW value \in Values \cup {0}
  PROVE  LET to == SyncedAll(own, S, value) IN
         Sound(to) /\ (\A k \in L \ S : Same(own, to, k)) /\ (\A k \in S : Takes(own, to, k, value))
<1> DEFINE g == Chosen(S, own, value)
           Done(s) == /\ Sound(g[s]) /\ \A k \in L \ s : Same(own, g[s], k)
                      /\ \A k \in s : Takes(own, g[s], k, value)
           Bad == {s \in SUBSET S : ~ Done(s)}
<1>1. IsFiniteSet(S)
  BY FewLocales, FS_Subset
<1>2. \A s \in SUBSET S : g[s] = SyncOf(g, s, own, value)
  BY <1>1, ChosenFolds DEF Folding
<1> HIDE DEF g
<1>3. ASSUME Bad # {} PROVE FALSE
  <2>1. PICK b \in Bad : \A t \in Bad : ~ (t \subseteq b /\ t # b)
    <3>1. Bad \in SUBSET (SUBSET S)
      OBVIOUS
    <3> HIDE DEF Bad
    <3> QED
      BY <1>1, <1>3, <3>1, Descent
  <2>2. b \in SUBSET S /\ ~ Done(b)
    OBVIOUS
  <2>3. b # {}
    <3> SUFFICES ASSUME b = {} PROVE FALSE
      OBVIOUS
    <3>1. g[b] = own
      BY <1>2 DEF SyncOf
    <3> QED
      BY <2>2, <3>1 DEF Same
  <2> DEFINE l == One(b)
             st == g[b \ {l}]
             to == g[b]
  <2>4. l \in b /\ Done(b \ {l})
    <3>1. b \ {l} \in SUBSET S /\ b \ {l} \notin Bad /\ l \in b
      BY <2>1, <2>2, <2>3, OneIsIn
    <3> QED
      BY <3>1
  <2>5. to = Synced(st, l, value)
    BY <1>2, <2>2, <2>3 DEF SyncOf
  <2>6. Sound(st) /\ Same(own, st, l) /\ \A k \in L \ b : Same(own, st, k)
    BY <2>2, <2>4
  <2>7. \A k \in b \ {l} : Takes(own, st, k, value)
    BY <2>4
  <2>8. l \in L /\ Has(own, l)
    BY <2>2, <2>4
  <2> HIDE DEF l, st, to
  <2>9. Has(st, l) /\ CopyOf(st, l) = CopyOf(own, l) /\ st.rows[l] = own.rows[l]
    BY <2>6, <2>8 DEF Same, Has
  <2>10. Sound(to) /\ (\A k \in L \ {l} : Same(st, to, k)) /\ Takes(st, to, l, value)
    BY <2>5, <2>6, <2>8, <2>9, SyncedDoes
  <2>11. Takes(own, to, l, value)
    BY <2>8, <2>9, <2>10 DEF Takes, Written, Same
  <2>12. ASSUME NEW k \in b, k # l PROVE Takes(own, to, k, value)
    <3>1. Takes(own, st, k, value) /\ Same(st, to, k) /\ Has(st, k) /\ Has(own, k) /\ k \in L
      BY <2>2, <2>7, <2>10, <2>12 DEF Takes, Written
    <3> QED
      BY <3>1 DEF Takes, Written, Same, Has
  <2>13. ASSUME NEW k \in L \ b PROVE Same(own, to, k)
    <3>1. Same(own, st, k) /\ Same(st, to, k)
      BY <2>4, <2>6, <2>10
    <3> QED
      BY <3>1 DEF Same, Has
  <2>14. Done(b)
    BY <2>10, <2>11, <2>12, <2>13 DEF to
  <2> QED
    BY <2>2, <2>14
<1>4. Done(S)
  BY <1>3
<1> HIDE DEF Done
<1>5. g[S] = SyncedAll(own, S, value)
  BY FoldIsChosen, Zenon DEF g, SyncedAll
<1>6. Sound(g[S]) /\ (\A k \in L \ S : Same(own, g[S], k)) /\ (\A k \in S : Takes(own, g[S], k, value))
  BY <1>4 DEF Done
<1> QED
  BY <1>5, <1>6

-----------------------------------------------------------------------------
(* What the operations do to the rows and revisions.                       *)

\* A step of the life cycle moves one row and keeps its working copy.
Advances(st, to, l) ==
  /\ Sound(to) /\ (\A k \in L \ {l} : Same(st, to, k))
  /\ Has(to, l) /\ to.rows[l].version = st.rows[l].version + 1 /\ CopyOf(to, l) = CopyOf(st, l)

IsMoved(row, to, status) ==
  /\ to \in RowSet /\ to.status = status /\ to.version = row.version + 1
  /\ to.data = row.data /\ to.draft = row.draft /\ to.live = row.live

LEMMA MovedIs ==
  ASSUME NEW row \in RowSet, NEW status \in {"draft", "published", "scheduled", "trashed"},
         NEW scheduled \in BOOLEAN
  PROVE  IsMoved(row, Moved(row, status, scheduled), status)
<1>1. row.version + 1 \in Nat \ {0}
  BY DEF RowSet
<1> QED
  BY <1>1 DEF RowSet, Moved, IsMoved

LEMMA KeptDoes ==
  ASSUME NEW st, Sound(st), NEW l \in L, Has(st, l),
         NEW status \in {"draft", "published", "scheduled", "trashed"}, NEW scheduled \in BOOLEAN,
         st.rows[l].draft # 0 => status \in {"published", "scheduled"},
         NEW to, to.rows = [st.rows EXCEPT ![l] = Moved(st.rows[l], status, scheduled)], to.revs = st.revs
  PROVE  Advances(st, to, l) /\ to.rows[l].status = status /\ to.rows[l].data = st.rows[l].data
<1> DEFINE row == Moved(st.rows[l], status, scheduled)
<1>1. st.rows[l] \in RowSet /\ Resolves(st, l) /\ Recordable(st.revs)
  BY DEF Sound, Has
<1>2. /\ row \in RowSet /\ row.status = status /\ row.version = st.rows[l].version + 1
      /\ row.data = st.rows[l].data /\ row.draft = st.rows[l].draft /\ row.live = st.rows[l].live
  <2>1. IsMoved(st.rows[l], Moved(st.rows[l], status, scheduled), status)
    BY <1>1, MovedIs
  <2> QED
    BY <2>1 DEF IsMoved
<1>3. to.rows = [st.rows EXCEPT ![l] = row]
  OBVIOUS
<1> HIDE DEF row
<1>4. to.rows[l] = row
  BY <1>3 DEF Sound
<1>5. Resolves(to, l)
  BY <1>1, <1>2, <1>4 DEF Resolves
<1>6. Extends(st.revs, st.revs)
  BY DEF Extends
<1>7. Sound(to) /\ Has(to, l) /\ \A k \in L \ {l} : Same(st, to, k)
  BY <1>1, <1>2, <1>3, <1>5, <1>6, PutKeeps
<1>8. CopyOf(to, l) = CopyOf(st, l)
  BY <1>2, <1>4 DEF CopyOf, CopyIn
<1> QED
  BY <1>2, <1>4, <1>7, <1>8 DEF Advances

LEMMA CollapsedDoes ==
  ASSUME NEW st, Sound(st), NEW l \in L, Has(st, l),
         NEW status \in {"draft", "published", "scheduled", "trashed"}, NEW scheduled \in BOOLEAN
  PROVE  LET to == Collapsed(st, l, Moved(st.rows[l], status, scheduled)) IN
         Advances(st, to, l) /\ to.rows[l].status = status
<1> DEFINE moved == Moved(st.rows[l], status, scheduled)
           row == [moved EXCEPT !.data = CopyIn(st.rows, st.revs, l), !.draft = 0]
           mid == [rows |-> [st.rows EXCEPT ![l] = row], revs |-> st.revs]
           to == Dropped(mid, st.rows[l].draft)
<1>1. st.rows[l] \in RowSet /\ Resolves(st, l) /\ Recordable(st.revs)
  BY DEF Sound, Has
<1>2. /\ moved \in RowSet /\ moved.status = status /\ moved.version = st.rows[l].version + 1
      /\ moved.live = st.rows[l].live /\ moved.draft = st.rows[l].draft
  <2>1. IsMoved(st.rows[l], Moved(st.rows[l], status, scheduled), status)
    BY <1>1, MovedIs
  <2> QED
    BY <2>1 DEF IsMoved
<1> HIDE DEF moved
<1>3. CopyOf(st, l) \in Datum
  BY CopyIsData
<1>4. /\ row \in RowSet /\ row.status = status /\ row.version = st.rows[l].version + 1
      /\ row.data = CopyOf(st, l) /\ row.draft = 0 /\ row.live = st.rows[l].live
  BY <1>2, <1>3 DEF RowSet, CopyOf
<1>5. to = Collapsed(st, l, moved)
  BY <1>2 DEF Collapsed
<1> HIDE DEF row
<1>6. mid.rows = [st.rows EXCEPT ![l] = row] /\ mid.revs = st.revs /\ mid.rows[l] = row
  BY DEF Sound
<1> HIDE DEF mid
<1>7. Resolves(mid, l)
  BY <1>1, <1>4, <1>6 DEF Resolves
<1>8. Extends(st.revs, st.revs) /\ Extends(st.revs, mid.revs)
  BY <1>6 DEF Extends
<1>9. Sound(mid) /\ Has(mid, l) /\ \A k \in L \ {l} : Same(st, mid, k)
  BY <1>1, <1>4, <1>6, <1>7, <1>8, PutKeeps
<1>10. CopyOf(mid, l) = CopyOf(st, l)
  BY <1>4, <1>6 DEF CopyOf, CopyIn
<1>11. \A k \in L \ {l} : mid.rows[k] = st.rows[k]
  BY <1>9 DEF Same
<1> HIDE DEF to
<1>12. Keeps(mid, to)
  BY <1>4, <1>6, <1>8, <1>9, <1>11, DroppedKeeps DEF to
<1>13. Advances(st, to, l) /\ to.rows[l].status = status
  BY <1>4, <1>6, <1>9, <1>10, <1>12 DEF Keeps, Same, Has, Advances
<1> QED
  BY <1>5, <1>13 DEF moved

LEMMA PublishedDoes ==
  ASSUME NEW st, Sound(st), NEW l \in L, Has(st, l)
  PROVE  Advances(st, Published(st, l), l)
<1> DEFINE was == st.rows[l]
           data == CopyIn(st.rows, st.revs, l)
           vs == IF type.revisions = "off" THEN st.revs ELSE Recorded(st.revs, l, "publish", data)
           live == IF type.revisions = "off" THEN was.live ELSE Newest(vs)
           row == [was EXCEPT !.status = "published", !.data = data, !.draft = 0, !.scheduled = FALSE,
                              !.live = live, !.version = @ + 1]
           mid == [rows |-> [st.rows EXCEPT ![l] = row], revs |-> vs]
           to == IF type.revisions = "off" /\ was.draft # 0 THEN Without(mid, {was.draft}) ELSE mid
<1>1. was \in RowSet /\ Resolves(st, l) /\ Recordable(st.revs)
  BY DEF Sound, Has
<1>2. data \in Datum /\ data = CopyOf(st, l)
  BY CopyIsData DEF CopyOf
<1>0. to = Published(st, l)
  BY DEF Published
<1> HIDE DEF data
<1>3. /\ Recordable(vs) /\ Extends(st.revs, vs)
      /\ live \in Nat
      /\ (live # 0 => live \in DOMAIN vs /\ vs[live].locale = l /\ vs[live].kind = "publish")
  <2>1. CASE type.revisions = "off"
    <3>1. vs = st.revs /\ live = was.live
      BY <2>1
    <3>2. was.live \in Nat
      BY <1>1 DEF RowSet
    <3> HIDE DEF vs, live
    <3> QED
      BY <1>1, <3>1, <3>2 DEF Resolves, Extends
  <2>2. CASE type.revisions # "off"
    <3> DEFINE new == Recorded(st.revs, l, "publish", data)
    <3>1. vs = new /\ live = Newest(new)
      BY <2>2
    <3>2. Adds(st.revs, new, Newest(new), [locale |-> l, kind |-> "publish", data |-> data])
      BY <1>1, <1>2, RecordedIs
    <3> HIDE DEF new, vs, live
    <3> QED
      BY <3>1, <3>2 DEF Adds
  <2> QED
    BY <2>1, <2>2
<1> HIDE DEF vs, live
<1>4. /\ row \in RowSet /\ row.draft = 0 /\ row.version = was.version + 1
      /\ row.data = data /\ row.live = live
  <2>1. was.version + 1 \in Nat \ {0}
    BY <1>1 DEF RowSet
  <2> QED
    BY <1>1, <1>2, <1>3, <2>1 DEF RowSet
<1> HIDE DEF row
<1>5. mid.rows = [st.rows EXCEPT ![l] = row] /\ mid.revs = vs /\ mid.rows[l] = row
  BY DEF Sound
<1> HIDE DEF mid
<1>6. Resolves(mid, l)
  BY <1>3, <1>4, <1>5 DEF Resolves
<1>7. Sound(mid) /\ Has(mid, l) /\ \A k \in L \ {l} : Same(st, mid, k)
  BY <1>3, <1>4, <1>5, <1>6, PutKeeps
<1>8. CopyOf(mid, l) = CopyOf(st, l)
  BY <1>2, <1>4, <1>5 DEF CopyOf, CopyIn
<1>9. Keeps(mid, to)
  <2>1. CASE type.revisions = "off" /\ was.draft # 0
    <3>1. to = Without(mid, {was.draft})
      BY <2>1
    <3>2. \A k \in L \ {l} : mid.rows[k] = st.rows[k]
      BY <1>7 DEF Same
    <3>3. mid.rows[l].draft # was.draft
      BY <1>4, <1>5, <2>1
    <3>4. Extends(st.revs, mid.revs)
      BY <1>3, <1>5
    <3> HIDE DEF to
    <3> QED
      BY <1>7, <2>1, <3>1, <3>2, <3>3, <3>4, OldDraftGoes
  <2>2. CASE ~ (type.revisions = "off" /\ was.draft # 0)
    <3>1. to = mid
      BY <2>2
    <3> HIDE DEF to
    <3> QED
      BY <1>7, <3>1 DEF Keeps, Same
  <2> QED
    BY <2>1, <2>2
<1> HIDE DEF to
<1>10. Advances(st, to, l)
  BY <1>4, <1>5, <1>7, <1>8, <1>9 DEF Keeps, Same, Has, Advances
<1> QED
  BY <1>0, <1>10

LEMMA LifecycleDoes ==
  ASSUME Sound(State), NEW l \in L, Has(State, l), NEW op \in RowOps, NEW to \in Lifecycle(op, l)
  PROVE  /\ Advances(State, to, l)
         /\ (op # "publish" /\ to.rows[l].status = "published") => to.rows[l].data = rows[l].data
<1> DEFINE row == rows[l]
<1>1. row \in RowSet /\ Resolves(State, l) /\ State.rows = rows /\ State.revs = revs
  BY DEF Sound, Has, State
<1>2. \A status \in {"draft", "published", "scheduled", "trashed"}, scheduled \in BOOLEAN :
        LET st == Collapsed(State, l, Moved(row, status, scheduled)) IN
        Advances(State, st, l) /\ st.rows[l].status = status
  BY <1>1, CollapsedDoes
<1>3. \A status \in {"draft", "published", "scheduled", "trashed"}, scheduled \in BOOLEAN :
        (row.draft # 0 => status \in {"published", "scheduled"}) =>
          LET st == Kept(State, l, Moved(row, status, scheduled)) IN
          Advances(State, st, l) /\ st.rows[l].status = status /\ st.rows[l].data = row.data
  <2> SUFFICES ASSUME NEW status \in {"draft", "published", "scheduled", "trashed"},
                      NEW scheduled \in BOOLEAN,
                      row.draft # 0 => status \in {"published", "scheduled"}
               PROVE  LET st == Kept(State, l, Moved(row, status, scheduled)) IN
                      Advances(State, st, l) /\ st.rows[l].status = status /\ st.rows[l].data = row.data
    OBVIOUS
  <2> DEFINE st == Kept(State, l, Moved(row, status, scheduled))
  <2>1. st.rows = [rows EXCEPT ![l] = Moved(row, status, scheduled)] /\ st.revs = revs
    BY DEF Kept, State
  <2> HIDE DEF st
  <2>2. Advances(State, st, l) /\ st.rows[l].status = status /\ st.rows[l].data = row.data
    BY <1>1, <2>1, KeptDoes
  <2> QED
    BY <2>2 DEF st
<1>4. /\ row.scheduled \in BOOLEAN
      /\ row.draft # 0 => row.status \in {"published", "scheduled"}
      /\ row.status \in {"draft", "published", "scheduled", "trashed"}
  BY <1>1 DEF RowSet, Resolves
<1>5. CASE op = "publish"
  <2>1. to = Published(State, l)
    BY <1>5 DEF Lifecycle
  <2> QED
    BY <1>5, <2>1, PublishedDoes
<1>6. CASE op = "unpublish" /\ row.status = "published"
  <2>1. to = Collapsed(State, l, Moved(row, "draft", FALSE))
    BY <1>6 DEF Lifecycle
  <2> QED
    BY <1>2, <2>1
<1>7. CASE op = "schedule" /\ row.status # "trashed"
  <2>1. to = Kept(State, l, Moved(row, IF row.status = "published" THEN "published" ELSE "scheduled", TRUE))
    BY <1>7 DEF Lifecycle
  <2>2. CASE row.status = "published"
    BY <1>3, <2>1, <2>2
  <2>3. CASE row.status # "published"
    BY <1>3, <2>1, <2>3
  <2> QED
    BY <2>2, <2>3
<1>8. CASE op = "unschedule" /\ row.status = "scheduled"
  <2>1. to = Collapsed(State, l, Moved(row, "draft", FALSE))
    BY <1>8 DEF Lifecycle
  <2> QED
    BY <1>2, <2>1
<1>9. CASE op = "unschedule" /\ row.status = "published" /\ row.scheduled
  <2>1. to = Kept(State, l, Moved(row, "published", FALSE))
    BY <1>9 DEF Lifecycle
  <2> QED
    BY <1>3, <2>1
<1>10. CASE op = "trash" /\ row.status # "trashed"
  <2>1. to = Collapsed(State, l, Moved(row, "trashed", FALSE))
    BY <1>10 DEF Lifecycle
  <2> QED
    BY <1>2, <2>1
<1>11. CASE op = "restore" /\ row.status = "trashed"
  <2>1. to = Kept(State, l, Moved(row, "draft", row.scheduled))
    BY <1>11 DEF Lifecycle
  <2>2. row.draft = 0
    BY <1>4, <1>11
  <2> QED
    BY <1>3, <1>4, <2>1, <2>2
<1>12. to \in Lifecycle(op, l) =>
         \/ op = "publish" \/ (op = "unpublish" /\ row.status = "published")
         \/ (op = "schedule" /\ row.status # "trashed") \/ (op = "unschedule" /\ row.status = "scheduled")
         \/ (op = "unschedule" /\ row.status = "published" /\ row.scheduled)
         \/ (op = "trash" /\ row.status # "trashed") \/ (op = "restore" /\ row.status = "trashed")
  BY DEF Lifecycle
<1> QED
  BY <1>5, <1>6, <1>7, <1>8, <1>9, <1>10, <1>11, <1>12

-----------------------------------------------------------------------------
(* The inductive invariant.                                                *)

\* A transaction is a record of its fields.
Shaped(t) ==
  /\ IsFunction(t) /\ DOMAIN t = TxParts /\ t.pc \in {"idle", "called", "seeks", "held"}
  /\ t.base \in Nat /\ t.input \in Datum /\ t.found \subseteq L
TxOK == IsFunction(tx) /\ DOMAIN tx = Writers /\ \A w \in Writers : Shaped(tx[w])
Typed ==
  /\ type \in Settings /\ shared \in BOOLEAN /\ drifted \in BOOLEAN
  /\ cap \in {0, Cap} /\ calls \in 0..MaxCalls
  /\ Sound(State) /\ TxOK

OnRow == {"save", "delete"} \cup RowOps

\* A version that has not moved stands for what the caller has seen, until the
\* row is gone.
Saw(w) ==
  LET t == tx[w] IN
  t.op \in OnRow =>
    /\ t.pc \in {"called", "seeks"} => t.locale \in Present(rows)
    /\ (t.pc \in {"called", "seeks"} \/ (t.pc = "held" /\ t.locale \in t.found)) =>
         /\ t.base <= rows[t.locale].version
         /\ t.base = rows[t.locale].version => Copy(t.locale) = t.seen

\* A row that is held is there.
HoldsRows(w) == HeldRows(w) \subseteq Present(rows)

\* The toggle of a field has the content type for itself.
Alone(w) == \A u \in Writers \ {w} : Owns(w) => ~ Owns(u) /\ ~ Shares(u)

\* What it has not found to lock has the value already.
ToggleKnows(w) ==
  Owns(w) => \A l \in Present(rows) : l \in tx[w].found \/ Copy(l).value = tx[w].input.value

IInv ==
  /\ Typed /\ SharedAgrees
  /\ \A w \in Writers : Saw(w) /\ HoldsRows(w) /\ Alone(w) /\ ToggleKnows(w)

-----------------------------------------------------------------------------
(* What each step does to the rows: versions only grow and tell of every   *)
(* write, and what readers see of a public row stays while drafts wait.    *)

Later(to) ==
  /\ Sound(to)
  /\ \A l \in L : Has(State, l) /\ Has(to, l) =>
       /\ rows[l].version <= to.rows[l].version
       /\ rows[l].version = to.rows[l].version => CopyOf(to, l) = Copy(l)
Quiet(to) == \A l \in L : Has(to, l) => Has(State, l) /\ CopyOf(to, l) = Copy(l)
Stay(to) == \A l \in L : Has(State, l) => Has(to, l)
ShownAt(to, l) ==
  (type.drafts /\ Has(State, l) /\ Has(to, l) /\ rows[l].status = "published"
     /\ to.rows[l].status = "published") => to.rows[l].data = rows[l].data
Shown(to) == \A l \in L : ShownAt(to, l)

LEMMA StateIs ==
  /\ State.rows = rows /\ State.revs = revs
  /\ \A l \in L : (Has(State, l) <=> l \in Present(rows)) /\ CopyOf(State, l) = Copy(l)
BY DEF State, Has, Present, CopyOf, Copy

LEMMA StoredIs ==
  ASSUME NEW to, Store(to)
  PROVE  /\ \A l \in L : /\ l \in Present(rows') <=> Has(to, l)
                         /\ CopyIn(rows', revs', l) = CopyOf(to, l)
                         /\ Copy(l)' = CopyOf(to, l)
         /\ State'.rows = to.rows /\ State'.revs = to.revs
<1>1. rows' = to.rows /\ revs' = to.revs
  BY DEF Store
<1>2. State'.rows = rows' /\ State'.revs = revs'
  BY DEF State
<1>3. \A l \in L : l \in Present(rows') <=> Has(to, l)
  BY <1>1 DEF Present, Has
<1>4. \A l \in L : CopyIn(rows', revs', l) = CopyOf(to, l) /\ Copy(l)' = CopyOf(to, l)
  BY <1>1 DEF CopyIn, CopyOf, Copy
<1> QED
  BY <1>1, <1>2, <1>3, <1>4

LEMMA VersionsAreNumbers ==
  ASSUME NEW st, Sound(st), NEW l \in L, Has(st, l)
  PROVE  st.rows[l].version \in Nat \ {0}
BY DEF Sound, Has, RowSet

LEMMA SameIsLater ==
  ASSUME Sound(State), NEW to, NEW l \in L, Same(State, to, l), Has(State, l)
  PROVE  /\ rows[l].version <= to.rows[l].version /\ CopyOf(to, l) = Copy(l) /\ ShownAt(to, l)
         /\ Has(to, l)
BY StateIs, VersionsAreNumbers DEF Same, ShownAt, Has

\* One row moves.
LEMMA OneMoves ==
  ASSUME Sound(State), NEW to, Sound(to), NEW l \in L, \A k \in L \ {l} : Same(State, to, k),
         ShownAt(to, l),
         Has(State, l) /\ Has(to, l) =>
           /\ rows[l].version <= to.rows[l].version
           /\ rows[l].version = to.rows[l].version => CopyOf(to, l) = Copy(l)
  PROVE  Later(to) /\ Shown(to)
<1>1. ASSUME NEW k \in L, k # l
      PROVE  /\ ShownAt(to, k)
             /\ Has(State, k) /\ Has(to, k) =>
                  /\ rows[k].version <= to.rows[k].version
                  /\ rows[k].version = to.rows[k].version => CopyOf(to, k) = Copy(k)
  <2>1. CASE Has(State, k)
    BY <1>1, <2>1, SameIsLater
  <2>2. CASE ~ Has(State, k)
    BY <2>2 DEF ShownAt
  <2> QED
    BY <2>1, <2>2
<1>2. \A k \in L : ShownAt(to, k)
  BY <1>1
<1>3. \A k \in L : Has(State, k) /\ Has(to, k) =>
        /\ rows[k].version <= to.rows[k].version
        /\ rows[k].version = to.rows[k].version => CopyOf(to, k) = Copy(k)
  BY <1>1
<1> QED
  BY <1>2, <1>3 DEF Later, Shown

LEMMA RelockedDoes ==
  ASSUME Sound(State), NEW l \in Present(rows), NEW b \in Writers \cup {NoOne},
         NEW v \in {rows[l].version, rows[l].version + 1}, NEW to, to.revs = revs,
         to.rows = [rows EXCEPT ![l] = [rows[l] EXCEPT !.by = b, !.version = v]]
  PROVE  Later(to) /\ Quiet(to) /\ Stay(to) /\ Shown(to)
<1> DEFINE row == [rows[l] EXCEPT !.by = b, !.version = v]
<1>1. l \in L /\ Has(State, l) /\ State.rows = rows /\ State.revs = revs
  BY StateIs DEF Present
<1>2. rows[l] \in RowSet /\ Resolves(State, l) /\ Recordable(revs)
  BY <1>1 DEF Sound, Has
<1>3. v \in Nat \ {0} /\ rows[l].version <= v
  BY <1>2 DEF RowSet
<1>4. /\ row \in RowSet /\ row.version = v /\ row.draft = rows[l].draft /\ row.live = rows[l].live
      /\ row.status = rows[l].status /\ row.data = rows[l].data
  BY <1>2, <1>3 DEF RowSet
<1> HIDE DEF row
<1>5. to.rows = [State.rows EXCEPT ![l] = row] /\ to.rows[l] = row
  BY <1>1 DEF row, Sound
<1>6. Resolves(to, l)
  BY <1>1, <1>2, <1>4, <1>5 DEF Resolves
<1>7. Extends(State.revs, revs)
  BY <1>1 DEF Extends
<1>8. Sound(to) /\ Has(to, l) /\ \A k \in L \ {l} : Same(State, to, k)
  BY <1>1, <1>2, <1>4, <1>5, <1>6, <1>7, PutKeeps
<1>9. CopyOf(to, l) = Copy(l)
  BY <1>1, <1>4, <1>5 DEF CopyOf, CopyIn, Copy
<1>10. ShownAt(to, l)
  BY <1>4, <1>5 DEF ShownAt
<1>11. Has(State, l) <=> Has(to, l)
  BY <1>1, <1>8
<1>12. \A k \in L \ {l} : Has(to, k) <=> Has(State, k)
  BY <1>8 DEF Same, Has
<1>13. Later(to) /\ Shown(to)
  <2>1. rows[l].version <= to.rows[l].version
    BY <1>3, <1>4, <1>5
  <2> QED
    BY <1>1, <1>8, <1>9, <1>10, <2>1, OneMoves
<1>14. \A k \in L \ {l} : Has(to, k) => CopyOf(to, k) = Copy(k)
  BY <1>8, <1>12, StateIs DEF Same
<1> QED
  BY <1>9, <1>11, <1>12, <1>13, <1>14 DEF Quiet, Stay

LEMMA LockEffect ==
  ASSUME Sound(State), Acquire \/ TakeOver \/ Lapse
  PROVE  \E to : Store(to) /\ Later(to) /\ Quiet(to) /\ Stay(to) /\ Shown(to)
<1>0. \A l \in Present(rows) : rows[l] \in RowSet /\ l \in L
  BY StateIs DEF Sound, Has, Present
<1>1. CASE Acquire
  <2>1. PICK l \in Present(rows), w \in Writers : rows' = [rows EXCEPT ![l] = [rows[l] EXCEPT !.by = w]]
    BY <1>1 DEF Acquire, OnLock
  <2>2. [rows[l] EXCEPT !.by = w] = [rows[l] EXCEPT !.by = w, !.version = rows[l].version]
    BY <1>0 DEF RowSet
  <2> DEFINE to == [rows |-> rows', revs |-> revs]
  <2>3. to.revs = revs /\ to.rows = [rows EXCEPT ![l] = [rows[l] EXCEPT !.by = w, !.version = rows[l].version]]
    BY <2>1, <2>2
  <2>4. Store(to)
    BY <1>1 DEF Acquire, Store
  <2> HIDE DEF to
  <2> QED
    BY <2>3, <2>4, RelockedDoes
<1>2. CASE TakeOver
  <2>1. PICK l \in Present(rows), w \in Writers :
          rows' = [rows EXCEPT ![l] = [rows[l] EXCEPT !.by = w, !.version = rows[l].version + 1]]
    BY <1>2 DEF TakeOver, OnLock
  <2> DEFINE to == [rows |-> rows', revs |-> revs]
  <2>2. to.revs = revs /\ to.rows = rows'
    OBVIOUS
  <2>3. Store(to)
    BY <1>2 DEF TakeOver, Store
  <2> HIDE DEF to
  <2> QED
    BY <2>1, <2>2, <2>3, RelockedDoes
<1>3. CASE Lapse
  <2>1. PICK l \in Present(rows) : rows' = [rows EXCEPT ![l].by = NoOne]
    BY <1>3 DEF Lapse
  <2>2. [rows[l] EXCEPT !.by = NoOne] = [rows[l] EXCEPT !.by = NoOne, !.version = rows[l].version]
    BY <1>0 DEF RowSet
  <2> DEFINE to == [rows |-> rows', revs |-> revs]
  <2>3. to.revs = revs
        /\ to.rows = [rows EXCEPT ![l] = [rows[l] EXCEPT !.by = NoOne, !.version = rows[l].version]]
    BY <2>1, <2>2
  <2>4. Store(to)
    BY <1>3 DEF Lapse, Store
  <2> HIDE DEF to
  <2> QED
    BY <2>3, <2>4, RelockedDoes
<1> QED
  BY <1>1, <1>2, <1>3

LEMMA CapEffect ==
  ASSUME Sound(State), SetRevisionCap
  PROVE  \E to : Store(to) /\ Later(to) /\ Quiet(to) /\ Stay(to) /\ Shown(to)
<1> DEFINE R == UNION {Prunable(State, l) : l \in L}
           to == Without(State, R)
<1>1. \A k \in L : Has(State, k) => State.rows[k].draft \notin R /\ State.rows[k].live \notin R
  BY DEF Has, Prunable, Pointed, Present
<1>2. Store(to)
  BY DEF SetRevisionCap
<1> HIDE DEF R
<1>3. Keeps(State, to)
  BY <1>1, WithoutKeeps
<1> HIDE DEF to
<1>4. \A k \in L : Has(to, k) <=> Has(State, k)
  BY <1>3 DEF Keeps, Has
<1> QED
  BY <1>2, <1>3, <1>4, SameIsLater DEF Keeps, Later, Quiet, Stay, Shown, ShownAt

LEMMA GoneEffect ==
  ASSUME Sound(State), NEW l \in Present(rows), Gone(l)
  PROVE  \E to : /\ Store(to) /\ Later(to) /\ Quiet(to) /\ Shown(to)
                 /\ ~ Has(to, l) /\ \A k \in L \ {l} : Same(State, to, k)
<1> DEFINE mid == [State EXCEPT !.rows[l] = Absent]
           R == {r \in DOMAIN revs : revs[r].locale = l}
           to == Without(mid, R)
<1>1. l \in L /\ Has(State, l) /\ State.rows = rows /\ State.revs = revs
  BY StateIs DEF Present
<1>2. Store(to)
  BY DEF Gone
<1>3. mid.rows = [rows EXCEPT ![l] = Absent] /\ mid.revs = revs
  BY DEF State
<1> HIDE DEF mid
<1>4. /\ IsFunction(mid.rows) /\ DOMAIN mid.rows = L /\ mid.rows[l] = Absent
      /\ \A k \in L \ {l} : mid.rows[k] = rows[k]
  BY <1>1, <1>3 DEF Sound, IsFunction
<1>5. \A k \in L \ {l} : Has(State, k) => Resolves(mid, k) /\ CopyOf(mid, k) = CopyOf(State, k)
  BY <1>1, <1>3, <1>4 DEF Sound, Resolves, Has, CopyOf, CopyIn
<1>6. Sound(mid) /\ ~ Has(mid, l) /\ \A k \in L \ {l} : Same(State, mid, k)
  BY <1>1, <1>3, <1>4, <1>5 DEF Sound, Has, Same
<1>7. \A k \in L : Has(mid, k) => mid.rows[k].draft \notin R /\ mid.rows[k].live \notin R
  <2> SUFFICES ASSUME NEW k \in L, Has(mid, k) PROVE mid.rows[k].draft \notin R /\ mid.rows[k].live \notin R
    OBVIOUS
  <2>1. k # l /\ Resolves(mid, k) /\ \A r \in R : r \in DOMAIN revs /\ revs[r].locale = l /\ r # 0
    BY <1>1, <1>6 DEF Has, Sound, Recordable
  <2> HIDE DEF R
  <2> QED
    BY <1>3, <2>1 DEF Resolves
<1> HIDE DEF R
<1>8. Keeps(mid, to)
  BY <1>6, <1>7, WithoutKeeps
<1> HIDE DEF to
<1>9. ~ Has(to, l) /\ \A k \in L \ {l} : Same(State, to, k)
  BY <1>6, <1>8 DEF Keeps, Same, Has
<1>10. \A k \in L : Has(to, k) => Has(State, k) /\ k # l
  BY <1>9 DEF Same, Has
<1> QED
  BY <1>2, <1>8, <1>9, <1>10, SameIsLater DEF Keeps, Later, Quiet, Shown, ShownAt

LEMMA CreateEffect ==
  ASSUME Sound(State), NEW l \in L \ Present(rows), NEW data \in Datum,
         NEW to, to.rows = [rows EXCEPT ![l] = Row("draft", data)], to.revs = revs
  PROVE  /\ Later(to) /\ Shown(to) /\ Stay(to)
         /\ Has(to, l) /\ CopyOf(to, l) = data /\ \A k \in L \ {l} : Same(State, to, k)
<1> DEFINE row == Row("draft", data)
<1>1. ~ Has(State, l) /\ State.rows = rows /\ State.revs = revs /\ Recordable(revs)
  BY StateIs DEF Sound
<1>2. row \in RowSet /\ row.draft = 0 /\ row.live = 0 /\ row.data = data
  BY DEF Row, RowSet
<1>3. to.rows = [State.rows EXCEPT ![l] = row]
  BY <1>1
<1> HIDE DEF row
<1>4. to.rows[l] = row
  BY <1>3 DEF Sound
<1>5. Resolves(to, l) /\ Extends(State.revs, revs) /\ CopyOf(to, l) = data
  BY <1>1, <1>2, <1>4 DEF Resolves, Extends, CopyOf, CopyIn
<1>6. Sound(to) /\ Has(to, l) /\ \A k \in L \ {l} : Same(State, to, k)
  BY <1>1, <1>2, <1>3, <1>5, PutKeeps
<1>7. \A k \in L : Has(State, k) => Has(to, k) /\ k # l
  BY <1>1, <1>6 DEF Same, Has
<1>8. Later(to) /\ Shown(to)
  BY <1>1, <1>6, OneMoves DEF ShownAt
<1> QED
  BY <1>5, <1>6, <1>7, <1>8 DEF Stay

LEMMA LifecycleEffect ==
  ASSUME Sound(State), NEW l \in Present(rows), NEW op \in RowOps, NEW to \in Lifecycle(op, l)
  PROVE  /\ Later(to) /\ Quiet(to) /\ Stay(to)
         /\ \A k \in L \ {l} : Same(State, to, k) /\ ShownAt(to, k)
         /\ op # "publish" => Shown(to)
<1>1. l \in L /\ Has(State, l) /\ State.rows = rows
  BY StateIs DEF Present
<1>2. Advances(State, to, l)
      /\ ((op # "publish" /\ to.rows[l].status = "published") => to.rows[l].data = rows[l].data)
  BY <1>1, LifecycleDoes
<1>3. /\ Sound(to) /\ (\A k \in L \ {l} : Same(State, to, k)) /\ Has(to, l)
      /\ to.rows[l].version = rows[l].version + 1 /\ CopyOf(to, l) = Copy(l)
  BY <1>1, <1>2, StateIs DEF Advances
<1>4. \A k \in L : Has(to, k) <=> Has(State, k)
  BY <1>1, <1>3 DEF Same, Has
<1>5. \A k \in L \ {l} : Has(State, k) =>
        rows[k].version <= to.rows[k].version /\ CopyOf(to, k) = Copy(k) /\ ShownAt(to, k)
  BY <1>3, SameIsLater
<1>6. \A k \in L \ {l} : ShownAt(to, k)
  BY <1>5 DEF ShownAt
<1>7. rows[l].version \in Nat
  BY <1>1, VersionsAreNumbers
<1>8. Quiet(to) /\ Stay(to)
  BY <1>3, <1>4, <1>5 DEF Quiet, Stay
<1>9. rows[l].version <= to.rows[l].version
  BY <1>3, <1>7
<1>10. Later(to)
  BY <1>3, <1>5, <1>9 DEF Later
<1>11. op # "publish" => ShownAt(to, l)
  BY <1>2 DEF ShownAt
<1> QED
  BY <1>3, <1>6, <1>8, <1>10, <1>11 DEF Shown

\* A save writes one row, and the shared value to its siblings.
SaveWrites(to, l, data, S) ==
  /\ Later(to) /\ Shown(to) /\ Stay(to)
  /\ CopyOf(to, l) = data /\ to.rows[l].version = rows[l].version + 1
  /\ Stages(rows[l]) => to.rows[l].data = rows[l].data
  /\ \A k \in S : /\ CopyOf(to, k) = [Copy(k) EXCEPT !.value = data.value]
                  /\ to.rows[k] # rows[k] \/ CopyOf(to, k) = Copy(k)
  /\ \A k \in L \ (S \cup {l}) : Same(State, to, k)

LEMMA SaveEffect ==
  ASSUME Sound(State), NEW l \in Present(rows), NEW data \in Datum,
         NEW S \in SUBSET (Present(rows) \ {l})
  PROVE  SaveWrites(SyncedAll(WriteCopy(State, l, data), S, data.value), l, data, S)
<1> DEFINE to == SyncedAll(WriteCopy(State, l, data), S, data.value)
<1> DEFINE own == WriteCopy(State, l, data)
<1>1. l \in L /\ Has(State, l) /\ State.rows = rows
  BY StateIs DEF Present
<1>2. /\ Sound(own) /\ (\A k \in L \ {l} : Same(State, own, k))
      /\ Has(own, l) /\ CopyOf(own, l) = data /\ own.rows[l].version = rows[l].version + 1
      /\ own.rows[l].status = rows[l].status
      /\ (Stages(rows[l]) => own.rows[l].data = rows[l].data)
  BY <1>1, WriteCopyDoes
<1>3. data.value \in Values \cup {0}
  BY DEF Datum
<1> HIDE DEF own, to
<1>4. S \in SUBSET L /\ l \notin S /\ \A k \in S : Has(State, k) /\ Has(own, k) /\ Same(State, own, k)
  BY <1>2, StateIs DEF Present, Same, Has
<1>5. Sound(to) /\ (\A k \in L \ S : Same(own, to, k)) /\ (\A k \in S : Takes(own, to, k, data.value))
  BY <1>2, <1>3, <1>4, FoldSyncs DEF own, to
<1>6. /\ CopyOf(to, l) = data /\ to.rows[l] = own.rows[l] /\ Has(to, l)
  BY <1>1, <1>2, <1>4, <1>5 DEF Same, Has
<1>7. \A k \in L \ (S \cup {l}) : Same(State, to, k)
  <2> TAKE k \in L \ (S \cup {l})
  <2>1. Same(State, own, k) /\ Same(own, to, k)
    BY <1>2, <1>5
  <2> QED
    BY <2>1 DEF Same, Has
<1>8. ASSUME NEW k \in S
      PROVE  /\ CopyOf(to, k).value = data.value /\ CopyOf(to, k).text = Copy(k).text
             /\ Has(to, k) /\ ShownAt(to, k) /\ rows[k] = own.rows[k] /\ Copy(k) = CopyOf(own, k)
             /\ Same(own, to, k) \/ to.rows[k].version = rows[k].version + 1
  <2>1. k \in L /\ Has(State, k) /\ Same(State, own, k) /\ Takes(own, to, k, data.value)
    BY <1>4, <1>5
  <2>2. own.rows[k] = rows[k] /\ CopyOf(own, k) = Copy(k)
    BY <1>1, <2>1, StateIs DEF Same
  <2> QED
    BY <2>1, <2>2 DEF Takes, Written, ShownAt
<1>9. ASSUME NEW k \in S
      PROVE  /\ CopyOf(to, k) = [Copy(k) EXCEPT !.value = data.value]
             /\ rows[k].version <= to.rows[k].version
             /\ rows[k].version = to.rows[k].version => CopyOf(to, k) = Copy(k)
             /\ to.rows[k] # rows[k] \/ CopyOf(to, k) = Copy(k)
  <2>1. Has(State, k) /\ Has(to, k) /\ k \in L
    BY <1>4, <1>8
  <2>2. rows[k].version \in Nat
    BY <1>1, <2>1, VersionsAreNumbers
  <2>3. CopyOf(to, k) \in Datum /\ Copy(k) \in Datum
    BY <1>5, <2>1, StateIs, CopyIsData
  <2>4. CopyOf(to, k) = [Copy(k) EXCEPT !.value = data.value]
    BY <1>8, <2>3 DEF Datum
  <2>5. CASE Same(own, to, k)
    <3>1. to.rows[k] = rows[k] /\ CopyOf(to, k) = Copy(k)
      BY <1>4, <1>8, <2>5 DEF Same
    <3> QED
      BY <2>2, <2>4, <3>1
  <2>6. CASE to.rows[k].version = rows[k].version + 1
    <3>1. rows[k].version <= to.rows[k].version /\ rows[k].version # to.rows[k].version
      BY <2>2, <2>6
    <3> QED
      BY <2>4, <3>1
  <2> QED
    BY <1>8, <2>5, <2>6
<1>10. rows[l].version \in Nat
  BY <1>1, VersionsAreNumbers
<1>11. rows[l].version <= to.rows[l].version /\ rows[l].version # to.rows[l].version
  BY <1>2, <1>6, <1>10
<1>12. ShownAt(to, l)
  BY <1>2, <1>6 DEF ShownAt, Stages
<1>13. ASSUME NEW k \in L, Has(State, k)
       PROVE  /\ ShownAt(to, k) /\ Has(to, k) /\ rows[k].version <= to.rows[k].version
              /\ rows[k].version = to.rows[k].version => CopyOf(to, k) = Copy(k)
  <2>1. CASE k = l
    BY <1>6, <1>11, <1>12, <2>1
  <2>2. CASE k \in S
    BY <1>8, <1>9, <2>2
  <2>3. CASE k \notin S \cup {l}
    BY <1>7, <1>13, <2>3, SameIsLater
  <2> QED
    BY <2>1, <2>2, <2>3
<1>14. Later(to) /\ Stay(to)
  BY <1>5, <1>13 DEF Later, Stay
<1>15. Shown(to)
  BY <1>13 DEF Shown, ShownAt
<1> QED
  BY <1>2, <1>6, <1>7, <1>9, <1>14, <1>15 DEF SaveWrites, to

\* A toggle writes the value it chose to the rows it has locked.
LEMMA ToggleEffect ==
  ASSUME Sound(State), NEW value \in Values \cup {0}, NEW S \in SUBSET Present(rows),
         NEW to, to = SyncedAll(State, S, value)
  PROVE  /\ Later(to) /\ Shown(to) /\ Stay(to)
         /\ \A k \in S : /\ CopyOf(to, k) = [Copy(k) EXCEPT !.value = value]
                         /\ to.rows[k] # rows[k] \/ CopyOf(to, k) = Copy(k)
         /\ \A k \in L \ S : Same(State, to, k)
<1>1. S \in SUBSET L /\ State.rows = rows /\ \A k \in S : Has(State, k)
  BY StateIs DEF Present
<1>2. Sound(to) /\ (\A k \in L \ S : Same(State, to, k)) /\ (\A k \in S : Takes(State, to, k, value))
  BY <1>1, FoldSyncs
<1>3. ASSUME NEW k \in S
      PROVE  /\ CopyOf(to, k) = [Copy(k) EXCEPT !.value = value]
             /\ rows[k].version <= to.rows[k].version
             /\ rows[k].version = to.rows[k].version => CopyOf(to, k) = Copy(k)
             /\ to.rows[k] # rows[k] \/ CopyOf(to, k) = Copy(k)
             /\ ShownAt(to, k) /\ Has(to, k)
  <2>1. k \in L /\ Has(State, k) /\ Takes(State, to, k, value)
    BY <1>1, <1>2
  <2>2. /\ Has(to, k) /\ ShownAt(to, k) /\ CopyOf(to, k).value = value
        /\ CopyOf(to, k).text = CopyOf(State, k).text
        /\ Same(State, to, k) \/ to.rows[k].version = rows[k].version + 1
    BY <1>1, <2>1 DEF Takes, Written, ShownAt
  <2>3. rows[k].version \in Nat
    BY <1>1, <2>1, VersionsAreNumbers
  <2>4. CopyOf(to, k) \in Datum /\ Copy(k) \in Datum /\ CopyOf(State, k) = Copy(k)
    BY <1>2, <2>1, <2>2, StateIs, CopyIsData
  <2>5. CopyOf(to, k) = [Copy(k) EXCEPT !.value = value]
    BY <2>2, <2>4 DEF Datum
  <2>6. CASE Same(State, to, k)
    <3>1. to.rows[k] = rows[k] /\ CopyOf(to, k) = Copy(k)
      BY <1>1, <2>1, <2>4, <2>6 DEF Same
    <3> QED
      BY <2>2, <2>3, <2>5, <3>1
  <2>7. CASE to.rows[k].version = rows[k].version + 1
    <3>1. rows[k].version <= to.rows[k].version /\ rows[k].version # to.rows[k].version
      BY <2>3, <2>7
    <3> QED
      BY <2>2, <2>5, <3>1
  <2> QED
    BY <2>2, <2>6, <2>7
<1>4. ASSUME NEW k \in L, Has(State, k)
      PROVE  /\ ShownAt(to, k) /\ Has(to, k) /\ rows[k].version <= to.rows[k].version
             /\ rows[k].version = to.rows[k].version => CopyOf(to, k) = Copy(k)
  <2>1. CASE k \in S
    BY <1>3, <2>1
  <2>2. CASE k \notin S
    BY <1>2, <1>4, <2>2, SameIsLater
  <2> QED
    BY <2>1, <2>2
<1>5. Later(to) /\ Stay(to)
  BY <1>2, <1>4 DEF Later, Stay
<1>6. Shown(to)
  BY <1>4 DEF Shown, ShownAt
<1> QED
  BY <1>2, <1>3, <1>5, <1>6

-----------------------------------------------------------------------------
(* Steps that keep the invariant.                                          *)

LEMMA NextSound ==
  ASSUME NEW to, Sound(to), Store(to), type' = type
  PROVE  Sound(State)'
<1>1. rows' = to.rows /\ revs' = to.revs
  BY DEF Store
<1>2. IsFunction(to.rows) /\ DOMAIN to.rows = L /\ Recordable(to.revs)
      /\ \A l \in L : to.rows[l] = Absent \/ (to.rows[l] \in RowSet /\ Resolves(to, l))
  BY DEF Sound
<1>3. IsFunction(rows') /\ DOMAIN rows' = L /\ Recordable(revs')
  BY <1>1, <1>2
<1>4. \A l \in L : rows'[l] = Absent \/ (rows'[l] \in RowSet /\ Resolves(State, l)')
  BY <1>1, <1>2 DEF Resolves, State
<1>5. (State.rows)' = rows' /\ (State.revs)' = revs'
  BY DEF State
<1> QED
  BY <1>3, <1>4, <1>5 DEF Sound

LEMMA DatumOf == ASSUME NEW text \in Nat, NEW value \in Values \cup {0} PROVE Data(text, value) \in Datum
BY DEF Data, Datum

LEMMA IdleIs ==
  /\ Shaped(Idle) /\ Idle.op = "none" /\ Idle.pc = "idle" /\ Idle.found = {} /\ DOMAIN Idle = TxParts
BY DEF Idle, Shaped, TxParts, IsFunction, Datum, Data

LEMMA SetKeeps ==
  ASSUME TxOK, NEW w \in Writers, NEW t, Shaped(t), Set(w, t)
  PROVE  TxOK' /\ tx'[w] = t /\ \A u \in Writers \ {w} : tx'[u] = tx[u]
<1>1. tx' = [tx EXCEPT ![w] = t]
  BY DEF Set
<1>2. DOMAIN tx' = Writers /\ IsFunction(tx') /\ tx'[w] = t /\ \A u \in Writers \ {w} : tx'[u] = tx[u]
  BY <1>1 DEF TxOK, IsFunction
<1> QED
  BY <1>2 DEF TxOK

\* What a step of others leaves of a transaction.
Carried(u, to) ==
  LET t == tx[u] IN
  /\ tx'[u].op = t.op /\ tx'[u].pc = t.pc /\ tx'[u].locale = t.locale /\ tx'[u].base = t.base
  /\ tx'[u].seen = t.seen /\ tx'[u].input = t.input /\ tx'[u].found \subseteq t.found
  /\ (t.pc \in {"called", "seeks"} /\ t.locale \in Present(rows)) => Has(to, t.locale)
  /\ \A l \in tx'[u].found : Has(State, l) => Has(to, l)
  /\ \A l \in t.found : Has(to, l) => l \in tx'[u].found
Carries(u, to) == tx'[u] = Idle \/ Carried(u, to)

LEMMA UntouchedIsCarried ==
  ASSUME NEW to, Stay(to), NEW u \in Writers, tx'[u] = tx[u], Shaped(tx[u])
  PROVE  Carries(u, to)
BY StateIs DEF Carries, Carried, Stay, Shaped, Present

LEMMA SawStays ==
  ASSUME Typed, NEW u \in Writers, Saw(u), HoldsRows(u), NEW to, Later(to), Store(to), Carries(u, to)
  PROVE  Saw(u)' /\ HoldsRows(u)'
<1>1. CASE tx'[u] = Idle
  BY <1>1, IdleIs DEF Saw, HoldsRows, HeldRows, OnRow, RowOps
<1>2. CASE Carried(u, to)
  <2> DEFINE t == tx[u]
             l == t.locale
  <2>1. Shaped(t)
    BY DEF Typed, TxOK
  <2>2. rows' = to.rows
    BY DEF Store
  <2>3. HeldRows(u)' \subseteq HeldRows(u) /\ \A k \in HeldRows(u)' : k \in tx'[u].found
    BY <1>2 DEF Carried, HeldRows
  <2>4. HoldsRows(u)'
    <3> SUFFICES ASSUME NEW k \in HeldRows(u)' PROVE k \in Present(rows')
      BY DEF HoldsRows
    <3>1. k \in L /\ Has(State, k) /\ k \in tx'[u].found
      BY <2>3, StateIs DEF HoldsRows, Present
    <3> QED
      BY <1>2, <3>1, StoredIs DEF Carried
  <2>5. ASSUME t.op \in OnRow,
               t.pc \in {"called", "seeks"} \/ (t.pc = "held" /\ l \in tx'[u].found)
        PROVE  /\ l \in Present(rows') /\ t.base <= rows'[l].version
               /\ t.base = rows'[l].version => CopyIn(rows', revs', l) = t.seen
    <3>1. l \in Present(rows) /\ Has(to, l) /\ l \in L /\ Has(State, l)
      <4>1. CASE t.pc \in {"called", "seeks"}
        BY <1>2, <2>5, <4>1, StateIs DEF Saw, Carried, Present
      <4>2. CASE t.pc = "held" /\ l \in tx'[u].found
        <5>1. l \in HeldRows(u)
          BY <1>2, <4>2 DEF Carried, HeldRows
        <5>2. l \in Present(rows) /\ l \in L
          BY <5>1 DEF HoldsRows, Present
        <5>3. Has(State, l)
          BY <5>2, StateIs
        <5> QED
          BY <1>2, <4>2, <5>2, <5>3 DEF Carried
      <4> QED
        BY <2>5, <4>1, <4>2
    <3>2. t.base <= rows[l].version /\ (t.base = rows[l].version => Copy(l) = t.seen)
      <4>1. t.pc \in {"called", "seeks"} \/ (t.pc = "held" /\ l \in t.found)
        BY <1>2, <2>5 DEF Carried
      <4> QED
        BY <2>5, <4>1 DEF Saw
    <3>3. /\ rows[l].version <= to.rows[l].version
          /\ rows[l].version = to.rows[l].version => CopyOf(to, l) = Copy(l)
      BY <3>1 DEF Later
    <3>4. rows[l].version \in Nat /\ to.rows[l].version \in Nat /\ t.base \in Nat
      BY <2>1, <3>1, StateIs, VersionsAreNumbers DEF Typed, Later, Shaped
    <3>5. l \in Present(rows') /\ CopyIn(rows', revs', l) = CopyOf(to, l)
      BY <3>1, StoredIs
    <3>6. t.base <= to.rows[l].version
      BY <3>2, <3>3, <3>4
    <3>7. t.base = to.rows[l].version => t.base = rows[l].version /\ rows[l].version = to.rows[l].version
      BY <3>2, <3>3, <3>4
    <3> QED
      BY <2>2, <3>2, <3>3, <3>5, <3>6, <3>7
  <2>6. /\ tx'[u].op = t.op /\ tx'[u].pc = t.pc /\ tx'[u].locale = l /\ tx'[u].base = t.base
        /\ tx'[u].seen = t.seen
    BY <1>2 DEF Carried
  <2>7. Saw(u)'
    <3>1. SUFFICES ASSUME tx'[u].op \in OnRow
                   PROVE  /\ tx'[u].pc \in {"called", "seeks"} => tx'[u].locale \in Present(rows')
                          /\ (tx'[u].pc \in {"called", "seeks"}
                                \/ (tx'[u].pc = "held" /\ tx'[u].locale \in tx'[u].found)) =>
                               /\ tx'[u].base <= rows'[tx'[u].locale].version
                               /\ tx'[u].base = rows'[tx'[u].locale].version =>
                                    CopyIn(rows', revs', tx'[u].locale) = tx'[u].seen
      BY DEF Saw, OnRow, Copy
    <3> HIDE DEF t, l
    <3> QED
      BY <2>5, <2>6, <3>1
  <2> QED
    BY <2>4, <2>7
<1> QED
  BY <1>1, <1>2 DEF Carries

LEMMA OwnersStay ==
  ASSUME NEW u \in Writers, NEW to, Carries(u, to)
  PROVE  (Owns(u)' => Owns(u) /\ Carried(u, to)) /\ (Shares(u)' => Shares(u))
<1>1. CASE tx'[u] = Idle
  BY <1>1, IdleIs DEF Owns, Shares
<1>2. CASE Carried(u, to)
  BY <1>2 DEF Carried, Owns, Shares
<1> QED
  BY <1>1, <1>2 DEF Carries

LEMMA KnowsStays ==
  ASSUME TxOK, NEW u \in Writers, ToggleKnows(u), NEW to, Store(to), Carries(u, to),
         Quiet(to) \/ ~ Owns(u) \/ tx'[u] = Idle
  PROVE  ToggleKnows(u)'
<1> SUFFICES ASSUME Owns(u)', NEW l \in Present(rows')
             PROVE  l \in tx'[u].found \/ Copy(l)'.value = tx'[u].input.value
  BY DEF ToggleKnows, Copy
<1>1. Owns(u) /\ Carried(u, to) /\ tx'[u] # Idle
  BY OwnersStay, IdleIs DEF Owns
<1>2. Quiet(to)
  BY <1>1
<1>3. l \in L /\ Has(to, l) /\ Copy(l)' = CopyOf(to, l)
  BY StoredIs DEF Present
<1>4. l \in Present(rows) /\ CopyOf(to, l) = Copy(l)
  BY <1>2, <1>3, StateIs DEF Quiet
<1>5. l \in tx[u].found \/ Copy(l).value = tx[u].input.value
  BY <1>1, <1>4 DEF ToggleKnows
<1> QED
  BY <1>1, <1>3, <1>4, <1>5 DEF Carried

LEMMA AloneStays ==
  ASSUME \A u \in Writers : Alone(u), NEW to, \A u \in Writers : Carries(u, to)
  PROVE  \A u \in Writers : Alone(u)'
<1>1. \A u \in Writers : (Owns(u)' => Owns(u)) /\ (Shares(u)' => Shares(u))
  BY OwnersStay
<1> QED
  BY <1>1 DEF Alone

\* The copies of the next rows agree where they have to.
Agreeing(to) ==
  (shared' /\ ~ drifted') => \A k, l \in L : Has(to, k) /\ Has(to, l) =>
     CopyOf(to, k).value = CopyOf(to, l).value

LEMMA AgreesNext ==
  ASSUME NEW to, Store(to), Agreeing(to)
  PROVE  SharedAgrees'
<1> SUFFICES ASSUME shared', ~ drifted', NEW k \in Present(rows'), NEW l \in Present(rows')
             PROVE  Copy(k)'.value = Copy(l)'.value
  BY DEF SharedAgrees, Copy
<1>1. k \in L /\ l \in L
  BY DEF Present
<1> QED
  BY <1>1, StoredIs DEF Agreeing

LEMMA QuietAgrees ==
  ASSUME SharedAgrees, NEW to, Quiet(to), shared' => shared, drifted' = drifted
  PROVE  Agreeing(to)
BY StateIs DEF SharedAgrees, Quiet, Agreeing

Typing == shared' \in BOOLEAN /\ drifted' \in BOOLEAN /\ cap' \in {0, Cap} /\ calls' \in 0..MaxCalls

LEMMA StoreStep ==
  ASSUME IInv, NEW to, Store(to), Later(to), type' = type, Typing, TxOK',
         \A u \in Writers : Carries(u, to), Agreeing(to),
         \A u \in Writers : Quiet(to) \/ ~ Owns(u) \/ tx'[u] = Idle
  PROVE  IInv'
<1>1. Sound(State)'
  BY NextSound DEF Later
<1>2. Typed'
  BY <1>1 DEF Typed, Typing, IInv
<1>3. SharedAgrees'
  BY AgreesNext
<1>4. \A u \in Writers : Saw(u)' /\ HoldsRows(u)'
  BY SawStays DEF IInv
<1>5. \A u \in Writers : Alone(u)'
  BY AloneStays DEF IInv
<1>6. \A u \in Writers : ToggleKnows(u)'
  BY KnowsStays DEF IInv, Typed
<1> QED
  BY <1>2, <1>3, <1>4, <1>5, <1>6 DEF IInv

LEMMA StillState ==
  ASSUME Sound(State)
  PROVE  Later(State) /\ Quiet(State) /\ Stay(State) /\ Shown(State)
         /\ (UNCHANGED <<rows, revs>> => Store(State))
<1>1. \A l \in L : Has(State, l) => rows[l].version <= rows[l].version
  <2> TAKE l \in L
  <2> HAVE Has(State, l)
  <2>1. rows[l].version \in Nat
    BY StateIs, VersionsAreNumbers
  <2> QED
    BY <2>1
<1> QED
  BY <1>1, StateIs DEF Later, Quiet, Stay, Shown, ShownAt, Store

\* A step of one transaction that leaves the rows.
LEMMA LocalStep ==
  ASSUME IInv, NEW w \in Writers, UNCHANGED <<type, shared, cap, rows, revs, drifted>>,
         calls' \in 0..MaxCalls, TxOK', \A u \in Writers \ {w} : tx'[u] = tx[u],
         Saw(w)', HoldsRows(w)', ToggleKnows(w)', \A u \in Writers : Alone(u)'
  PROVE  IInv'
<1>1. Later(State) /\ Quiet(State) /\ Stay(State) /\ Store(State) /\ Sound(State)
  BY StillState DEF IInv, Typed
<1>2. Typed'
  BY <1>1, NextSound DEF IInv, Typed
<1>3. Agreeing(State)
  BY <1>1, QuietAgrees DEF IInv
<1>4. SharedAgrees'
  BY <1>1, <1>3, AgreesNext
<1>5. \A u \in Writers \ {w} : Carries(u, State)
  BY <1>1, UntouchedIsCarried DEF IInv, Typed, TxOK
<1>6. \A u \in Writers \ {w} : Saw(u)' /\ HoldsRows(u)'
  BY <1>1, <1>5, SawStays DEF IInv
<1>7. \A u \in Writers \ {w} : ToggleKnows(u)'
  BY <1>1, <1>5, KnowsStays DEF IInv, Typed
<1> QED
  BY <1>2, <1>4, <1>6, <1>7 DEF IInv

LEMMA CalledStep ==
  ASSUME IInv, NEW w \in Writers, NEW op, NEW l \in Present(rows), NEW input \in Datum,
         Called(w, op, l, input)
  PROVE  IInv'
<1> DEFINE t == [Idle EXCEPT !.op = op, !.pc = "called", !.locale = l,
                             !.base = rows[l].version, !.seen = Copy(l),
                             !.publishes = GoesLive(l), !.input = input]
<1>1. Set(w, t) /\ UNCHANGED <<type, shared, cap, rows, revs, drifted>> /\ calls' \in 0..MaxCalls
  BY ContentAssumption DEF Called, Counted, IInv, Typed, ContentAssumption
<1>2. l \in L /\ Has(State, l) /\ State.rows = rows
  BY StateIs DEF Present
<1>3. rows[l].version \in Nat
  BY <1>2, VersionsAreNumbers DEF IInv, Typed
<1>4. /\ t.op = op /\ t.pc = "called" /\ t.locale = l /\ t.base = rows[l].version /\ t.seen = Copy(l)
      /\ t.input = input /\ t.found = {} /\ DOMAIN t = TxParts /\ IsFunction(t)
  BY DEF Idle, TxParts, IsFunction
<1> HIDE DEF t
<1>5. Shaped(t)
  BY <1>3, <1>4 DEF Shaped
<1>6. TxOK' /\ tx'[w] = t /\ \A u \in Writers \ {w} : tx'[u] = tx[u]
  BY <1>1, <1>5, SetKeeps DEF IInv, Typed
<1>7. Saw(w)'
  <2>1. rows[l].version <= rows[l].version
    BY <1>3
  <2>2. CopyIn(rows', revs', l) = Copy(l) /\ rows' = rows
    BY <1>1 DEF Copy
  <2> QED
    BY <1>4, <1>6, <2>1, <2>2 DEF Saw, OnRow, Copy
<1>8. HoldsRows(w)' /\ ToggleKnows(w)' /\ ~ Owns(w)' /\ ~ Shares(w)'
  BY <1>4, <1>6 DEF HoldsRows, HeldRows, ToggleKnows, Owns, Shares
<1>9. \A u \in Writers : Alone(u)'
  BY <1>6, <1>8 DEF IInv, Alone, Owns, Shares
<1> QED
  BY <1>1, <1>6, <1>7, <1>8, <1>9, LocalStep

LEMMA CallsStep ==
  ASSUME IInv, NEW w \in Writers,
         SaveEntry(w) \/ RestoreRevision(w) \/ CallOnRow(w) \/ CreateTranslation(w)
  PROVE  IInv'
<1>0. calls + 1 \in Nat /\ \A v \in Values : Data(calls + 1, v) \in Datum
  BY ContentAssumption DEF IInv, Typed, ContentAssumption, Data, Datum
<1>1. CASE SaveEntry(w)
  <2>1. PICK l \in Present(rows), v \in Values : Called(w, "save", l, Data(calls + 1, v))
    BY <1>1 DEF SaveEntry
  <2> QED
    BY <1>0, <2>1, CalledStep
<1>2. CASE RestoreRevision(w)
  <2>1. PICK r \in DOMAIN revs : Exists(revs[r].locale) /\ Called(w, "save", revs[r].locale, revs[r].data)
    BY <1>2 DEF RestoreRevision
  <2>2. revs[r] \in RevSet
    BY StateIs DEF IInv, Typed, Sound, Recordable
  <2>3. revs[r].locale \in Present(rows) /\ revs[r].data \in Datum
    BY <2>1, <2>2 DEF RevSet, Present, Exists
  <2> QED
    BY <2>1, <2>3, CalledStep
<1>3. CASE CallOnRow(w)
  <2>1. PICK l \in Present(rows), op \in RowOps \cup {"delete"} : Called(w, op, l, Data(0, 0))
    BY <1>3 DEF CallOnRow
  <2>2. Data(0, 0) \in Datum
    BY DEF Data, Datum
  <2> QED
    BY <2>1, <2>2, CalledStep
<1>4. CASE CreateTranslation(w)
  <2>1. PICK l \in Present(rows), v \in Values : Called(w, "translate", l, Data(calls + 1, v))
    BY <1>4 DEF CreateTranslation
  <2> QED
    BY <1>0, <2>1, CalledStep
<1> QED
  BY <1>1, <1>2, <1>3, <1>4

LEMMA ToggleSharedStep ==
  ASSUME IInv, NEW w \in Writers, ToggleShared(w)
  PROVE  IInv'
<1> DEFINE t == [Idle EXCEPT !.op = "toggle", !.pc = "called"]
<1>1. Set(w, t) /\ UNCHANGED <<type, shared, cap, rows, revs, drifted>> /\ calls' \in 0..MaxCalls
  BY ContentAssumption DEF ToggleShared, Counted, IInv, Typed, ContentAssumption
<1>2. t.op = "toggle" /\ t.pc = "called" /\ Shaped(t)
  BY DEF Idle, TxParts, IsFunction, Shaped, Data, Datum
<1> HIDE DEF t
<1>3. TxOK' /\ tx'[w] = t /\ \A u \in Writers \ {w} : tx'[u] = tx[u]
  BY <1>1, <1>2, SetKeeps DEF IInv, Typed
<1>4. Saw(w)' /\ HoldsRows(w)' /\ ToggleKnows(w)' /\ ~ Owns(w)' /\ ~ Shares(w)'
  BY <1>2, <1>3 DEF Saw, HoldsRows, HeldRows, ToggleKnows, Owns, Shares, OnRow, RowOps
<1>5. \A u \in Writers : Alone(u)'
  BY <1>3, <1>4 DEF IInv, Alone, Owns, Shares
<1> QED
  BY <1>1, <1>3, <1>4, <1>5, LocalStep

LEMMA BeginStep ==
  ASSUME IInv, NEW w \in Writers, Begin(w)
  PROVE  IInv'
<1> DEFINE was == tx[w]
           found == IF was.op \in GroupOps THEN Present(rows) ELSE {was.locale} \cap Present(rows)
           t == [was EXCEPT !.pc = "seeks", !.found = found]
<1>1. /\ was.pc = "called" /\ was.op # "toggle" /\ (was.op # "translate" => Unowned) /\ Set(w, t)
      /\ UNCHANGED <<type, shared, cap, rows, revs, drifted>> /\ calls' \in 0..MaxCalls
  BY DEF Begin, IInv, Typed
<1>2. Shaped(was) /\ found \subseteq L
  BY DEF IInv, Typed, TxOK, Present
<1> HIDE DEF found
<1>3. /\ t.pc = "seeks" /\ t.op = was.op /\ t.locale = was.locale /\ t.base = was.base
      /\ t.seen = was.seen /\ Shaped(t)
  BY <1>2 DEF Shaped, TxParts, IsFunction
<1> HIDE DEF t
<1>4. TxOK' /\ tx'[w] = t /\ \A u \in Writers \ {w} : tx'[u] = tx[u]
  BY <1>1, <1>3, SetKeeps DEF IInv, Typed
<1>5. Saw(w)'
  <2>1. Saw(w)
    BY DEF IInv
  <2>2. rows' = rows /\ revs' = revs
    BY <1>1
  <2> QED
    BY <1>1, <1>3, <1>4, <2>1, <2>2 DEF Saw, OnRow, Copy
<1>6. HoldsRows(w)' /\ ToggleKnows(w)' /\ ~ Owns(w)'
  BY <1>1, <1>3, <1>4 DEF HoldsRows, HeldRows, ToggleKnows, Owns
<1>7. \A u \in Writers : Alone(u)'
  <2>1. CASE was.op = "translate"
    <3>1. ~ Shares(w)'
      BY <1>3, <1>4, <2>1 DEF Shares, GroupOps, RowOps
    <3> QED
      BY <1>4, <1>6, <3>1 DEF IInv, Alone, Owns, Shares
  <2>2. CASE was.op # "translate"
    <3>1. \A u \in Writers : ~ Owns(u)'
      BY <1>1, <1>4, <1>6, <2>2 DEF Unowned, Owns
    <3> QED
      BY <3>1 DEF Alone
  <2> QED
    BY <2>1, <2>2
<1> QED
  BY <1>1, <1>4, <1>5, <1>6, <1>7, LocalStep

LEMMA WinnerIs == ASSUME Sound(State) PROVE Winner \in Values \cup {0}
<1>1. CASE Valued = {}
  BY <1>1 DEF Winner
<1>2. CASE Valued # {}
  <2>1. Valued \subseteq Nat /\ IsFiniteSet(Valued)
    BY FewLocales, FS_Subset DEF Valued
  <2>2. Min(Valued) \in Valued
    BY <1>2, <2>1, MinIsThere
  <2> DEFINE l == Locales[Min(Valued)]
  <2>3. l \in L /\ l \in Present(rows)
    BY <2>2 DEF Valued, L, Range, Exists, Present
  <2>4. Copy(l) \in Datum
    BY <2>3, StateIs, CopyIsData
  <2>5. Winner = Copy(l).value
    BY <1>2 DEF Winner
  <2> QED
    BY <2>4, <2>5 DEF Datum
<1> QED
  BY <1>1, <1>2

LEMMA BeginToggleStep ==
  ASSUME IInv, NEW w \in Writers, BeginToggle(w)
  PROVE  IInv'
<1> DEFINE was == tx[w]
           found == IF Differing = {} THEN {} ELSE Present(rows)
           t == [was EXCEPT !.pc = "seeks", !.input = Data(0, Winner), !.found = found]
<1>1. /\ was.op = "toggle" /\ TypeFree /\ Set(w, t)
      /\ UNCHANGED <<type, shared, cap, rows, revs, drifted>> /\ calls' \in 0..MaxCalls
  BY DEF BeginToggle, IInv, Typed
<1>2. Shaped(was) /\ found \subseteq L /\ Data(0, Winner) \in Datum /\ Data(0, Winner).value = Winner
  BY WinnerIs DEF IInv, Typed, TxOK, Present, Data, Datum
<1>3. \A l \in Present(rows) : l \in found \/ Copy(l).value = Winner
  BY DEF Differing
<1> HIDE DEF found
<1>4. t.pc = "seeks" /\ t.op = "toggle" /\ t.found = found /\ t.input.value = Winner /\ Shaped(t)
  BY <1>1, <1>2 DEF Shaped, TxParts, IsFunction
<1> HIDE DEF t
<1>5. TxOK' /\ tx'[w] = t /\ \A u \in Writers \ {w} : tx'[u] = tx[u]
  BY <1>1, <1>4, SetKeeps DEF IInv, Typed
<1>6. Saw(w)' /\ HoldsRows(w)'
  BY <1>4, <1>5 DEF Saw, HoldsRows, HeldRows, OnRow, RowOps
<1>7. ToggleKnows(w)'
  <2>1. rows' = rows /\ revs' = revs
    BY <1>1
  <2> QED
    BY <1>3, <1>4, <1>5, <2>1 DEF ToggleKnows, Copy
<1>8. \A u \in Writers : Alone(u)'
  <2>1. \A u \in Writers \ {w} : ~ Owns(u)' /\ ~ Shares(u)'
    BY <1>1, <1>5 DEF TypeFree, Owns, Shares
  <2> QED
    BY <2>1 DEF Alone
<1> QED
  BY <1>1, <1>5, <1>6, <1>7, <1>8, LocalStep

LEMMA LockRowsStep ==
  ASSUME IInv, NEW w \in Writers, LockRows(w)
  PROVE  IInv'
<1> DEFINE was == tx[w]
           found == was.found \cap Present(rows)
           t == [was EXCEPT !.pc = "held", !.found = found, !.sharing = shared]
<1>1. /\ was.pc = "seeks" /\ Set(w, t)
      /\ UNCHANGED <<type, shared, cap, rows, revs, drifted>> /\ calls' \in 0..MaxCalls
  BY DEF LockRows, IInv, Typed
<1>2. Shaped(was) /\ found \subseteq L
  BY DEF IInv, Typed, TxOK, Present
<1>3. /\ t.pc = "held" /\ t.op = was.op /\ t.locale = was.locale /\ t.base = was.base
      /\ t.seen = was.seen /\ t.input = was.input /\ t.found = found /\ Shaped(t)
  BY <1>2 DEF Shaped, TxParts, IsFunction
<1> HIDE DEF t
<1>4. TxOK' /\ tx'[w] = t /\ \A u \in Writers \ {w} : tx'[u] = tx[u]
  BY <1>1, <1>3, SetKeeps DEF IInv, Typed
<1>5. rows' = rows /\ revs' = revs
  BY <1>1
<1>6. Saw(w)'
  <2>1. Saw(w)
    BY DEF IInv
  <2> QED
    BY <1>1, <1>3, <1>4, <1>5, <2>1 DEF Saw, OnRow, Copy
<1>7. HoldsRows(w)'
  BY <1>3, <1>4, <1>5 DEF HoldsRows, HeldRows
<1>8. (Owns(w)' <=> Owns(w)) /\ (Shares(w)' <=> Shares(w))
  BY <1>1, <1>3, <1>4 DEF Owns, Shares
<1>9. ToggleKnows(w)'
  <2>1. ToggleKnows(w)
    BY DEF IInv
  <2> QED
    BY <1>3, <1>4, <1>5, <1>8, <2>1 DEF ToggleKnows, Copy
<1>10. \A u \in Writers : Alone(u)'
  <2>1. \A u \in Writers \ {w} : (Owns(u)' <=> Owns(u)) /\ (Shares(u)' <=> Shares(u))
    BY <1>4 DEF Owns, Shares
  <2> QED
    BY <1>8, <2>1 DEF IInv, Alone
<1> QED
  BY <1>1, <1>4, <1>6, <1>7, <1>9, <1>10, LocalStep

-----------------------------------------------------------------------------
(* Steps that write.                                                       *)

LEMMA StoreTyping ==
  ASSUME IInv, cap' = cap, calls' = calls \/ (calls < MaxCalls /\ calls' = calls + 1),
         shared' \in BOOLEAN, drifted' \in BOOLEAN
  PROVE  Typing
BY ContentAssumption DEF Typing, IInv, Typed, ContentAssumption

LEMMA EndedCarries ==
  ASSUME IInv, NEW w \in Writers, Ended(w), NEW to, Stay(to)
  PROVE  TxOK' /\ tx'[w] = Idle /\ \A u \in Writers : Carries(u, to)
<1>1. TxOK' /\ tx'[w] = Idle /\ \A u \in Writers \ {w} : tx'[u] = tx[u]
  BY IdleIs, SetKeeps DEF IInv, Typed, Ended
<1>2. \A u \in Writers \ {w} : Carries(u, to)
  BY <1>1, UntouchedIsCarried DEF IInv, Typed, TxOK
<1> QED
  BY <1>1, <1>2 DEF Carries

LEMMA StandingCarries ==
  ASSUME IInv, tx' = tx, NEW to, Stay(to)
  PROVE  TxOK' /\ \A u \in Writers : Carries(u, to)
BY UntouchedIsCarried DEF IInv, Typed, TxOK

LEMMA AbortStep ==
  ASSUME IInv, NEW w \in Writers, Abort(w)
  PROVE  IInv'
<1>1. Later(State) /\ Quiet(State) /\ Stay(State) /\ Store(State)
  BY StillState DEF IInv, Typed, Abort
<1>2. TxOK' /\ \A u \in Writers : Carries(u, State)
  BY <1>1, EndedCarries DEF Abort
<1>3. Agreeing(State)
  BY <1>1, QuietAgrees DEF IInv, Abort
<1>4. Typing /\ type' = type
  BY StoreTyping DEF Abort, IInv, Typed
<1> QED
  BY <1>1, <1>2, <1>3, <1>4, StoreStep

\* What a save, once it commits, has written.
SaveOutcome(w, to) == Store(to) /\ SaveWrites(to, tx[w].locale, tx[w].input, Siblings(w))

LEMMA SaveDoes ==
  ASSUME IInv, NEW w \in Writers, CommitSave(w)
  PROVE  /\ \E to : SaveOutcome(w, to)
         /\ tx[w].locale \in Present(rows) /\ Siblings(w) \in SUBSET (Present(rows) \ {tx[w].locale})
<1> DEFINE l == tx[w].locale
           data == tx[w].input
           S == Siblings(w)
<1>1. l \in tx[w].found /\ tx[w].pc = "held" /\ data \in Datum
  BY DEF CommitSave, Current, IInv, Typed, TxOK, Shaped
<1>2. tx[w].found \subseteq Present(rows)
  BY <1>1 DEF IInv, HoldsRows, HeldRows
<1>3. l \in Present(rows) /\ S \in SUBSET (Present(rows) \ {l})
  BY <1>1, <1>2 DEF Siblings
<1>4. \E own : own = WriteCopy(State, l, data) /\ Store(SyncedAll(own, S, data.value))
  BY Zenon DEF CommitSave, SyncedAll
<1>5. PICK to : to = SyncedAll(WriteCopy(State, l, data), S, data.value)
  OBVIOUS
<1>6. Store(to) /\ Sound(State)
  BY <1>4, <1>5 DEF IInv, Typed
<1> HIDE DEF l, data, S
<1>7. SaveWrites(to, l, data, S)
  BY <1>1, <1>3, <1>5, <1>6, SaveEffect
<1>8. SaveOutcome(w, to)
  BY <1>6, <1>7 DEF SaveOutcome, l, data, S
<1> QED
  BY <1>3, <1>8 DEF l, S

LEMMA CommitSaveStep ==
  ASSUME IInv, NEW w \in Writers, CommitSave(w)
  PROVE  IInv'
<1> DEFINE l == tx[w].locale
           data == tx[w].input
           S == Siblings(w)
<1>1. PICK to : SaveOutcome(w, to)
  BY SaveDoes
<1>2. l \in Present(rows) /\ S \in SUBSET (Present(rows) \ {l}) /\ l \in L
  BY SaveDoes DEF Present
<1>3. Store(to) /\ Later(to) /\ Stay(to) /\ CopyOf(to, l) = data
      /\ (\A k \in S : CopyOf(to, k) = [Copy(k) EXCEPT !.value = data.value])
      /\ (\A k \in L \ (S \cup {l}) : Same(State, to, k))
  BY <1>1 DEF SaveOutcome, SaveWrites
<1>4. TxOK' /\ tx'[w] = Idle /\ \A u \in Writers : Carries(u, to)
  BY <1>3, EndedCarries DEF CommitSave
<1>5. \A u \in Writers : ~ Owns(u) \/ tx'[u] = Idle
  <2>1. Shares(w)
    BY DEF CommitSave, Shares, GroupOps
  <2>2. \A u \in Writers \ {w} : ~ Owns(u)
    BY <2>1 DEF IInv, Alone
  <2> QED
    BY <1>4, <2>2
<1>6. Typing /\ type' = type
  <2>1. shared' = shared /\ drifted' \in BOOLEAN /\ cap' = cap /\ calls' = calls
    BY DEF CommitSave, IInv, Typed
  <2> QED
    BY <2>1, StoreTyping DEF CommitSave, IInv, Typed
<1>7. \A k \in S : CopyOf(to, k).value = data.value
  <2> TAKE k \in S
  <2>1. Copy(k) \in Datum
    BY <1>2, StateIs, CopyIsData DEF IInv, Typed, Present
  <2>2. [Copy(k) EXCEPT !.value = data.value].value = data.value
    BY <2>1 DEF Datum
  <2> QED
    BY <1>3, <2>2
<1>8. \A k \in L : Has(to, k) => k \in Present(rows)
  <2> TAKE k \in L
  <2>1. CASE k \in S \cup {l}
    BY <1>2, <2>1
  <2>2. CASE k \notin S \cup {l}
    BY <1>3, <2>2, StateIs DEF Same, Has
  <2> QED
    BY <2>1, <2>2
<1>9. Agreeing(to)
  <2>1. SUFFICES ASSUME shared, ~ drifted', NEW j \in L, NEW k \in L, Has(to, j), Has(to, k)
                 PROVE  CopyOf(to, j).value = CopyOf(to, k).value
    BY DEF Agreeing, CommitSave
  <2>2. CASE ChangesShared(w)
    <3>1. tx[w].found = Present(rows) /\ S = tx[w].found \ {l}
      BY <2>1, <2>2 DEF CommitSave, Siblings
    <3>2. j \in S \cup {l} /\ k \in S \cup {l}
      BY <1>8, <2>1, <3>1
    <3> QED
      BY <1>3, <1>7, <3>2
  <2>3. CASE ~ ChangesShared(w)
    <3>1. data.value = Copy(l).value /\ S = {} /\ ~ drifted
      BY <2>1, <2>3 DEF CommitSave, Siblings, ChangesShared
    <3>2. \A i \in L : Has(to, i) => i \in Present(rows) /\ CopyOf(to, i).value = Copy(i).value
      BY <1>3, <1>8, <3>1, StateIs DEF Same
    <3>3. \A h, i \in Present(rows) : Copy(h).value = Copy(i).value
      BY <2>1, <3>1 DEF IInv, SharedAgrees
    <3> QED
      BY <2>1, <3>2, <3>3
  <2> QED
    BY <2>2, <2>3
<1> QED
  BY <1>3, <1>4, <1>5, <1>6, <1>9, StoreStep

LEMMA LifecycleOutcome ==
  ASSUME IInv, NEW w \in Writers, CommitLifecycle(w)
  PROVE  /\ tx[w].locale \in Present(rows)
         /\ \E to : /\ Store(to) /\ Later(to) /\ Quiet(to) /\ Stay(to)
                    /\ \A k \in L \ {tx[w].locale} : Same(State, to, k) /\ ShownAt(to, k)
                    /\ tx[w].op # "publish" => Shown(to)
<1> DEFINE l == tx[w].locale
           op == tx[w].op
<1>1. l \in tx[w].found /\ tx[w].pc = "held" /\ op \in RowOps
  BY DEF CommitLifecycle, Current
<1>2. l \in Present(rows)
  BY <1>1 DEF IInv, HoldsRows, HeldRows
<1>3. PICK to \in Lifecycle(op, l) : Store(to)
  BY DEF CommitLifecycle
<1> HIDE DEF l, op
<1>4. /\ Later(to) /\ Quiet(to) /\ Stay(to)
      /\ (\A k \in L \ {l} : Same(State, to, k) /\ ShownAt(to, k))
      /\ op # "publish" => Shown(to)
  BY <1>1, <1>2, <1>3, LifecycleEffect DEF IInv, Typed
<1> QED
  BY <1>2, <1>3, <1>4 DEF l, op

LEMMA CommitLifecycleStep ==
  ASSUME IInv, NEW w \in Writers, CommitLifecycle(w)
  PROVE  IInv'
<1>1. PICK to : Store(to) /\ Later(to) /\ Quiet(to) /\ Stay(to)
  BY LifecycleOutcome
<1>2. TxOK' /\ \A u \in Writers : Carries(u, to)
  BY <1>1, EndedCarries DEF CommitLifecycle
<1>3. Agreeing(to)
  BY <1>1, QuietAgrees DEF IInv, CommitLifecycle
<1>4. Typing /\ type' = type
  BY StoreTyping DEF CommitLifecycle, IInv, Typed
<1> QED
  BY <1>1, <1>2, <1>3, <1>4, StoreStep

LEMMA MissedCarries ==
  ASSUME IInv, NEW l \in L, NEW to, ~ Has(to, l), \A k \in L \ {l} : Same(State, to, k),
         IsFunction(tx'), DOMAIN tx' = Writers,
         \A u \in Writers : tx'[u] = Idle \/ tx'[u] = Missed(l)[u]
  PROVE  TxOK' /\ \A u \in Writers : Carries(u, to)
<1>1. ASSUME NEW u \in Writers PROVE Shaped(tx'[u]) /\ Carries(u, to)
  <2> DEFINE t == tx[u]
  <2>1. Shaped(t)
    BY DEF IInv, Typed, TxOK
  <2>2. CASE tx'[u] = Idle
    BY <2>2, IdleIs DEF Carries
  <2>3. CASE tx'[u] # Idle
    <3>1. tx'[u] = [t EXCEPT !.found = @ \ {l}] /\ ~ (t.locale = l /\ t.pc \in {"called", "seeks"})
      BY <2>3 DEF Missed
    <3>2. /\ tx'[u].op = t.op /\ tx'[u].pc = t.pc /\ tx'[u].locale = t.locale /\ tx'[u].base = t.base
          /\ tx'[u].seen = t.seen /\ tx'[u].input = t.input /\ tx'[u].found = t.found \ {l}
          /\ Shaped(tx'[u])
      BY <2>1, <3>1 DEF Shaped, TxParts, IsFunction
    <3> HIDE DEF t
    <3>3. \A k \in L \ {l} : Has(State, k) <=> Has(to, k)
      BY DEF Same, Has
    <3>4. (t.pc \in {"called", "seeks"} /\ t.locale \in Present(rows)) => Has(to, t.locale)
      BY <3>1, <3>3, StateIs DEF Present
    <3>5. t.found \subseteq L
      BY <2>1 DEF Shaped
    <3>6. /\ \A k \in tx'[u].found : Has(State, k) => Has(to, k)
          /\ \A k \in t.found : Has(to, k) => k \in tx'[u].found
      BY <3>2, <3>3, <3>5
    <3> QED
      BY <3>2, <3>4, <3>6 DEF Carries, Carried, t
  <2> QED
    BY <2>2, <2>3
<1> QED
  BY <1>1 DEF TxOK

LEMMA DeleteOutcome ==
  ASSUME IInv, NEW w \in Writers, CommitDelete(w)
  PROVE  tx[w].locale \in Present(rows) /\ Gone(tx[w].locale)
<1>1. tx[w].locale \in tx[w].found /\ tx[w].pc = "held"
  BY DEF CommitDelete, Current
<1> QED
  BY <1>1 DEF IInv, HoldsRows, HeldRows, CommitDelete

LEMMA GoneStep ==
  ASSUME IInv, NEW l \in Present(rows), Gone(l),
         IsFunction(tx'), DOMAIN tx' = Writers,
         \A u \in Writers : tx'[u] = Idle \/ tx'[u] = Missed(l)[u],
         UNCHANGED <<type, shared, cap, drifted>>,
         calls' = calls \/ (calls < MaxCalls /\ calls' = calls + 1)
  PROVE  IInv'
<1>1. PICK to : /\ Store(to) /\ Later(to) /\ Quiet(to)
                /\ ~ Has(to, l) /\ \A k \in L \ {l} : Same(State, to, k)
  BY GoneEffect DEF IInv, Typed
<1>2. l \in L
  BY DEF Present
<1>3. TxOK' /\ \A u \in Writers : Carries(u, to)
  BY <1>1, <1>2, MissedCarries
<1>4. Agreeing(to)
  BY <1>1, QuietAgrees DEF IInv
<1>5. Typing /\ type' = type
  BY StoreTyping DEF IInv, Typed
<1> QED
  BY <1>1, <1>3, <1>4, <1>5, StoreStep

LEMMA CommitDeleteStep ==
  ASSUME IInv, NEW w \in Writers, CommitDelete(w)
  PROVE  IInv'
<1> DEFINE l == tx[w].locale
           missed == Missed(l)
<1>1. tx' = [missed EXCEPT ![w] = Idle] /\ DOMAIN missed = Writers /\ IsFunction(missed)
  BY DEF CommitDelete, Missed, IsFunction
<1>2. IsFunction(tx') /\ DOMAIN tx' = Writers /\ \A u \in Writers : tx'[u] = Idle \/ tx'[u] = missed[u]
  <2> HIDE DEF missed
  <2> QED
    BY <1>1 DEF IsFunction
<1>3. UNCHANGED <<type, shared, cap, drifted>> /\ calls' = calls
  BY DEF CommitDelete
<1> QED
  BY <1>2, <1>3, DeleteOutcome, GoneStep

LEMMA PurgeLocaleStep ==
  ASSUME IInv, PurgeLocale
  PROVE  IInv'
<1>1. PICK l \in Present(rows) : Gone(l) /\ tx' = Missed(l)
  BY DEF PurgeLocale
<1>2. IsFunction(tx') /\ DOMAIN tx' = Writers
  BY <1>1 DEF Missed, IsFunction
<1>3. UNCHANGED <<type, shared, cap, drifted>> /\ calls < MaxCalls /\ calls' = calls + 1
  BY DEF PurgeLocale, Counted
<1> QED
  BY <1>1, <1>2, <1>3, GoneStep

\* A row that is created among rows that agree with it.
LEMMA CreateStep ==
  ASSUME IInv, NEW l \in L \ Present(rows), NEW data \in Datum,
         rows' = [rows EXCEPT ![l] = Row("draft", data)], revs' = revs,
         UNCHANGED <<type, shared, cap>>, drifted' \in BOOLEAN,
         calls' = calls \/ (calls < MaxCalls /\ calls' = calls + 1),
         TxOK', \A u \in Writers : tx'[u] = Idle \/ tx'[u] = tx[u],
         \A u \in Writers : ~ Owns(u),
         ~ drifted' => \A k \in Present(rows) : Copy(k).value = data.value
  PROVE  IInv'
<1> DEFINE new == [rows |-> rows', revs |-> revs]
<1>1. PICK to : to = new
  OBVIOUS
<1>2. to.rows = [rows EXCEPT ![l] = Row("draft", data)] /\ to.revs = revs /\ Store(to)
  BY <1>1 DEF Store
<1> HIDE DEF new
<1>3. /\ Later(to) /\ Shown(to) /\ Stay(to)
      /\ Has(to, l) /\ CopyOf(to, l) = data /\ \A k \in L \ {l} : Same(State, to, k)
  BY <1>2, CreateEffect DEF IInv, Typed
<1>4. \A u \in Writers : Carries(u, to)
  BY <1>3, UntouchedIsCarried DEF IInv, Typed, TxOK, Carries
<1>5. \A k \in L \ {l} : Has(to, k) => k \in Present(rows) /\ CopyOf(to, k) = Copy(k)
  BY <1>3, StateIs DEF Same, Has
<1>6. Agreeing(to)
  BY <1>3, <1>5 DEF Agreeing
<1>7. Typing /\ type' = type
  BY StoreTyping DEF IInv, Typed
<1> QED
  BY <1>2, <1>3, <1>4, <1>6, <1>7, StoreStep

LEMMA CommitTranslationStep ==
  ASSUME IInv, NEW w \in Writers, CommitTranslation(w)
  PROVE  IInv'
<1> DEFINE t == tx[w]
           data == Data(t.input.text, IF t.sharing THEN rows[t.locale].data.value ELSE t.input.value)
<1>1. PICK l \in L \ Present(rows) :
        /\ rows' = [rows EXCEPT ![l] = Row("draft", data)]
        /\ drifted' = (drifted \/ t.sharing # shared \/ \E k \in Present(rows) : Copy(k).value # data.value)
  BY DEF CommitTranslation
<1>2. t.locale \in Present(rows) /\ t.input \in Datum
  BY DEF CommitTranslation, IInv, HoldsRows, HeldRows, Typed, TxOK, Shaped
<1>3. rows[t.locale].data \in Datum
  BY <1>2, StateIs DEF IInv, Typed, Sound, Has, Present, RowSet
<1>4. data \in Datum
  BY <1>2, <1>3 DEF Data, Datum
<1>5. UNCHANGED <<type, shared, cap, revs, calls>> /\ Ended(w) /\ \A u \in Writers : ~ Owns(u)
  BY DEF CommitTranslation, Unowned
<1>6. TxOK' /\ \A u \in Writers : tx'[u] = Idle \/ tx'[u] = tx[u]
  BY <1>5, IdleIs, SetKeeps DEF Ended, IInv, Typed
<1> HIDE DEF t, data
<1>7. drifted' \in BOOLEAN /\ (~ drifted' => \A k \in Present(rows) : Copy(k).value = data.value)
  BY <1>1
<1> QED
  BY <1>1, <1>4, <1>5, <1>6, <1>7, CreateStep

LEMMA CreateEntryStep ==
  ASSUME IInv, CreateEntry
  PROVE  IInv'
<1>1. PICK l \in L, v \in Values : rows' = [rows EXCEPT ![l] = Row("draft", Data(0, v))]
  BY DEF CreateEntry
<1>2. Data(0, v) \in Datum
  BY DatumOf
<1>3. /\ Present(rows) = {} /\ calls < MaxCalls /\ calls' = calls + 1 /\ tx' = tx /\ revs' = revs
      /\ UNCHANGED <<type, shared, cap>> /\ drifted' \in BOOLEAN /\ \A u \in Writers : ~ Owns(u)
  BY DEF CreateEntry, Counted, Unowned
<1>4. TxOK'
  BY <1>3 DEF IInv, Typed, TxOK
<1>5. \A k \in Present(rows) : Copy(k).value = Data(0, v).value
  BY <1>3
<1>6. l \in L \ Present(rows)
  BY <1>3
<1> QED
  BY <1>1, <1>2, <1>3, <1>4, <1>5, <1>6, CreateStep

LEMMA GetOrCreateSingletonStep ==
  ASSUME IInv, GetOrCreateSingleton
  PROVE  IInv'
<1>1. PICK l \in L \ Present(rows), v \in Values :
        \E from \in IF shared /\ Present(rows) # {} THEN {rows[k].data.value : k \in Present(rows)} ELSE {v} :
          /\ rows' = [rows EXCEPT ![l] = Row("draft", Data(0, from))]
          /\ drifted' = (drifted \/ \E k \in Present(rows) : Copy(k).value # from)
  BY DEF GetOrCreateSingleton
<1>2. PICK from \in IF shared /\ Present(rows) # {} THEN {rows[k].data.value : k \in Present(rows)} ELSE {v} :
        /\ rows' = [rows EXCEPT ![l] = Row("draft", Data(0, from))]
        /\ drifted' = (drifted \/ \E k \in Present(rows) : Copy(k).value # from)
  BY <1>1
<1>3. \A k \in Present(rows) : rows[k].data \in Datum
  BY StateIs DEF IInv, Typed, Sound, Has, Present, RowSet
<1>4. from \in Values \cup {0}
  BY <1>2, <1>3 DEF Datum
<1>5. Data(0, from) \in Datum /\ Data(0, from).value = from
  BY <1>4, DatumOf DEF Data
<1>6. /\ calls < MaxCalls /\ calls' = calls + 1 /\ tx' = tx /\ revs' = revs
      /\ UNCHANGED <<type, shared, cap>> /\ \A u \in Writers : ~ Owns(u)
  BY DEF GetOrCreateSingleton, Counted, TypeFree
<1>7. TxOK'
  BY <1>6 DEF IInv, Typed, TxOK
<1>8. drifted' \in BOOLEAN /\ (~ drifted' => \A k \in Present(rows) : Copy(k).value = Data(0, from).value)
  BY <1>2, <1>5
<1> QED
  BY <1>2, <1>5, <1>6, <1>7, <1>8, CreateStep

\* What a toggle, once it commits, has written.
ToggleWrites(w, to) ==
  /\ Store(to) /\ Later(to) /\ Shown(to) /\ Stay(to)
  /\ \A k \in tx[w].found : /\ CopyOf(to, k) = [Copy(k) EXCEPT !.value = tx[w].input.value]
                            /\ to.rows[k] # rows[k] \/ CopyOf(to, k) = Copy(k)
  /\ \A k \in L \ tx[w].found : Same(State, to, k)

LEMMA ToggleDoes ==
  ASSUME IInv, NEW w \in Writers, CommitToggle(w)
  PROVE  tx[w].found \in SUBSET Present(rows) /\ \E to : ToggleWrites(w, to)
<1> DEFINE S == tx[w].found
           value == tx[w].input.value
<1>1. S \in SUBSET Present(rows)
  BY DEF CommitToggle, IInv, HoldsRows, HeldRows
<1>2. value \in Values \cup {0}
  BY DEF IInv, Typed, TxOK, Shaped, Datum
<1>3. Store(SyncedAll(State, S, value))
  BY Zenon DEF CommitToggle, SyncedAll
<1>4. PICK to : to = SyncedAll(State, S, value)
  OBVIOUS
<1>5. Store(to) /\ Sound(State)
  BY <1>3, <1>4 DEF IInv, Typed
<1> HIDE DEF S, value
<1>6. /\ Later(to) /\ Shown(to) /\ Stay(to)
      /\ (\A k \in S : /\ CopyOf(to, k) = [Copy(k) EXCEPT !.value = value]
                       /\ to.rows[k] # rows[k] \/ CopyOf(to, k) = Copy(k))
      /\ \A k \in L \ S : Same(State, to, k)
  BY <1>1, <1>2, <1>4, <1>5, ToggleEffect
<1>7. ToggleWrites(w, to)
  BY <1>5, <1>6 DEF ToggleWrites, S, value
<1> QED
  BY <1>1, <1>7 DEF S

LEMMA CommitToggleStep ==
  ASSUME IInv, NEW w \in Writers, CommitToggle(w)
  PROVE  IInv'
<1> DEFINE S == tx[w].found
           value == tx[w].input.value
<1>1. PICK to : ToggleWrites(w, to)
  BY ToggleDoes
<1>2. S \in SUBSET Present(rows)
  BY ToggleDoes
<1>3. /\ Store(to) /\ Later(to) /\ Stay(to)
      /\ (\A k \in S : CopyOf(to, k) = [Copy(k) EXCEPT !.value = value])
      /\ \A k \in L \ S : Same(State, to, k)
  BY <1>1 DEF ToggleWrites
<1>4. TxOK' /\ tx'[w] = Idle /\ \A u \in Writers : Carries(u, to)
  BY <1>3, EndedCarries DEF CommitToggle
<1>5. Owns(w)
  BY DEF CommitToggle, Owns
<1>6. \A u \in Writers : ~ Owns(u) \/ tx'[u] = Idle
  BY <1>4, <1>5 DEF IInv, Alone
<1>7. Typing /\ type' = type
  BY StoreTyping DEF CommitToggle, IInv, Typed
<1>8. \A k \in L : Has(to, k) => CopyOf(to, k).value = value
  <2> SUFFICES ASSUME NEW k \in L, Has(to, k) PROVE CopyOf(to, k).value = value
    OBVIOUS
  <2>1. CASE k \in S
    <3>1. Copy(k) \in Datum
      BY <1>2, <2>1, StateIs, CopyIsData DEF IInv, Typed
    <3>2. [Copy(k) EXCEPT !.value = value].value = value
      BY <3>1 DEF Datum
    <3> QED
      BY <1>3, <2>1, <3>2
  <2>2. CASE k \notin S
    <3>1. k \in Present(rows) /\ CopyOf(to, k) = Copy(k)
      BY <1>3, <2>2, StateIs DEF Same, Has
    <3> QED
      BY <1>5, <2>2, <3>1 DEF IInv, ToggleKnows
  <2> QED
    BY <2>1, <2>2
<1>9. Agreeing(to)
  BY <1>8 DEF Agreeing
<1> QED
  BY <1>3, <1>4, <1>6, <1>7, <1>9, StoreStep

LEMMA StandingStep ==
  ASSUME IInv, NEW to, Store(to), Later(to), Quiet(to), Stay(to), tx' = tx, type' = type,
         shared' = shared \/ shared' = FALSE, drifted' = drifted, Typing
  PROVE  IInv'
<1>1. TxOK' /\ \A u \in Writers : Carries(u, to)
  BY StandingCarries
<1>2. Agreeing(to)
  BY QuietAgrees DEF IInv
<1> QED
  BY <1>1, <1>2, StoreStep

LEMMA LockStep ==
  ASSUME IInv, Acquire \/ TakeOver \/ Lapse
  PROVE  IInv'
<1>1. PICK to : Store(to) /\ Later(to) /\ Quiet(to) /\ Stay(to)
  BY LockEffect DEF IInv, Typed
<1>2. tx' = tx /\ type' = type /\ shared' = shared /\ drifted' = drifted /\ cap' = cap
      /\ (calls' = calls \/ (calls < MaxCalls /\ calls' = calls + 1))
  BY DEF Acquire, TakeOver, Lapse, Counted
<1>3. Typing
  BY <1>2, StoreTyping DEF IInv, Typed
<1> QED
  BY <1>1, <1>2, <1>3, StandingStep

LEMMA SetRevisionCapStep ==
  ASSUME IInv, SetRevisionCap
  PROVE  IInv'
<1>1. PICK to : Store(to) /\ Later(to) /\ Quiet(to) /\ Stay(to)
  BY CapEffect DEF IInv, Typed
<1>2. tx' = tx /\ type' = type /\ shared' = shared /\ drifted' = drifted /\ cap' = Cap
      /\ calls < MaxCalls /\ calls' = calls + 1
  BY DEF SetRevisionCap, Counted
<1>3. Typing
  BY <1>2, ContentAssumption DEF Typing, IInv, Typed, ContentAssumption
<1> QED
  BY <1>1, <1>2, <1>3, StandingStep

LEMMA MakeTranslatableStep ==
  ASSUME IInv, MakeTranslatable
  PROVE  IInv'
<1>1. Store(State) /\ Later(State) /\ Quiet(State) /\ Stay(State)
  BY StillState DEF IInv, Typed, MakeTranslatable
<1>2. tx' = tx /\ type' = type /\ shared' = FALSE /\ drifted' = drifted /\ cap' = cap
      /\ calls < MaxCalls /\ calls' = calls + 1
  BY DEF MakeTranslatable, Counted
<1>3. Typing
  BY <1>2, StoreTyping DEF IInv, Typed
<1> QED
  BY <1>1, <1>2, <1>3, StandingStep

\* Drafts are not switched off over a pending one.
LEMMA UpdateSettingsStep ==
  ASSUME IInv, UpdateSettings
  PROVE  IInv'
<1>1. PICK s \in Settings : /\ type' = s
                            /\ ~ s.drafts => \A l \in Present(rows) : rows[l].draft = 0
  BY DEF UpdateSettings
<1>2. UNCHANGED <<shared, cap, rows, revs, tx, drifted>> /\ calls' \in 0..MaxCalls
  BY ContentAssumption DEF UpdateSettings, Counted, IInv, Typed, ContentAssumption
<1>3. State' = State
  BY <1>2 DEF State
<1>4. Sound(State) /\ State.rows = rows
  BY StateIs DEF IInv, Typed
<1>5. \A l \in L : Has(State, l) => Resolves(State, l)'
  BY <1>1, <1>3, <1>4, StateIs DEF Sound, Resolves, Has
<1>6. Sound(State)'
  BY <1>3, <1>4, <1>5 DEF Sound, Has
<1>7. Typed'
  BY <1>1, <1>2, <1>6 DEF IInv, Typed, TxOK
<1>8. SharedAgrees'
  BY <1>2 DEF IInv, SharedAgrees, Copy
<1>9. \A w \in Writers : Saw(w)' /\ HoldsRows(w)' /\ Alone(w)' /\ ToggleKnows(w)'
  BY <1>2 DEF IInv, Saw, HoldsRows, HeldRows, Alone, Owns, Shares, ToggleKnows, Copy, OnRow
<1> QED
  BY <1>7, <1>8, <1>9 DEF IInv

LEMMA StutterStep == ASSUME IInv, UNCHANGED vars PROVE IInv'
<1>1. State' = State /\ UNCHANGED <<type, shared, cap, rows, revs, tx, calls, drifted>>
  BY DEF vars, State
<1>2. Sound(State)'
  BY <1>1 DEF Sound, Resolves, IInv, Typed
<1>3. Typed'
  BY <1>1, <1>2 DEF IInv, Typed, TxOK
<1>4. SharedAgrees'
  BY <1>1 DEF IInv, SharedAgrees, Copy
<1>5. \A w \in Writers : Saw(w)' /\ HoldsRows(w)' /\ Alone(w)' /\ ToggleKnows(w)'
  BY <1>1 DEF IInv, Saw, HoldsRows, HeldRows, Alone, Owns, Shares, ToggleKnows, Copy, OnRow
<1> QED
  BY <1>3, <1>4, <1>5 DEF IInv

LEMMA NextKeeps == ASSUME IInv, [Next]_vars PROVE IInv'
<1>1. ASSUME NEW w \in Writers,
             \/ SaveEntry(w) \/ RestoreRevision(w) \/ CallOnRow(w) \/ CreateTranslation(w) \/ ToggleShared(w)
             \/ Begin(w) \/ BeginToggle(w) \/ LockRows(w) \/ Abort(w)
      PROVE  IInv'
  BY <1>1, CallsStep, ToggleSharedStep, BeginStep, BeginToggleStep, LockRowsStep, AbortStep
<1>2. ASSUME NEW w \in Writers,
             CommitSave(w) \/ CommitLifecycle(w) \/ CommitDelete(w) \/ CommitTranslation(w) \/ CommitToggle(w)
      PROVE  IInv'
  BY <1>2, CommitSaveStep, CommitLifecycleStep, CommitDeleteStep, CommitTranslationStep, CommitToggleStep
<1>3. CASE CreateEntry \/ GetOrCreateSingleton \/ PurgeLocale
  BY <1>3, CreateEntryStep, GetOrCreateSingletonStep, PurgeLocaleStep
<1>4. CASE UpdateSettings \/ MakeTranslatable \/ SetRevisionCap
  BY <1>4, UpdateSettingsStep, MakeTranslatableStep, SetRevisionCapStep
<1>5. CASE Acquire \/ TakeOver \/ Lapse
  BY <1>5, LockStep
<1>6. CASE UNCHANGED vars
  BY <1>6, StutterStep
<1> QED
  BY <1>1, <1>2, <1>3, <1>4, <1>5, <1>6 DEF Next

-----------------------------------------------------------------------------
(* The group before the calls.                                             *)

LEMMA InitSound == ASSUME Init PROVE Sound(State) /\ SharedAgrees
<1>0. PICK pending \in {FALSE, type.drafts} : \E row \in StartRows(pending) :
        /\ revs = StartRevs(pending, row)
        /\ \E other \in {Absent, Row("draft", Data(93, IF shared THEN 1 ELSE 2))} :
             rows = [l \in L |-> IF l = Origin THEN row ELSE IF l = Locales[2] THEN other ELSE Absent]
  BY DEF Init
<1>1. PICK row \in StartRows(pending) :
        /\ revs = StartRevs(pending, row)
        /\ \E other \in {Absent, Row("draft", Data(93, IF shared THEN 1 ELSE 2))} :
             rows = [l \in L |-> IF l = Origin THEN row ELSE IF l = Locales[2] THEN other ELSE Absent]
  BY <1>0
<1>2. PICK other \in {Absent, Row("draft", Data(93, IF shared THEN 1 ELSE 2))} :
        rows = [l \in L |-> IF l = Origin THEN row ELSE IF l = Locales[2] THEN other ELSE Absent]
  BY <1>1
<1>3. Origin \in L
  BY ContentAssumption DEF Origin, L, Range, ContentAssumption
<1>4. type.drafts \in BOOLEAN
  BY ContentAssumption DEF ContentAssumption, Init
<1>5. /\ row \in RowSet /\ row.live \in {0, 1} /\ row.draft \in {0, 2} /\ row.data = Data(91, 1)
      /\ row.draft # 0 => type.drafts /\ row.status = "published"
  <2> DEFINE first == Row("draft", Data(91, 1))
             live == IF type.revisions = "off" THEN 0 ELSE 1
             public == [first EXCEPT !.status = "published", !.live = live]
             changed == [public EXCEPT !.draft = 2]
  <2>1. live \in {0, 1} /\ live \in Nat /\ Data(91, 1) \in Datum
    BY DEF Data, Datum, Values
  <2> HIDE DEF live
  <2>2. first \in RowSet /\ first.live = 0 /\ first.draft = 0 /\ first.data = Data(91, 1)
    BY <2>1 DEF Row, RowSet
  <2> HIDE DEF first
  <2>3. /\ public \in RowSet /\ public.live = live /\ public.draft = 0 /\ public.data = Data(91, 1)
        /\ public.status = "published"
    <3>1. first \in RowSet /\ live \in Nat
      BY <2>1, <2>2
    <3>2. public.live = live /\ public.draft = first.draft /\ public.data = first.data
          /\ public.status = "published"
      BY <3>1 DEF RowSet
    <3>3. public \in RowSet
      BY <3>1 DEF RowSet
    <3> HIDE DEF public
    <3> QED
      BY <2>2, <3>2, <3>3
  <2> HIDE DEF public
  <2>4. /\ changed \in RowSet /\ changed.live = live /\ changed.draft = 2 /\ changed.data = Data(91, 1)
        /\ changed.status = "published"
    BY <2>1, <2>3 DEF RowSet
  <2> HIDE DEF changed
  <2>5. IF pending THEN row = changed ELSE row = first \/ row = public
    BY <1>1 DEF StartRows, changed, public, first, live
  <2>6. CASE pending
    <3>1. type.drafts
      BY <1>0, <1>4, <2>6
    <3> QED
      BY <2>1, <2>4, <2>5, <2>6, <3>1
  <2>7. CASE ~ pending
    BY <2>1, <2>2, <2>3, <2>5, <2>7
  <2> QED
    BY <2>6, <2>7
<1>6. DOMAIN revs = {row.live, row.draft} \ {0} /\ IsFunction(revs)
      /\ \A r \in DOMAIN revs :
           /\ revs[r] \in RevSet /\ revs[r].locale = Origin /\ revs[r].data.value = 1
           /\ revs[r].kind = IF r = row.live THEN "publish" ELSE "save"
  BY <1>1, <1>3, <1>5 DEF StartRevs, RevSet, Datum, Data, Values, IsFunction
<1>7. Recordable(revs)
  <2>0. \A r \in DOMAIN revs : r = 1 \/ r = 2
    BY <1>5, <1>6
  <2>1. DOMAIN revs \subseteq 1..2 /\ IsFiniteSet(1..2)
    <3>1. \A r \in DOMAIN revs : r \in 1..2
      BY <2>0
    <3>2. IsFiniteSet(1..2)
      <4>1. 1 \in Int /\ 2 \in Int
        OBVIOUS
      <4> QED
        BY <4>1, FS_Interval, Zenon
    <3> QED
      BY <3>1, <3>2
  <2>2. IsFiniteSet(DOMAIN revs)
    BY <2>1, FS_Subset
  <2> QED
    BY <1>6, <2>1, <2>2 DEF Recordable
<1>8. other = Absent \/ (other \in RowSet /\ other.draft = 0 /\ other.live = 0)
  <2> DEFINE data == Data(93, IF shared THEN 1 ELSE 2)
  <2>1. data \in Datum
    BY DEF Data, Datum, Values
  <2>2. other \in {Absent, Row("draft", data)}
    BY <1>2
  <2> HIDE DEF data
  <2>3. Row("draft", data) \in RowSet /\ Row("draft", data).draft = 0 /\ Row("draft", data).live = 0
    BY <2>1 DEF Row, RowSet
  <2> QED
    BY <2>2, <2>3
<1>9. State.rows = rows /\ State.revs = revs
  BY StateIs
<1>10. \A l \in L : rows[l] = Absent \/ (rows[l] \in RowSet /\ Resolves(State, l))
  <2> TAKE l \in L
  <2>1. CASE l = Origin
    <3>1. rows[l] = row
      BY <1>2, <2>1
    <3>2. row.draft # 0 => row.draft # row.live
      BY <1>5
    <3> QED
      BY <1>5, <1>6, <1>9, <2>1, <3>1, <3>2 DEF Resolves
  <2>2. CASE l # Origin
    <3>1. rows[l] \in {other, Absent}
      BY <1>2, <2>2
    <3> QED
      BY <1>8, <1>9, <3>1 DEF Resolves
  <2> QED
    BY <2>1, <2>2
<1>11. Sound(State)
  BY <1>2, <1>7, <1>9, <1>10 DEF Sound, IsFunction
<1>12. Copy(Origin).value = 1
  <2>1. rows[Origin] = row
    BY <1>2, <1>3
  <2> QED
    BY <1>5, <1>6, <2>1 DEF Copy, CopyIn, Data
<1>13. SharedAgrees
  <2> SUFFICES ASSUME shared, NEW l \in Present(rows) PROVE Copy(l).value = 1
    BY DEF SharedAgrees
  <2>1. CASE l = Origin
    BY <1>12, <2>1
  <2>2. CASE l # Origin
    <3>1. rows[l] = other /\ other # Absent
      BY <1>2, <2>2 DEF Present
    <3>2. other = Row("draft", Data(93, 1))
      BY <1>2, <3>1
    <3> QED
      BY <3>1, <3>2 DEF Copy, CopyIn, Row, Data
  <2> QED
    BY <2>1, <2>2
<1> QED
  BY <1>11, <1>13

LEMMA InitHolds == Init => IInv
<1> SUFFICES ASSUME Init PROVE IInv
  OBVIOUS
<1>1. tx = [w \in Writers |-> Idle]
  BY DEF Init
<1>2. TxOK
  BY <1>1, IdleIs DEF TxOK, IsFunction
<1>3. Typed
  <2>1. Sound(State)
    BY InitSound
  <2>2. type \in Settings /\ shared \in BOOLEAN /\ drifted = FALSE /\ cap = 0 /\ calls = 0
    BY DEF Init
  <2>3. MaxCalls \in Nat
    BY ContentAssumption DEF ContentAssumption
  <2>4. calls \in 0..MaxCalls
    <3>1. calls = 0
      BY <2>2
    <3> QED
      BY <2>3, <3>1
  <2>5. cap \in {0, Cap} /\ drifted \in BOOLEAN
    BY <2>2, Zenon
  <2> QED
    BY <1>2, <2>1, <2>2, <2>4, <2>5 DEF Typed
<1>4. ASSUME NEW w \in Writers PROVE Saw(w) /\ HoldsRows(w) /\ ~ Owns(w)
  BY <1>1, IdleIs DEF Saw, HoldsRows, HeldRows, Owns, OnRow, RowOps
<1> QED
  BY <1>3, <1>4, InitSound DEF IInv, Alone, ToggleKnows

LEMMA AlwaysIInv == Spec => []IInv
<1>1. Init => IInv
  BY InitHolds
<1>2. IInv /\ [Next]_vars => IInv'
  BY NextKeeps
<1> QED
  BY <1>1, <1>2, PTL DEF Spec

\* Of any locales, accounts and settings: pointers resolve, a pending draft
\* waits only where it would go live, and what a group shares agrees (save.ts,
\* publish.ts, lifecycle.ts, translations.ts, field-translatable.ts).
THEOREM EntryHolds == Spec => []EntryInv
<1>1. IInv => EntryInv
  <2> SUFFICES ASSUME IInv PROVE EntryInv
    OBVIOUS
  <2>1. \A l \in Present(rows) : rows[l] \in RowSet /\ Resolves(State, l)
    BY StateIs DEF IInv, Typed, Sound, Has, Present
  <2>2. PointersResolve
    BY <2>1, StateIs DEF PointersResolve, Resolves
  <2>3. TypeOK
    BY <2>1, StateIs DEF IInv, Typed, Sound, Recordable, RevSet, RowSet, RowType, TypeOK, TxOK, Shaped
  <2> QED
    BY <2>2, <2>3 DEF EntryInv, IInv
<1> QED
  BY <1>1, AlwaysIInv, PTL

-----------------------------------------------------------------------------
(* The action properties.                                                  *)

\* Only the commit of a transaction ends it and writes.
LEMMA WhoCommits ==
  ASSUME IInv, [Next]_vars, NEW w \in Writers, tx[w].pc = "held", tx'[w] = Idle, rows' # rows
  PROVE  CommitSave(w) \/ CommitLifecycle(w) \/ CommitDelete(w) \/ CommitTranslation(w) \/ CommitToggle(w)
<1>1. tx[w] # Idle /\ Shaped(tx[w])
  BY IdleIs DEF IInv, Typed, TxOK
<1>2. ASSUME NEW u \in Writers \ {w}, NEW t, Set(u, t) PROVE FALSE
  BY <1>1, <1>2 DEF Set, IInv, Typed, TxOK
<1>3. ASSUME NEW l, tx'[w] = Missed(l)[w] PROVE FALSE
  <2>1. tx'[w] = [tx[w] EXCEPT !.found = @ \ {l}]
    BY <1>3 DEF Missed
  <2>2. tx'[w].pc = "held"
    BY <1>1, <2>1 DEF Shaped, TxParts
  <2> QED
    BY <2>2, IdleIs
<1>4. ASSUME NEW u \in Writers,
             \/ SaveEntry(u) \/ RestoreRevision(u) \/ CallOnRow(u) \/ CreateTranslation(u) \/ ToggleShared(u)
             \/ Begin(u) \/ BeginToggle(u) \/ LockRows(u) \/ Abort(u)
      PROVE  FALSE
  BY <1>4 DEF SaveEntry, RestoreRevision, CallOnRow, CreateTranslation, ToggleShared, Called,
              Begin, BeginToggle, LockRows, Abort
<1>5. ASSUME NEW u \in Writers \ {w},
             CommitSave(u) \/ CommitLifecycle(u) \/ CommitTranslation(u) \/ CommitToggle(u)
      PROVE  FALSE
  BY <1>2, <1>5 DEF CommitSave, CommitLifecycle, CommitTranslation, CommitToggle, Ended
<1>6. ASSUME NEW u \in Writers \ {w}, CommitDelete(u) PROVE FALSE
  <2> DEFINE missed == Missed(tx[u].locale)
  <2>1. tx' = [missed EXCEPT ![u] = Idle] /\ DOMAIN missed = Writers
    BY <1>6 DEF CommitDelete, Missed
  <2>2. tx'[w] = missed[w]
    <3> HIDE DEF missed
    <3> QED
      BY <2>1
  <2> QED
    BY <1>3, <2>2
<1>7. CASE PurgeLocale
  <2>1. PICK l \in Present(rows) : tx' = Missed(l)
    BY <1>7 DEF PurgeLocale
  <2> QED
    BY <1>3, <2>1
<1>8. CASE CreateEntry \/ GetOrCreateSingleton \/ SetRevisionCap \/ Acquire \/ TakeOver \/ Lapse
  BY <1>1, <1>8 DEF CreateEntry, GetOrCreateSingleton, SetRevisionCap, Acquire, TakeOver, Lapse
<1>9. CASE UpdateSettings \/ MakeTranslatable \/ UNCHANGED vars
  BY <1>9 DEF UpdateSettings, MakeTranslatable, vars
<1> QED
  BY <1>4, <1>5, <1>6, <1>7, <1>8, <1>9 DEF Next

LEMMA CommitOfRow ==
  ASSUME IInv, [Next]_vars, NEW w \in Writers, Commits(w, OnRow)
  PROVE  /\ CommitSave(w) \/ CommitLifecycle(w) \/ CommitDelete(w)
         /\ Current(w, tx[w].locale) /\ tx[w].locale \in Present(rows)
<1>1. CommitSave(w) \/ CommitLifecycle(w) \/ CommitDelete(w)
  BY WhoCommits DEF Commits, OnRow, RowOps, CommitTranslation, CommitToggle
<1>2. Current(w, tx[w].locale)
  BY <1>1 DEF CommitSave, CommitLifecycle, CommitDelete
<1>3. tx[w].locale \in Present(rows)
  BY <1>2 DEF Current, Commits, IInv, HoldsRows, HeldRows
<1> QED
  BY <1>1, <1>2, <1>3

LEMMA CommitSawIt ==
  ASSUME IInv, [Next]_vars, NEW w \in Writers
  PROVE  /\ Commits(w, OnRow) => Copy(tx[w].locale) = tx[w].seen
         /\ (Commits(w, {"save"}) /\ rows'[tx[w].locale].data # rows[tx[w].locale].data
               /\ rows[tx[w].locale].status = "published") => tx[w].publishes
<1>1. ASSUME Commits(w, OnRow) PROVE Copy(tx[w].locale) = tx[w].seen
  <2>1. Current(w, tx[w].locale)
    BY <1>1, CommitOfRow
  <2>2. Saw(w)
    BY DEF IInv
  <2> QED
    BY <1>1, <2>1, <2>2 DEF Saw, Current, Commits
<1>2. ASSUME Commits(w, {"save"}), rows'[tx[w].locale].data # rows[tx[w].locale].data,
             rows[tx[w].locale].status = "published"
      PROVE  tx[w].publishes
  <2>1. CommitSave(w)
    BY <1>2, WhoCommits DEF Commits, RowOps, CommitLifecycle, CommitDelete, CommitTranslation, CommitToggle
  <2>2. PICK to : SaveOutcome(w, to)
    BY <2>1, SaveDoes
  <2>3. Stages(rows[tx[w].locale]) => rows'[tx[w].locale].data = rows[tx[w].locale].data
    BY <2>2 DEF SaveOutcome, SaveWrites, Store
  <2>4. ~ type.drafts
    BY <1>2, <2>3 DEF Stages
  <2> QED
    BY <1>2, <2>1, <2>4 DEF CommitSave, AsDecided, GoesLive
<1> QED
  BY <1>1, <1>2

\* Nothing is written over, made public, put away or deleted that its caller
\* has not seen as it is (save.ts, publish.ts, lifecycle.ts).
THEOREM OnlyWhatWasSeen == Spec => WritesWhatWasSeen
<1>1. IInv /\ [Next]_vars =>
        \A w \in Writers :
          /\ Commits(w, {"save", "delete"} \cup RowOps) => Copy(tx[w].locale) = tx[w].seen
          /\ (Commits(w, {"save"}) /\ rows'[tx[w].locale].data # rows[tx[w].locale].data
                /\ rows[tx[w].locale].status = "published") => tx[w].publishes
  BY CommitSawIt DEF OnRow
<1> QED
  BY <1>1, AlwaysIInv, PTL DEF Spec, WritesWhatWasSeen

LEMMA CommitSpares ==
  ASSUME IInv, [Next]_vars, NEW w \in Writers, Commits(w, OnRow),
         NEW l \in Present(rows), ~ Writable(w, l)
  PROVE  rows'[l] = rows[l]
<1>1. Writable(w, tx[w].locale) /\ tx[w].locale \in Present(rows)
  BY CommitOfRow DEF Current
<1>2. l # tx[w].locale /\ l \in L
  BY <1>1 DEF Present
<1>3. CASE CommitSave(w)
  <2>1. PICK to : SaveOutcome(w, to)
    BY <1>3, SaveDoes
  <2>2. l \notin Siblings(w)
    BY <1>3 DEF CommitSave, SiblingsWritable
  <2>3. Same(State, to, l)
    BY <1>2, <2>1, <2>2 DEF SaveOutcome, SaveWrites
  <2> QED
    BY <2>1, <2>3, StateIs DEF SaveOutcome, Store, Same
<1>4. CASE CommitLifecycle(w)
  <2>1. PICK to : Store(to) /\ Same(State, to, l)
    BY <1>2, <1>4, LifecycleOutcome
  <2> QED
    BY <2>1, StateIs DEF Store, Same
<1>5. CASE CommitDelete(w)
  <2>1. Gone(tx[w].locale)
    BY <1>5, DeleteOutcome
  <2>2. PICK to : Store(to) /\ Same(State, to, l)
    BY <1>1, <1>2, <2>1, GoneEffect DEF IInv, Typed
  <2> QED
    BY <2>2, StateIs DEF Store, Same
<1> QED
  BY <1>3, <1>4, <1>5, CommitOfRow

\* While somebody else edits a row, no save, of the row or of another locale,
\* and no lifecycle operation touches it (locks.ts, assertRowsWritable).
THEOREM LocksDoShield == Spec => LocksShield
<1>1. IInv /\ [Next]_vars =>
        \A w \in Writers : Commits(w, {"save", "delete"} \cup RowOps) =>
          \A l \in Present(rows) : ~ Writable(w, l) => rows'[l] = rows[l]
  BY CommitSpares DEF OnRow
<1> QED
  BY <1>1, AlwaysIInv, PTL DEF Spec, LocksShield

KeptAt(l) ==
  /\ CopyIn(rows', revs', l) # Copy(l) =>
       \E w \in Writers :
         \/ Commits(w, {"save"}) /\ tx[w].locale = l
         \/ Commits(w, {"save", "toggle"}) /\ CopyIn(rows', revs', l).text = Copy(l).text
  /\ (/\ type.drafts /\ rows[l].status = "published"
      /\ rows'[l].status = "published" /\ rows'[l].data # rows[l].data) =>
       \E w \in Writers : Commits(w, {"publish"}) /\ tx[w].locale = l

LEMMA QuietKeepsCopies ==
  ASSUME NEW to, Store(to), Quiet(to), NEW l \in Present(rows), l \in Present(rows'), ShownAt(to, l)
  PROVE  KeptAt(l)
<1>1. l \in L /\ Has(State, l) /\ Has(to, l) /\ CopyIn(rows', revs', l) = CopyOf(to, l)
  BY StateIs, StoredIs DEF Present
<1>2. CopyIn(rows', revs', l) = Copy(l)
  BY <1>1 DEF Quiet
<1>3. (type.drafts /\ rows[l].status = "published" /\ rows'[l].status = "published") =>
        rows'[l].data = rows[l].data
  BY <1>1 DEF ShownAt, Store
<1> QED
  BY <1>2, <1>3 DEF KeptAt

LEMMA SaveKeepsCopies ==
  ASSUME IInv, NEW w \in Writers, CommitSave(w), NEW l \in Present(rows), l \in Present(rows')
  PROVE  KeptAt(l)
<1>1. PICK to : SaveOutcome(w, to)
  BY SaveDoes
<1>2. /\ Store(to) /\ Shown(to) /\ to.rows[tx[w].locale].version = rows[tx[w].locale].version + 1
      /\ \A k \in Siblings(w) : /\ CopyOf(to, k) = [Copy(k) EXCEPT !.value = tx[w].input.value]
                                /\ to.rows[k] # rows[k] \/ CopyOf(to, k) = Copy(k)
      /\ \A k \in L \ (Siblings(w) \cup {tx[w].locale}) : Same(State, to, k)
  BY <1>1 DEF SaveOutcome, SaveWrites
<1>3. l \in L /\ Has(State, l) /\ Has(to, l) /\ CopyIn(rows', revs', l) = CopyOf(to, l)
      /\ rows' = to.rows
  BY <1>2, StateIs, StoredIs DEF Present, Store
<1>4. (type.drafts /\ rows[l].status = "published" /\ rows'[l].status = "published") =>
        rows'[l].data = rows[l].data
  BY <1>2, <1>3 DEF Shown, ShownAt
<1>5. tx[w].pc = "held" /\ tx[w].op = "save" /\ tx'[w] = Idle
  <2>1. TxOK' /\ tx'[w] = Idle
    BY IdleIs, SetKeeps DEF CommitSave, Ended, IInv, Typed
  <2> QED
    BY <2>1 DEF CommitSave
<1>6. ASSUME CopyOf(to, l) # Copy(l)
      PROVE  \/ Commits(w, {"save"}) /\ tx[w].locale = l
             \/ Commits(w, {"save", "toggle"}) /\ CopyOf(to, l).text = Copy(l).text
  <2>1. CASE l = tx[w].locale
    <3>1. rows[l].version \in Nat
      BY <1>3, StateIs, VersionsAreNumbers DEF IInv, Typed
    <3>2. rows'[l].version # rows[l].version
      BY <1>2, <1>3, <2>1, <3>1
    <3>3. rows' # rows
      BY <3>2
    <3> QED
      BY <1>5, <2>1, <3>3 DEF Commits
  <2>2. CASE l \in Siblings(w)
    <3>1. rows' # rows
      BY <1>2, <1>3, <1>6, <2>2
    <3>2. Copy(l) \in Datum
      BY <1>3, StateIs, CopyIsData DEF IInv, Typed
    <3>3. CopyOf(to, l).text = Copy(l).text
      BY <1>2, <2>2, <3>2 DEF Datum
    <3> QED
      BY <1>5, <3>1, <3>3 DEF Commits
  <2>3. CASE l \notin Siblings(w) \cup {tx[w].locale}
    BY <1>2, <1>3, <1>6, <2>3, StateIs DEF Same
  <2> QED
    BY <2>1, <2>2, <2>3
<1> QED
  BY <1>3, <1>4, <1>6 DEF KeptAt

LEMMA ToggleKeepsCopies ==
  ASSUME IInv, NEW w \in Writers, CommitToggle(w), NEW l \in Present(rows), l \in Present(rows')
  PROVE  KeptAt(l)
<1>1. PICK to : ToggleWrites(w, to)
  BY ToggleDoes
<1>2. l \in L /\ Has(State, l) /\ Has(to, l) /\ CopyIn(rows', revs', l) = CopyOf(to, l)
      /\ rows' = to.rows
  BY <1>1, StateIs, StoredIs DEF Present, Store, ToggleWrites
<1>3. (type.drafts /\ rows[l].status = "published" /\ rows'[l].status = "published") =>
        rows'[l].data = rows[l].data
  BY <1>1, <1>2 DEF Shown, ShownAt, ToggleWrites
<1>4. tx[w].pc = "held" /\ tx[w].op = "toggle" /\ tx'[w] = Idle
  <2>1. TxOK' /\ tx'[w] = Idle
    BY IdleIs, SetKeeps DEF CommitToggle, Ended, IInv, Typed
  <2> QED
    BY <2>1 DEF CommitToggle
<1>5. ASSUME CopyOf(to, l) # Copy(l)
      PROVE  Commits(w, {"save", "toggle"}) /\ CopyOf(to, l).text = Copy(l).text
  <2>1. CASE l \in tx[w].found
    <3>1. rows' # rows
      BY <1>1, <1>2, <1>5, <2>1 DEF ToggleWrites
    <3>2. Copy(l) \in Datum
      BY <1>2, StateIs, CopyIsData DEF IInv, Typed
    <3>3. CopyOf(to, l).text = Copy(l).text
      BY <1>1, <2>1, <3>2 DEF Datum, ToggleWrites
    <3> QED
      BY <1>4, <3>1, <3>3 DEF Commits
  <2>2. CASE l \notin tx[w].found
    BY <1>1, <1>2, <1>5, <2>2, StateIs DEF Same, ToggleWrites
  <2> QED
    BY <2>1, <2>2
<1> QED
  BY <1>2, <1>3, <1>5 DEF KeptAt

LEMMA LifecycleKeepsCopies ==
  ASSUME IInv, NEW w \in Writers, CommitLifecycle(w), NEW l \in Present(rows), l \in Present(rows')
  PROVE  KeptAt(l)
<1>1. PICK to : /\ Store(to) /\ Quiet(to)
                /\ \A k \in L \ {tx[w].locale} : Same(State, to, k) /\ ShownAt(to, k)
                /\ tx[w].op # "publish" => Shown(to)
  BY LifecycleOutcome
<1>2. l \in L
  BY DEF Present
<1>3. CASE ShownAt(to, l)
  BY <1>1, <1>3, QuietKeepsCopies
<1>4. CASE ~ ShownAt(to, l)
  <2>1. tx[w].op = "publish" /\ tx[w].locale = l
    BY <1>1, <1>2, <1>4 DEF Shown
  <2>2. rows' # rows
    BY <1>1, <1>4 DEF ShownAt, Store
  <2>3. tx'[w] = Idle /\ tx[w].pc = "held"
    BY IdleIs, SetKeeps DEF CommitLifecycle, Ended, IInv, Typed
  <2>4. Commits(w, {"publish"})
    BY <2>1, <2>2, <2>3 DEF Commits
  <2>5. CopyIn(rows', revs', l) = Copy(l)
    BY <1>1, <1>2, StoredIs DEF Quiet
  <2> QED
    BY <2>1, <2>4, <2>5 DEF KeptAt
<1> QED
  BY <1>3, <1>4

LEMMA CreationKeepsCopies ==
  ASSUME NEW l \in Present(rows), NEW k \in L \ Present(rows), NEW row,
         rows' = [rows EXCEPT ![k] = row], revs' = revs
  PROVE  KeptAt(l)
<1>1. rows'[l] = rows[l] /\ CopyIn(rows', revs', l) = Copy(l)
  BY DEF Present, Copy, CopyIn
<1> QED
  BY <1>1 DEF KeptAt

LEMMA StepKeepsCopies ==
  ASSUME IInv, [Next]_vars, NEW l \in Present(rows), l \in Present(rows')
  PROVE  KeptAt(l)
<1>1. l \in L
  BY DEF Present
<1>2. ASSUME UNCHANGED <<rows, revs>> PROVE KeptAt(l)
  BY <1>2 DEF KeptAt, Copy
<1>3. ASSUME NEW w \in Writers,
             \/ SaveEntry(w) \/ RestoreRevision(w) \/ CallOnRow(w) \/ CreateTranslation(w) \/ ToggleShared(w)
             \/ Begin(w) \/ BeginToggle(w) \/ LockRows(w) \/ Abort(w)
      PROVE  KeptAt(l)
  BY <1>2, <1>3 DEF SaveEntry, RestoreRevision, CallOnRow, CreateTranslation, ToggleShared, Called,
                    Begin, BeginToggle, LockRows, Abort
<1>4. ASSUME NEW w \in Writers, CommitSave(w) \/ CommitLifecycle(w) \/ CommitToggle(w)
      PROVE  KeptAt(l)
  BY <1>4, SaveKeepsCopies, LifecycleKeepsCopies, ToggleKeepsCopies
<1>5. ASSUME NEW k \in Present(rows), Gone(k) PROVE KeptAt(l)
  <2>1. PICK to : Store(to) /\ Quiet(to) /\ Shown(to)
    BY <1>5, GoneEffect DEF IInv, Typed
  <2> QED
    BY <1>1, <2>1, QuietKeepsCopies DEF Shown
<1>6. ASSUME NEW w \in Writers, CommitDelete(w) PROVE KeptAt(l)
  BY <1>5, <1>6, DeleteOutcome
<1>7. CASE PurgeLocale
  BY <1>5, <1>7 DEF PurgeLocale
<1>8. ASSUME NEW w \in Writers, CommitTranslation(w) PROVE KeptAt(l)
  <2>1. revs' = revs /\ \E k \in L \ Present(rows) : \E row : rows' = [rows EXCEPT ![k] = row]
    BY <1>8 DEF CommitTranslation
  <2> QED
    BY <2>1, CreationKeepsCopies
<1>9. CASE CreateEntry
  BY <1>9 DEF CreateEntry
<1>10. CASE GetOrCreateSingleton
  <2>1. revs' = revs /\ \E k \in L \ Present(rows) : \E row : rows' = [rows EXCEPT ![k] = row]
    BY <1>10 DEF GetOrCreateSingleton
  <2> QED
    BY <2>1, CreationKeepsCopies
<1>11. CASE SetRevisionCap \/ Acquire \/ TakeOver \/ Lapse
  <2>1. PICK to : Store(to) /\ Quiet(to) /\ Shown(to)
    BY <1>11, CapEffect, LockEffect DEF IInv, Typed
  <2> QED
    BY <1>1, <2>1, QuietKeepsCopies DEF Shown
<1>12. CASE UpdateSettings \/ MakeTranslatable \/ UNCHANGED vars
  BY <1>2, <1>12 DEF UpdateSettings, MakeTranslatable, vars
<1> QED
  BY <1>3, <1>4, <1>6, <1>7, <1>8, <1>9, <1>10, <1>11, <1>12 DEF Next

\* Nobody loses what they saved, and what readers see of a published row stays
\* until it is published again while the type has drafts (save.ts, publish.ts,
\* lifecycle.ts, settings.ts, revisions.ts).
THEOREM CopiesAreKept == Spec => CopiesKept
<1>1. IInv /\ [Next]_vars => \A l \in Present(rows) : l \in Present(rows') => KeptAt(l)
  BY StepKeepsCopies
<1>2. IInv /\ [Next]_vars =>
        \A l \in Present(rows) : l \in Present(rows') =>
          /\ CopyIn(rows', revs', l) # Copy(l) =>
               \E w \in Writers :
                 \/ Commits(w, {"save"}) /\ tx[w].locale = l
                 \/ Commits(w, {"save", "toggle"}) /\ CopyIn(rows', revs', l).text = Copy(l).text
          /\ (/\ type.drafts /\ rows[l].status = "published"
              /\ rows'[l].status = "published" /\ rows'[l].data # rows[l].data) =>
               \E w \in Writers : Commits(w, {"publish"}) /\ tx[w].locale = l
  BY <1>1 DEF KeptAt
<1> QED
  BY <1>2, AlwaysIInv, PTL DEF Spec, CopiesKept
=============================================================================
