------------------------- MODULE SaveRunner_proofs -------------------------
(***************************************************************************)
(* For any acts, blocks and number of retries: what the server accepts is  *)
(* made on what the editor has seen; the queue never stalls; no act is     *)
(* carried out twice or before one that came first; and "saved" means that *)
(* everything has been carried out, refused or made pointless.             *)
(*                                                                         *)
(* The invariant follows each act from the queue over the requests in the  *)
(* air to the page.  Of the queue, only the entry that goes next may have  *)
(* been sent before, and it is sent again at the same version of the page: *)
(* one request that arrives makes all others too old.                      *)
(***************************************************************************)
EXTENDS SaveRunner, SequenceTheorems, FiniteSetTheorems, TLAPS

USE SaveQueueAssumption, SaveRunnerAssumption

-----------------------------------------------------------------------------
(* What the queue holds.                                                   *)

\* The acts of the entry that goes next, or is on its way, and those after it.
First(q) ==
  {a \in Acts : \/ \E i \in DOMAIN q.inFlight : a \in q.inFlight[i].acts
                \/ q.inFlight = <<>> /\ \E i \in DOMAIN q.entries : i = 1 /\ a \in q.entries[i].acts}
Later(q) ==
  {a \in Acts : \E i \in DOMAIN q.entries :
                  (q.inFlight # <<>> \/ i # 1) /\ a \in q.entries[i].acts}
Pending(q) == First(q) \cup Later(q)

\* Of two acts on a block, a was performed first, in the order p.
Before(p, a, c) ==
  /\ BlockOf[a] = BlockOf[c]
  /\ \E m, n \in DOMAIN p : m < n /\ p[m] = a /\ p[n] = c

WellShaped(e) == e.acts # {} /\ \A a \in e.acts : KindOf[a] = e.kind /\ BlockOf[a] = e.block
Follows(p, f, e) ==
  \A a \in e.acts, c \in f.acts : BlockOf[a] = BlockOf[c] => Before(p, a, c)

Typed(q) == q \in Queue(Seq(Entries)) /\ Len(q.inFlight) <= 1
Shaped(q) ==
  /\ \A i \in DOMAIN q.entries : WellShaped(q.entries[i])
  /\ \A i \in DOMAIN q.inFlight : WellShaped(q.inFlight[i])
Ordered(p, q) ==
  /\ \A i, j \in DOMAIN q.entries : i < j => Follows(p, q.entries[j], q.entries[i])
  /\ \A i \in DOMAIN q.inFlight, j \in DOMAIN q.entries : Follows(p, q.entries[j], q.inFlight[i])
Consistent(q) ==
  /\ Held(q) => q.inFlight = <<>>
  /\ q.status = "saved" => ~HasPending(q)
Sound(p, q) == Typed(q) /\ Shaped(q) /\ Ordered(p, q) /\ Consistent(q)

\* Two queues that hold the same entries, ready or not.
SameEntry(e, f) == e.kind = f.kind /\ e.block = f.block /\ e.acts = f.acts
SameHeld(q, r) ==
  /\ r.inFlight = q.inFlight /\ Len(r.entries) = Len(q.entries)
  /\ \A i \in DOMAIN q.entries : SameEntry(q.entries[i], r.entries[i])

LEMMA TypedParts ==
  ASSUME NEW q, Typed(q)
  PROVE  /\ q.entries \in Seq(Entries) /\ q.inFlight \in Seq(Entries)
         /\ Len(q.entries) \in Nat /\ DOMAIN q.entries = 1..Len(q.entries)
         /\ DOMAIN q.inFlight = 1..Len(q.inFlight)
         /\ q.inFlight # <<>> <=> Len(q.inFlight) = 1
         /\ q.inFlight # <<>> <=> DOMAIN q.inFlight = {1}
         /\ q.inFlight = <<>> <=> DOMAIN q.inFlight = {}
         /\ \A i \in DOMAIN q.entries : q.entries[i] \in Entries
         /\ \A i \in DOMAIN q.inFlight : q.inFlight[i] \in Entries
         /\ q.entries = <<>> <=> Len(q.entries) = 0
<1>1. q.entries \in Seq(Entries) /\ q.inFlight \in Seq(Entries) /\ Len(q.inFlight) <= 1
  BY DEF Typed, Queue
<1>2. /\ Len(q.entries) \in Nat /\ DOMAIN q.entries = 1..Len(q.entries)
      /\ Len(q.inFlight) \in Nat /\ DOMAIN q.inFlight = 1..Len(q.inFlight)
  BY <1>1, LenProperties
<1>3. \A i \in DOMAIN q.entries : q.entries[i] \in Entries
  BY <1>1, <1>2, ElementOfSeq
<1>4. \A i \in DOMAIN q.inFlight : q.inFlight[i] \in Entries
  BY <1>1, <1>2, ElementOfSeq
<1>5. /\ q.inFlight # <<>> <=> Len(q.inFlight) = 1
      /\ q.entries = <<>> <=> Len(q.entries) = 0
  <2>0. q.inFlight # <<>> => Len(q.inFlight) # 0
    BY <1>1, EmptySeq
  <2>1. q.inFlight # <<>> => Len(q.inFlight) = 1
    <3>1. \A n \in Nat : n <= 1 /\ n # 0 => n = 1
      OBVIOUS
    <3> QED
      BY <1>1, <1>2, <2>0, <3>1, Zenon
  <2>2. q.entries # <<>> => Len(q.entries) # 0
    BY <1>1, <1>2, EmptySeq
  <2>3. Len(<<>>) = 0
    BY EmptySeq
  <2>4. q.inFlight = <<>> => Len(q.inFlight) # 1
    BY <2>3
  <2>5. q.entries = <<>> => Len(q.entries) = 0
    BY <2>3
  <2> QED
    BY <2>1, <2>2, <2>4, <2>5, Zenon
<1>6. /\ q.inFlight # <<>> => DOMAIN q.inFlight = {1}
      /\ q.inFlight = <<>> => DOMAIN q.inFlight = {}
  <2>1. 1..1 = {1} /\ 1..0 = {}
    OBVIOUS
  <2>2. q.inFlight = <<>> => Len(q.inFlight) = 0
    BY EmptySeq
  <2> QED
    BY <1>2, <1>5, <2>1, <2>2
<1> QED
  BY <1>1, <1>2, <1>3, <1>4, <1>5, <1>6

LEMMA SameHeldSame ==
  ASSUME NEW q, NEW r, NEW p, Typed(q), Typed(r), SameHeld(q, r)
  PROVE  /\ First(r) = First(q) /\ Later(r) = Later(q) /\ Pending(r) = Pending(q)
         /\ Shaped(q) => Shaped(r)
         /\ Ordered(p, q) => Ordered(p, r)
         /\ HasPending(r) <=> HasPending(q)
<1>1. DOMAIN r.entries = DOMAIN q.entries
  BY TypedParts DEF SameHeld
<1>2. First(r) = First(q) /\ Later(r) = Later(q)
  BY <1>1 DEF First, Later, SameHeld, SameEntry
<1>3. Shaped(q) => Shaped(r)
  BY <1>1 DEF Shaped, WellShaped, SameHeld, SameEntry
<1>4. Ordered(p, q) => Ordered(p, r)
  BY <1>1 DEF Ordered, Follows, SameHeld, SameEntry
<1>5. HasPending(r) <=> HasPending(q)
  BY TypedParts DEF HasPending, SameHeld
<1> QED
  BY <1>2, <1>3, <1>4, <1>5 DEF Pending

\* Making entries ready changes nothing else.
LEMMA ReadyKeeps ==
  ASSUME NEW q, Typed(q), NEW S
  PROVE  LET r == [q EXCEPT !.entries = MadeReady(q.entries, S)]
         IN /\ Typed(r) /\ SameHeld(q, r)
            /\ r.status = q.status /\ r.lastFailure = q.lastFailure
            /\ r.pauseReason = q.pauseReason
            /\ \A i \in DOMAIN q.entries : r.entries[i].ready <=> (q.entries[i].ready \/ i \in S)
<1> DEFINE s == MadeReady(q.entries, S)
           r == [q EXCEPT !.entries = s]
<1>1. \A i \in DOMAIN q.entries :
        /\ s[i] \in Entries /\ SameEntry(q.entries[i], s[i])
        /\ s[i].ready <=> (q.entries[i].ready \/ i \in S)
  <2> SUFFICES ASSUME NEW i \in DOMAIN q.entries
               PROVE  /\ s[i] \in Entries /\ SameEntry(q.entries[i], s[i])
                      /\ s[i].ready <=> (q.entries[i].ready \/ i \in S)
    OBVIOUS
  <2> DEFINE e == q.entries[i]
  <2>1. s[i] = [e EXCEPT !.ready = e.ready \/ i \in S]
    BY DEF MadeReady
  <2>2. e \in Entries
    BY TypedParts
  <2> HIDE DEF e, s
  <2>3. s[i] \in Entries /\ SameEntry(e, s[i]) /\ s[i].ready = (e.ready \/ i \in S)
    BY <2>1, <2>2 DEF Entries, SameEntry
  <2> QED
    BY <2>3 DEF e
<1>2. DOMAIN s = 1..Len(q.entries)
  BY TypedParts DEF MadeReady
<1>3. s \in [1..Len(q.entries) -> Entries]
  BY <1>1, <1>2, TypedParts DEF MadeReady
<1>4. s \in Seq(Entries) /\ Len(s) = Len(q.entries)
  BY <1>3, TypedParts, SeqDef
<1>5. q = [entries |-> q.entries, inFlight |-> q.inFlight, status |-> q.status,
           lastFailure |-> q.lastFailure, pauseReason |-> q.pauseReason]
  BY DEF Typed, Queue
<1> HIDE DEF s
<1>6. /\ r \in Queue(Seq(Entries)) /\ r.inFlight = q.inFlight /\ r.entries = s
      /\ r.status = q.status /\ r.lastFailure = q.lastFailure /\ r.pauseReason = q.pauseReason
  BY <1>4 DEF Typed, Queue
<1> QED
  BY <1>1, <1>4, <1>6, TypedParts DEF Typed, SameHeld, s

\* What is performed later comes later: an act joins the queue behind all acts
\* on its block.
LEMMA BeforeGrows ==
  ASSUME NEW p \in Seq(Acts), NEW x \in Acts,
         NEW a \in Acts, NEW c \in Acts
  PROVE  LET p2 == Append(p, x)
         IN /\ Before(p, a, c) => Before(p2, a, c)
            /\ Before(p2, a, c) /\ c # x => Before(p, a, c)
            /\ BlockOf[a] = BlockOf[x] /\ (\E n \in DOMAIN p : p[n] = a) => Before(p2, a, x)
            /\ (\A n \in DOMAIN p : p[n] # x) /\ a = x => ~Before(p2, a, c)
<1> DEFINE p2 == Append(p, x)
<1>1. /\ DOMAIN p = 1..Len(p) /\ DOMAIN p2 = 1..(Len(p) + 1) /\ Len(p) \in Nat
      /\ \A n \in DOMAIN p : p2[n] = p[n] /\ n \in DOMAIN p2
      /\ p2[Len(p) + 1] = x
  BY AppendProperties, LenProperties
<1> HIDE DEF p2
<1>2. Before(p, a, c) => Before(p2, a, c)
  BY <1>1 DEF Before
<1>3. Before(p2, a, c) /\ c # x => Before(p, a, c)
  <2> SUFFICES ASSUME Before(p2, a, c), c # x PROVE Before(p, a, c)
    OBVIOUS
  <2>1. PICK m, n \in DOMAIN p2 : m < n /\ p2[m] = a /\ p2[n] = c
    BY DEF Before
  <2>2. n \in DOMAIN p /\ m \in DOMAIN p
    BY <1>1, <2>1
  <2> QED
    BY <1>1, <2>1, <2>2 DEF Before
<1>4. ASSUME BlockOf[a] = BlockOf[x], NEW n \in DOMAIN p, p[n] = a PROVE Before(p2, a, x)
  <2>1. n < Len(p) + 1 /\ Len(p) + 1 \in DOMAIN p2
    BY <1>1
  <2> QED
    BY <1>1, <1>4, <2>1 DEF Before
<1>5. ASSUME \A n \in DOMAIN p : p[n] # x, a = x, Before(p2, a, c) PROVE FALSE
  <2>1. PICK m, n \in DOMAIN p2 : m < n /\ p2[m] = a /\ p2[n] = c
    BY <1>5 DEF Before
  <2>2. m \in DOMAIN p
    BY <1>1, <2>1
  <2> QED
    BY <1>1, <1>5, <2>1, <2>2
<1> QED
  BY <1>2, <1>3, <1>4, <1>5 DEF p2

LEMMA PendingActs ==
  ASSUME NEW q, Typed(q)
  PROVE  /\ \A i \in DOMAIN q.entries : q.entries[i].acts \subseteq Pending(q)
         /\ \A i \in DOMAIN q.inFlight : q.inFlight[i].acts \subseteq First(q)
         /\ Pending(q) \subseteq Acts
  BY TypedParts DEF Pending, First, Later, Entries

\* The entries of q with an act that joins them, and the order that gives.
Joined(p, q, a, es) ==
  /\ es \in Seq(Entries) /\ es # <<>>
  /\ \A i \in DOMAIN es : WellShaped(es[i])
  /\ \A i, j \in DOMAIN es : i < j => Follows(p, es[j], es[i])
  /\ \A i \in DOMAIN q.inFlight, j \in DOMAIN es : Follows(p, es[j], q.inFlight[i])
  /\ \A i \in DOMAIN es : \A c \in es[i].acts : c = a \/ (i \in DOMAIN q.entries /\ c \in q.entries[i].acts)
  /\ \A i \in DOMAIN q.entries : i \in DOMAIN es /\ q.entries[i].acts \subseteq es[i].acts
  /\ \E i \in DOMAIN es : a \in es[i].acts

\* An act that is the last in p, after all those of q.
LastOf(p, q, a) ==
  /\ \A i, j \in DOMAIN q.entries : i < j => Follows(p, q.entries[j], q.entries[i])
  /\ \A i \in DOMAIN q.inFlight, j \in DOMAIN q.entries : Follows(p, q.entries[j], q.inFlight[i])
  /\ \A c \in Pending(q) : BlockOf[c] = BlockOf[a] => Before(p, c, a)

LEMMA AppendJoins ==
  ASSUME NEW p, NEW q, Typed(q), Shaped(q), NEW a \in Acts, NEW e \in Entries,
         LastOf(p, q, a), e.acts = {a}, e.kind = KindOf[a], e.block = BlockOf[a]
  PROVE  Joined(p, q, a, Append(q.entries, e))
<1> DEFINE es == Append(q.entries, e)
           n == Len(q.entries)
<1>1. /\ n \in Nat /\ DOMAIN q.entries = 1..n /\ q.entries \in Seq(Entries)
      /\ \A i \in DOMAIN q.entries : q.entries[i].acts \subseteq Pending(q)
      /\ \A i \in DOMAIN q.inFlight : q.inFlight[i].acts \subseteq Pending(q)
  BY TypedParts, PendingActs DEF Pending
<1>2. /\ es \in Seq(Entries) /\ es # <<>> /\ Len(es) = n + 1
      /\ \A i \in 1..n : es[i] = q.entries[i]
      /\ es[n + 1] = e
  BY <1>1, AppendProperties
<1>3. DOMAIN es = 1..(n + 1)
  BY <1>2, LenProperties
<1> HIDE DEF es, n
<1>4. \A i \in DOMAIN es : (i \in 1..n /\ es[i] = q.entries[i]) \/ (i = n + 1 /\ es[i] = e)
  BY <1>1, <1>2, <1>3
<1>5. \A i \in DOMAIN es : WellShaped(es[i])
  <2>1. WellShaped(e)
    BY DEF WellShaped
  <2> QED
    BY <1>1, <1>4, <2>1 DEF Shaped
<1>6. \A i \in 1..n : Follows(p, e, q.entries[i])
  BY <1>1 DEF Follows, LastOf
<1>7. \A i, j \in DOMAIN es : i < j => Follows(p, es[j], es[i])
  <2> SUFFICES ASSUME NEW i \in DOMAIN es, NEW j \in DOMAIN es, i < j
               PROVE  Follows(p, es[j], es[i])
    OBVIOUS
  <2>1. i \in 1..n /\ es[i] = q.entries[i]
    BY <1>1, <1>2, <1>3
  <2>2. CASE j \in 1..n /\ es[j] = q.entries[j]
    BY <1>1, <2>1, <2>2 DEF LastOf
  <2>3. CASE j = n + 1 /\ es[j] = e
    BY <1>6, <2>1, <2>3
  <2> QED
    BY <1>4, <2>2, <2>3
<1>8. \A i \in DOMAIN q.inFlight, j \in DOMAIN es : Follows(p, es[j], q.inFlight[i])
  <2>1. \A i \in DOMAIN q.inFlight : Follows(p, e, q.inFlight[i])
    BY <1>1 DEF Follows, LastOf
  <2> QED
    BY <1>1, <1>4, <2>1 DEF LastOf
<1>9. \A i \in DOMAIN es : \A c \in es[i].acts : c = a \/ (i \in DOMAIN q.entries /\ c \in q.entries[i].acts)
  BY <1>1, <1>4
<1>10. \A i \in DOMAIN q.entries : i \in DOMAIN es /\ q.entries[i].acts \subseteq es[i].acts
  BY <1>1, <1>2, <1>3
<1>11. \E i \in DOMAIN es : a \in es[i].acts
  <2>1. n + 1 \in DOMAIN es
    BY <1>1, <1>3
  <2> QED
    BY <1>2, <2>1
<1> QED
  BY <1>2, <1>5, <1>7, <1>8, <1>9, <1>10, <1>11 DEF Joined, es

LEMMA MergeJoins ==
  ASSUME NEW p, NEW q, Typed(q), Shaped(q), NEW a \in Acts, LastOf(p, q, a),
         NEW k \in DOMAIN q.entries, NEW e \in Entries, KindOf[a] = "update",
         q.entries[k].kind = "update", q.entries[k].block = BlockOf[a],
         \A j \in k + 1..Len(q.entries) : q.entries[j].block # BlockOf[a],
         e.acts = q.entries[k].acts \cup {a}, e.kind = q.entries[k].kind,
         e.block = q.entries[k].block
  PROVE  Joined(p, q, a, [q.entries EXCEPT ![k] = e])
<1> DEFINE es == [q.entries EXCEPT ![k] = e]
           n == Len(q.entries)
<1>1. /\ n \in Nat /\ DOMAIN q.entries = 1..n /\ q.entries \in Seq(Entries)
      /\ \A i \in DOMAIN q.entries : q.entries[i].acts \subseteq Pending(q)
      /\ \A i \in DOMAIN q.inFlight : q.inFlight[i].acts \subseteq Pending(q)
  BY TypedParts, PendingActs DEF Pending
<1>2. /\ es \in Seq(Entries) /\ Len(es) = n
      /\ \A i \in 1..n : es[i] = IF i = k THEN e ELSE q.entries[i]
  BY <1>1, ExceptSeq
<1>3. DOMAIN es = 1..n /\ k \in 1..n
  BY <1>1, <1>2, LenProperties
<1>4. es # <<>>
  BY <1>1, <1>2, <1>3, EmptySeq
<1> HIDE DEF es, n
<1>5. \A i \in DOMAIN es : WellShaped(es[i])
  <2>1. WellShaped(e)
    BY <1>1 DEF WellShaped, Shaped
  <2> QED
    BY <1>1, <1>2, <1>3, <2>1 DEF Shaped
<1>6. \A i, j \in DOMAIN es : i < j => Follows(p, es[j], es[i])
  <2> SUFFICES ASSUME NEW i \in DOMAIN es, NEW j \in DOMAIN es, i < j
               PROVE  Follows(p, es[j], es[i])
    OBVIOUS
  <2>1. Follows(p, q.entries[j], q.entries[i])
    BY <1>1, <1>3 DEF LastOf
  <2>2. CASE i = k
    <3>1. q.entries[j].block # BlockOf[a] /\ j # k
      BY <1>1, <1>3, <2>2 DEF n
    <3>2. \A c \in q.entries[j].acts : BlockOf[c] # BlockOf[a]
      BY <1>1, <1>3, <3>1 DEF Shaped, WellShaped
    <3>3. Follows(p, q.entries[j], e)
      BY <2>1, <2>2, <3>2 DEF Follows
    <3> QED
      BY <1>2, <1>3, <2>2, <3>1, <3>3
  <2>3. CASE j = k /\ i # k
    <3>1. Follows(p, e, q.entries[i])
      BY <1>1, <1>3, <2>1, <2>3 DEF Follows, LastOf
    <3> QED
      BY <1>2, <1>3, <2>3, <3>1
  <2> QED
    BY <1>2, <1>3, <2>1, <2>2, <2>3
<1>7. \A i \in DOMAIN q.inFlight, j \in DOMAIN es : Follows(p, es[j], q.inFlight[i])
  <2>1. \A i \in DOMAIN q.inFlight : Follows(p, e, q.inFlight[i])
    BY <1>1 DEF Follows, LastOf
  <2> QED
    BY <1>1, <1>2, <1>3, <2>1 DEF LastOf
<1>8. \A i \in DOMAIN es : \A c \in es[i].acts : c = a \/ (i \in DOMAIN q.entries /\ c \in q.entries[i].acts)
  BY <1>1, <1>2, <1>3
<1>9. \A i \in DOMAIN q.entries : i \in DOMAIN es /\ q.entries[i].acts \subseteq es[i].acts
  BY <1>1, <1>2, <1>3
<1>10. \E i \in DOMAIN es : a \in es[i].acts
  BY <1>2, <1>3
<1> QED
  BY <1>2, <1>4, <1>5, <1>6, <1>7, <1>8, <1>9, <1>10 DEF Joined, es

LEMMA JoinedSound ==
  ASSUME NEW p, NEW q, Typed(q), Shaped(q), Consistent(q), NEW a \in Acts, NEW r, Typed(r),
         Joined(p, q, a, r.entries), r.inFlight = q.inFlight, r.status # "saved",
         Held(r) => Held(q)
  PROVE  /\ Sound(p, r)
         /\ Pending(r) = Pending(q) \cup {a} /\ Later(r) \subseteq Later(q) \cup {a}
<1>1. Shaped(r)
  BY DEF Joined, Shaped
<1>2. Ordered(p, r)
  BY DEF Joined, Ordered
<1>3. Consistent(r)
  BY DEF Consistent
<1>4. Later(r) \subseteq Later(q) \cup {a}
  BY DEF Later, Joined
<1>5. First(r) \subseteq First(q) \cup {a}
  BY DEF First, Joined
<1>6. First(q) \subseteq First(r)
  BY DEF First, Joined
<1>7. Later(q) \subseteq Later(r)
  BY DEF Later, Joined
<1>8. a \in Pending(r)
  BY DEF Later, First, Pending, Joined
<1>9. Pending(r) = Pending(q) \cup {a}
  BY <1>4, <1>5, <1>6, <1>7, <1>8 DEF Pending
<1> QED
  BY <1>1, <1>2, <1>3, <1>4, <1>9 DEF Sound

\* An act enqueued is the last on its block, and none of those before it moves.
LEMMA EnqueueSound ==
  ASSUME NEW p \in Seq(Acts), NEW q, Sound(p, q), NEW a \in Acts, NEW immediate \in BOOLEAN,
         \A n \in DOMAIN p : p[n] # a,
         \A c \in Pending(q) : \E n \in DOMAIN p : p[n] = c
  PROVE  LET r == Enqueue(q, a, immediate)
             ready == immediate \/ KindOf[a] # "update"
         IN /\ Sound(Append(p, a), r)
            /\ r.inFlight = q.inFlight /\ r.entries # <<>>
            /\ Pending(r) = Pending(q) \cup {a} /\ Later(r) \subseteq Later(q) \cup {a}
            /\ Held(r) <=> Held(q)
            /\ HoldsAfterNetworkFailure(r) <=> HoldsAfterNetworkFailure(q)
            /\ Held(q) => r.status = q.status /\ r.lastFailure = q.lastFailure
            /\ ready => \A i \in DOMAIN r.entries : r.entries[i].ready
            /\ ~ready => \A i \in DOMAIN r.entries :
                           r.entries[i].ready => i \in DOMAIN q.entries /\ q.entries[i].ready
<1> DEFINE p2 == Append(p, a)
           r == Enqueue(q, a, immediate)
<1>1. PICK ready \in BOOLEAN : ready = (immediate \/ KindOf[a] # "update")
  OBVIOUS
<1>2. PICK through : through = IF ready THEN DOMAIN q.entries ELSE {}
  OBVIOUS
<1>3. PICK q1 : q1 = [q EXCEPT !.entries = MadeReady(q.entries, through)]
  OBVIOUS
<1>4. q \in Queue(Seq(Entries)) /\ Typed(q) /\ Shaped(q) /\ Ordered(p, q) /\ Consistent(q)
  BY DEF Sound, Typed
<1>5. /\ Typed(q1) /\ SameHeld(q, q1) /\ q1.entries = MadeReady(q.entries, through)
      /\ \A i \in DOMAIN q.entries : q1.entries[i].ready <=> (q.entries[i].ready \/ i \in through)
  <2>1. Typed(q1) /\ SameHeld(q, q1)
    BY <1>3, <1>4, ReadyKeeps
  <2>2. \A i \in DOMAIN q.entries : q1.entries[i].ready <=> (q.entries[i].ready \/ i \in through)
    BY <1>3, <1>4, ReadyKeeps
  <2>3. q1.entries = MadeReady(q.entries, through)
    BY <1>3, <1>4 DEF Queue
  <2> QED
    BY <2>1, <2>2, <2>3
<1>6. /\ Pending(q1) = Pending(q) /\ Later(q1) = Later(q) /\ Shaped(q1) /\ Ordered(p, q1)
      /\ q1.inFlight = q.inFlight /\ DOMAIN q1.entries = DOMAIN q.entries
  <2>1. Pending(q1) = Pending(q) /\ Later(q1) = Later(q) /\ Shaped(q1) /\ Ordered(p, q1)
    BY <1>4, <1>5, SameHeldSame
  <2>2. q1.inFlight = q.inFlight /\ Len(q1.entries) = Len(q.entries)
    BY <1>5 DEF SameHeld
  <2> QED
    BY <1>4, <1>5, <2>1, <2>2, TypedParts
<1>7. LastOf(p2, q1, a)
  <2>1. \A x, y \in Acts : Before(p, x, y) => Before(p2, x, y)
    BY BeforeGrows
  <2>2. \A x \in Acts : BlockOf[x] = BlockOf[a] /\ (\E n \in DOMAIN p : p[n] = x) => Before(p2, x, a)
    BY BeforeGrows
  <2>3. /\ \A i \in DOMAIN q1.entries : q1.entries[i].acts \subseteq Acts
        /\ \A i \in DOMAIN q1.inFlight : q1.inFlight[i].acts \subseteq Acts
    BY <1>5, TypedParts DEF Entries
  <2> HIDE DEF p2
  <2>4. /\ \A i, j \in DOMAIN q1.entries : i < j => Follows(p2, q1.entries[j], q1.entries[i])
        /\ \A i \in DOMAIN q1.inFlight, j \in DOMAIN q1.entries : Follows(p2, q1.entries[j], q1.inFlight[i])
    BY <1>6, <2>1, <2>3 DEF Ordered, Follows
  <2>5. \A c \in Pending(q1) : BlockOf[c] = BlockOf[a] => Before(p2, c, a)
    BY <1>4, <1>6, <2>2, PendingActs
  <2> QED
    BY <2>4, <2>5 DEF LastOf
<1>8. PICK into : into = IF KindOf[a] = "update" THEN MergeIndex(q1.entries, BlockOf[a]) ELSE {}
  OBVIOUS
<1>9. PICK k : k = CHOOSE i \in into : TRUE
  OBVIOUS
<1>10. PICK es : es = IF into = {} THEN Append(q1.entries, EntryOf(a, ready))
                      ELSE Merged(q1.entries, k, a, ready)
  OBVIOUS
<1>11. r = [q EXCEPT !.entries = es, !.status = IF Held(q) THEN q.status ELSE "saving",
                     !.lastFailure = IF Held(q) THEN q.lastFailure ELSE "none"]
  BY <1>1, <1>2, <1>5, <1>8, <1>9, <1>10, ZenonT(60) DEF Enqueue
<1> HIDE DEF p2, r
<1>12. /\ Joined(p2, q1, a, es)
       /\ ready => \A i \in DOMAIN es : es[i].ready
       /\ ~ready => \A i \in DOMAIN es : es[i].ready => i \in DOMAIN q.entries /\ q.entries[i].ready
  <2>0. /\ \A i \in DOMAIN q1.entries : q1.entries[i] \in Entries
        /\ DOMAIN q1.entries = 1..Len(q1.entries) /\ Len(q1.entries) \in Nat
        /\ q1.entries \in Seq(Entries)
    BY <1>5, TypedParts
  <2>1. /\ ready => \A i \in DOMAIN q1.entries : q1.entries[i].ready
        /\ ~ready => \A i \in DOMAIN q1.entries : q1.entries[i].ready => q.entries[i].ready
    BY <1>2, <1>5, <1>6
  <2>2. CASE into = {}
    <3>1. PICK e : e = EntryOf(a, ready)
      OBVIOUS
    <3>2. /\ e \in Entries /\ e.acts = {a} /\ e.kind = KindOf[a] /\ e.block = BlockOf[a]
          /\ e.ready = ready
      BY <3>1 DEF EntryOf, Entries
    <3>3. es = Append(q1.entries, e)
      BY <1>10, <2>2, <3>1
    <3>4. Joined(p2, q1, a, es)
      BY <1>5, <1>6, <1>7, <3>2, <3>3, AppendJoins
    <3>5. \A i \in DOMAIN es : (i \in DOMAIN q1.entries /\ es[i] = q1.entries[i]) \/ es[i] = e
      <4>1. DOMAIN es = 1..(Len(q1.entries) + 1)
        BY <2>0, <3>2, <3>3, AppendProperties, LenProperties
      <4>2. /\ \A i \in 1..Len(q1.entries) : es[i] = q1.entries[i]
            /\ es[Len(q1.entries) + 1] = e
        BY <2>0, <3>2, <3>3, AppendProperties
      <4>3. \A i \in 1..(Len(q1.entries) + 1) : i \in 1..Len(q1.entries) \/ i = Len(q1.entries) + 1
        BY <2>0
      <4> QED
        BY <2>0, <4>1, <4>2, <4>3
    <3>6. ~ready => \A i \in DOMAIN es : es[i].ready => i \in DOMAIN q.entries /\ q.entries[i].ready
      BY <1>6, <2>1, <3>2, <3>5
    <3>7. ready => \A i \in DOMAIN es : es[i].ready
      BY <1>6, <2>1, <3>2, <3>5
    <3> QED
      BY <3>4, <3>6, <3>7
  <2>3. CASE into # {}
    <3>1. k \in into /\ KindOf[a] = "update" /\ into = MergeIndex(q1.entries, BlockOf[a])
      BY <1>8, <1>9, <2>3
    <3>2. /\ k \in DOMAIN q1.entries /\ q1.entries[k].kind = "update"
          /\ q1.entries[k].block = BlockOf[a]
          /\ \A j \in k + 1..Len(q1.entries) : q1.entries[j].block # BlockOf[a]
      BY <3>1 DEF MergeIndex, IsLatestUpdate, TouchesBlock
    <3>3. PICK e : e = [q1.entries[k] EXCEPT !.acts = q1.entries[k].acts \cup {a},
                                             !.ready = q1.entries[k].ready \/ ready]
      OBVIOUS
    <3>4. /\ e \in Entries /\ e.acts = q1.entries[k].acts \cup {a}
          /\ e.kind = q1.entries[k].kind /\ e.block = q1.entries[k].block
          /\ e.ready = (q1.entries[k].ready \/ ready)
      <4>1. q1.entries[k] \in Entries
        BY <2>0, <3>2
      <4> QED
        BY <3>3, <4>1 DEF Entries
    <3>5. es = [q1.entries EXCEPT ![k] = e]
      BY <1>10, <2>3, <3>3 DEF Merged
    <3>6. Joined(p2, q1, a, es)
      BY <1>5, <1>6, <1>7, <3>1, <3>2, <3>4, <3>5, MergeJoins
    <3>7. DOMAIN es = DOMAIN q1.entries /\ \A i \in DOMAIN es : es[i] = IF i = k THEN e ELSE q1.entries[i]
      BY <2>0, <3>5
    <3>8. ready => \A i \in DOMAIN es : es[i].ready
      BY <2>1, <3>4, <3>7
    <3>9. ~ready => \A i \in DOMAIN es : es[i].ready => i \in DOMAIN q.entries /\ q.entries[i].ready
      BY <1>6, <2>1, <3>2, <3>4, <3>7
    <3> QED
      BY <3>6, <3>8, <3>9
  <2> QED
    BY <2>2, <2>3
<1>13. /\ r.entries = es /\ r.inFlight = q.inFlight /\ r \in Queue(Seq(Entries))
       /\ r.status = IF Held(q) THEN q.status ELSE "saving"
       /\ r.lastFailure = IF Held(q) THEN q.lastFailure ELSE "none"
  BY <1>4, <1>11, <1>12 DEF Queue, FailureKinds, Joined
<1>14. /\ Held(r) <=> Held(q)
       /\ HoldsAfterNetworkFailure(r) <=> HoldsAfterNetworkFailure(q)
       /\ r.status # "saved"
  BY <1>13 DEF Held, HoldsAfterNetworkFailure
<1>15. Typed(r) /\ Typed(q1) /\ Joined(p2, q1, a, r.entries) /\ r.inFlight = q1.inFlight
  BY <1>4, <1>5, <1>6, <1>12, <1>13 DEF Typed
<1>16. /\ Sound(p2, r)
       /\ Pending(r) = Pending(q) \cup {a} /\ Later(r) \subseteq Later(q) \cup {a}
  <2>1. Held(q) <=> Held(q1)
    BY <1>3, <1>4 DEF Held, HoldsAfterNetworkFailure, Queue
  <2>2. Consistent(q1)
    <3>1. HasPending(q1) <=> HasPending(q)
      BY <1>4, <1>5, SameHeldSame
    <3>2. q1.status = q.status /\ q1.inFlight = q.inFlight
      BY <1>3, <1>4 DEF Queue
    <3> QED
      BY <1>4, <2>1, <3>1, <3>2 DEF Consistent
  <2>3. Held(r) => Held(q1)
    BY <1>14, <2>1
  <2>4. /\ Sound(p2, r)
        /\ Pending(r) = Pending(q1) \cup {a} /\ Later(r) \subseteq Later(q1) \cup {a}
    BY ONLY <1>6, <1>14, <1>15, <2>2, <2>3, JoinedSound, a \in Acts
  <2> QED
    BY <1>6, <2>4
<1> QED
  BY <1>1, <1>6, <1>12, <1>13, <1>14, <1>16 DEF p2, r, Joined

\* What becomes ready stays where it is.
Marked(q, S) == [q EXCEPT !.entries = MadeReady(@, S)]

LEMMA MarkedSound ==
  ASSUME NEW p, NEW q, Sound(p, q), NEW S, NEW r, r = Marked(q, S)
  PROVE  /\ Sound(p, r) /\ Pending(r) = Pending(q) /\ Later(r) = Later(q)
         /\ r.inFlight = q.inFlight /\ (HasPending(r) <=> HasPending(q)) /\ (Held(r) <=> Held(q))
         /\ HoldsAfterNetworkFailure(r) <=> HoldsAfterNetworkFailure(q)
         /\ r.status = q.status /\ r.lastFailure = q.lastFailure
         /\ r.entries = <<>> <=> q.entries = <<>>
         /\ DOMAIN r.entries = DOMAIN q.entries
         /\ \A i \in DOMAIN q.entries : r.entries[i].ready <=> (q.entries[i].ready \/ i \in S)
<1>1. Typed(q) /\ Shaped(q) /\ Ordered(p, q) /\ Consistent(q)
  BY DEF Sound
<1>2. /\ Typed(r) /\ SameHeld(q, r) /\ r.status = q.status /\ r.lastFailure = q.lastFailure
      /\ \A i \in DOMAIN q.entries : r.entries[i].ready <=> (q.entries[i].ready \/ i \in S)
  BY <1>1, ReadyKeeps DEF Marked
<1>3. /\ Pending(r) = Pending(q) /\ Later(r) = Later(q) /\ Shaped(r) /\ Ordered(p, r)
      /\ HasPending(r) <=> HasPending(q)
  BY <1>1, <1>2, SameHeldSame
<1>4. /\ r.inFlight = q.inFlight /\ Len(r.entries) = Len(q.entries)
      /\ (Held(r) <=> Held(q)) /\ (HoldsAfterNetworkFailure(r) <=> HoldsAfterNetworkFailure(q))
  BY <1>2 DEF SameHeld, Held, HoldsAfterNetworkFailure
<1>5. /\ DOMAIN r.entries = DOMAIN q.entries
      /\ r.entries = <<>> <=> q.entries = <<>>
  BY <1>1, <1>2, <1>4, TypedParts
<1>6. Consistent(r)
  BY <1>1, <1>2, <1>3, <1>4 DEF Consistent
<1> QED
  BY <1>2, <1>3, <1>4, <1>5, <1>6 DEF Sound

LEMMA RetrySound ==
  ASSUME NEW p, NEW q, Sound(p, q), Held(q), NEW r, r = Retry(q)
  PROVE  /\ Sound(p, r) /\ Pending(r) = Pending(q) /\ Later(r) = Later(q)
         /\ r.inFlight = <<>> /\ (HasPending(r) <=> HasPending(q)) /\ ~Held(r)
         /\ DOMAIN r.entries = DOMAIN q.entries
         /\ \A i \in DOMAIN q.entries : r.entries[i].ready <=> (q.entries[i].ready \/ i = 1)
<1>1. Typed(q) /\ Shaped(q) /\ Ordered(p, q) /\ Consistent(q) /\ q \in Queue(Seq(Entries))
  BY DEF Sound, Typed
<1>2. PICK m : m = Marked(q, {1})
  OBVIOUS
<1>3. /\ Sound(p, m) /\ Pending(m) = Pending(q) /\ Later(m) = Later(q)
      /\ m.inFlight = q.inFlight /\ (HasPending(m) <=> HasPending(q))
      /\ DOMAIN m.entries = DOMAIN q.entries /\ (m.entries = <<>> <=> q.entries = <<>>)
      /\ \A i \in DOMAIN q.entries : m.entries[i].ready <=> (q.entries[i].ready \/ i \in {1})
  <2>1. PICK S : S = {1}
    OBVIOUS
  <2>2. m = Marked(q, S)
    BY <1>2, <2>1
  <2>3. /\ Sound(p, m) /\ Pending(m) = Pending(q) /\ Later(m) = Later(q)
        /\ m.inFlight = q.inFlight /\ (HasPending(m) <=> HasPending(q)) /\ (Held(m) <=> Held(q))
        /\ HoldsAfterNetworkFailure(m) <=> HoldsAfterNetworkFailure(q)
        /\ m.entries = <<>> <=> q.entries = <<>>
        /\ DOMAIN m.entries = DOMAIN q.entries
        /\ \A i \in DOMAIN q.entries : m.entries[i].ready <=> (q.entries[i].ready \/ i \in S)
    BY <2>2, MarkedSound
  <2> QED
    BY <2>1, <2>3
<1>4. /\ r.entries = m.entries /\ r.inFlight = q.inFlight /\ r.status = SettledStatus(q.entries)
      /\ r.lastFailure = "none" /\ r.pauseReason = "none"
      /\ m.entries \in Seq(Entries) => r \in Queue(Seq(Entries))
  BY <1>1, <1>2 DEF Retry, Queue, SettledStatus, Marked
<1>5. q.inFlight = <<>>
  BY <1>1 DEF Consistent
<1>6. Typed(m) /\ Shaped(m) /\ Ordered(p, m) /\ m.entries \in Seq(Entries)
  BY <1>3 DEF Sound, Typed, Queue
<1>7. Typed(r)
  BY <1>1, <1>4, <1>6 DEF Typed
<1>8. ~Held(r)
  BY <1>4 DEF Held, HoldsAfterNetworkFailure, SettledStatus
<1>9. HasPending(r) <=> HasPending(q)
  BY <1>3, <1>4 DEF HasPending
<1>10. r.status = "saved" => ~HasPending(q)
  BY <1>4, <1>5 DEF HasPending, SettledStatus
<1>11. Shaped(r) /\ Ordered(p, r) /\ Later(r) = Later(m) /\ First(r) = First(m)
  BY <1>3, <1>4, <1>6 DEF Shaped, Ordered, Later, First
<1>12. Pending(r) = Pending(m)
  BY <1>11 DEF Pending
<1> QED
  BY <1>3, <1>4, <1>5, <1>12, <1>7, <1>8, <1>9, <1>10, <1>11 DEF Sound, Consistent

\* The head goes out alone, and is what went next.
LEMMA TakeSound ==
  ASSUME NEW p, NEW q, Sound(p, q), CanTake(q), NEW r, r = TakeNext(q)
  PROVE  /\ Sound(p, r) /\ Pending(r) = Pending(q) /\ Later(r) = Later(q)
         /\ r.inFlight = <<Head(q.entries)>> /\ ~Held(r) /\ HasPending(r)
         /\ Head(q.entries) = q.entries[1] /\ q.entries[1] \in Entries
         /\ WellShaped(q.entries[1])
         /\ q.entries[1].acts = First(q)
         /\ \A i \in DOMAIN r.entries : i + 1 \in DOMAIN q.entries /\ r.entries[i] = q.entries[i + 1]
<1>1. /\ Typed(q) /\ Shaped(q) /\ Ordered(p, q) /\ q \in Queue(Seq(Entries))
      /\ q.entries # <<>> /\ q.inFlight = <<>>
  BY DEF Sound, Typed, CanTake, CanSend
<1> DEFINE es == q.entries
           t == Tail(q.entries)
           h == Head(q.entries)
<1>2. /\ es \in Seq(Entries) /\ DOMAIN es = 1..Len(es) /\ Len(es) \in Nat /\ Len(es) # 0
      /\ \A i \in DOMAIN es : es[i] \in Entries
  BY <1>1, TypedParts
<1>3. /\ t \in Seq(Entries) /\ Len(t) = Len(es) - 1
      /\ \A i \in 1..Len(t) : t[i] = es[i + 1]
  BY <1>1, <1>2, HeadTailProperties
<1>4. DOMAIN t = 1..Len(t) /\ h = es[1] /\ 1 \in DOMAIN es
  BY <1>1, <1>2, <1>3, LenProperties
<1>5. \A i \in DOMAIN t : i + 1 \in DOMAIN es /\ t[i] = es[i + 1] /\ i # 0 /\ i \in Int
  BY <1>2, <1>3, <1>4
<1>6. \A i \in DOMAIN es : i = 1 \/ (i - 1 \in DOMAIN t /\ t[i - 1] = es[i])
  BY <1>2, <1>3, <1>4
<1>7. /\ r.entries = t /\ r.inFlight = <<h>> /\ r.status = "saving" /\ r.lastFailure = "none"
      /\ r \in Queue(Seq(Entries))
  <2>1. r = [q EXCEPT !.entries = t, !.inFlight = <<h>>, !.status = "saving",
                      !.lastFailure = "none", !.pauseReason = "none"]
    BY <1>1 DEF TakeNext, Queue
  <2>2. <<h>> \in Seq(Entries) /\ t \in Seq(Entries)
    BY <1>2, <1>3, <1>4
  <2> HIDE DEF es, t, h
  <2> QED
    BY <1>1, <2>1, <2>2 DEF Queue
<1>8. /\ Len(r.inFlight) = 1 /\ DOMAIN r.inFlight = {1} /\ r.inFlight[1] = es[1] /\ r.inFlight # <<>>
  BY <1>4, <1>7
<1> HIDE DEF es, t, h
<1>9. Typed(r) /\ Shaped(r)
  BY <1>1, <1>4, <1>5, <1>7, <1>8 DEF Typed, Shaped, es
<1>10. Ordered(p, r)
  <2>1. \A i, j \in DOMAIN t : i < j => Follows(p, t[j], t[i])
    <3> SUFFICES ASSUME NEW i \in DOMAIN t, NEW j \in DOMAIN t, i < j
                 PROVE  Follows(p, t[j], t[i])
      OBVIOUS
    <3>1. i + 1 < j + 1
      BY <1>5
    <3> QED
      BY <1>1, <1>5, <3>1 DEF Ordered, es
  <2>2. \A j \in DOMAIN t : Follows(p, t[j], es[1])
    <3> SUFFICES ASSUME NEW j \in DOMAIN t PROVE Follows(p, t[j], es[1])
      OBVIOUS
    <3>1. 1 < j + 1 /\ j + 1 \in DOMAIN es
      BY <1>2, <1>3, <1>4, <1>5
    <3> QED
      BY <1>1, <1>4, <1>5, <3>1 DEF Ordered, es
  <2> QED
    BY <1>7, <1>8, <2>1, <2>2 DEF Ordered
<1>11. ~Held(r) /\ HasPending(r)
  BY <1>7, <1>8 DEF Held, HoldsAfterNetworkFailure, HasPending
<1>12. Later(r) = Later(q)
  <2>1. Later(r) \subseteq Later(q)
    BY <1>1, <1>2, <1>3, <1>4, <1>5, <1>7 DEF Later, es
  <2>2. Later(q) \subseteq Later(r)
    BY <1>1, <1>6, <1>7, <1>8 DEF Later, es
  <2> QED
    BY <2>1, <2>2
<1>13. First(r) = es[1].acts /\ First(q) = es[1].acts
  <2>1. es[1].acts \subseteq Acts
    BY <1>2, <1>4 DEF Entries
  <2> QED
    BY <1>1, <1>4, <1>8, <2>1 DEF First, es
<1> QED
  BY <1>1, <1>2, <1>4, <1>5, <1>7, <1>8, <1>9, <1>10, <1>11, <1>12, <1>13
     DEF Sound, Consistent, Pending, Shaped, es, t, h

\* The entry on its way has arrived: what comes next was not sent before.
LEMMA SuccessSound ==
  ASSUME NEW p, NEW q, Sound(p, q), NEW r, r = OnSuccess(q)
  PROVE  /\ Sound(p, r) /\ r.inFlight = <<>> /\ ~Held(r) /\ r.entries = q.entries
         /\ Later(r) \subseteq Later(q) /\ Pending(r) \subseteq Pending(q)
         /\ q.inFlight # <<>> => Pending(r) = Later(q)
         /\ HasPending(r) => HasPending(q)
<1>1. Typed(q) /\ Shaped(q) /\ Ordered(p, q) /\ Consistent(q) /\ q \in Queue(Seq(Entries))
  BY DEF Sound, Typed
<1>2. r = [q EXCEPT !.inFlight = <<>>, !.status = SettledStatus(q.entries),
                    !.lastFailure = "none", !.pauseReason = "none"]
  BY DEF OnSuccess
<1>3. /\ r.entries = q.entries /\ r.inFlight = <<>> /\ r.status = SettledStatus(q.entries)
      /\ r.lastFailure = "none" /\ r \in Queue(Seq(Entries))
  <2>1. <<>> \in Seq(Entries)
    BY EmptySeq
  <2> QED
    BY <1>1, <1>2, <2>1 DEF Queue, SettledStatus
<1>4. Len(r.inFlight) = 0 /\ DOMAIN r.inFlight = {}
  BY <1>3
<1>5. Typed(r) /\ Shaped(r) /\ Ordered(p, r)
  BY <1>1, <1>3, <1>4 DEF Typed, Shaped, Ordered
<1>6. ~Held(r) /\ (HasPending(r) => HasPending(q)) /\ (r.status = "saved" => ~HasPending(r))
  BY <1>3 DEF Held, HoldsAfterNetworkFailure, SettledStatus, HasPending
<1>7. Later(r) \subseteq Later(q)
  BY <1>3 DEF Later
<1>8. q.inFlight # <<>> => Pending(r) = Later(q)
  BY <1>3, <1>4 DEF Pending, First, Later
<1>9. q.inFlight = <<>> => First(r) = First(q)
  BY <1>3 DEF First
<1>10. Pending(r) \subseteq Pending(q)
  BY <1>7, <1>8, <1>9 DEF Pending
<1> QED
  BY <1>3, <1>5, <1>6, <1>7, <1>8, <1>10 DEF Sound, Consistent

\* What was refused is dropped, and the rest goes on.
LEMMA RefusedSound ==
  ASSUME NEW p, NEW q, Sound(p, q), NEW r, r = OnFailure(q, "refused")
  PROVE  /\ Sound(p, r) /\ r.inFlight = <<>> /\ ~Held(r) /\ r.entries = q.entries
         /\ Later(r) \subseteq Later(q) /\ Pending(r) \subseteq Pending(q)
         /\ q.inFlight # <<>> => Pending(r) = Later(q)
         /\ HasPending(r) => HasPending(q)
<1>1. Typed(q) /\ Shaped(q) /\ Ordered(p, q) /\ Consistent(q) /\ q \in Queue(Seq(Entries))
  BY DEF Sound, Typed
<1>2. r = [q EXCEPT !.inFlight = <<>>, !.lastFailure = "refused", !.entries = q.entries,
                    !.status = "failed", !.pauseReason = "none"]
  BY DEF OnFailure, PauseReasons
<1>3. /\ r.entries = q.entries /\ r.inFlight = <<>> /\ r.status = "failed"
      /\ r.lastFailure = "refused" /\ r \in Queue(Seq(Entries))
  <2>1. <<>> \in Seq(Entries)
    BY EmptySeq
  <2> QED
    BY <1>1, <1>2, <2>1 DEF Queue, FailureKinds
<1>4. Len(r.inFlight) = 0 /\ DOMAIN r.inFlight = {}
  BY <1>3
<1>5. Typed(r) /\ Shaped(r) /\ Ordered(p, r)
  BY <1>1, <1>3, <1>4 DEF Typed, Shaped, Ordered
<1>6. ~Held(r) /\ (HasPending(r) => HasPending(q)) /\ r.status # "saved"
  BY <1>3 DEF Held, HoldsAfterNetworkFailure, HasPending
<1>7. Later(r) \subseteq Later(q)
  BY <1>3 DEF Later
<1>8. q.inFlight # <<>> => Pending(r) = Later(q)
  BY <1>3, <1>4 DEF Pending, First, Later
<1>9. q.inFlight = <<>> => First(r) = First(q)
  BY <1>3 DEF First
<1>10. Pending(r) \subseteq Pending(q)
  BY <1>7, <1>8, <1>9 DEF Pending
<1> QED
  BY <1>3, <1>5, <1>6, <1>7, <1>8, <1>10 DEF Sound, Consistent

\* What failed otherwise goes back to the head, and the queue is held.
LEMMA FailedSound ==
  ASSUME NEW p, NEW q, Sound(p, q), NEW kind \in FailureKinds \ {"refused"},
         NEW r, r = OnFailure(q, kind)
  PROVE  /\ Sound(p, r) /\ r.inFlight = <<>> /\ Held(r)
         /\ Later(r) = Later(q) /\ Pending(r) = Pending(q)
         /\ (HasPending(r) <=> HasPending(q))
         /\ r.status = IF kind = "network" THEN "failed" ELSE "paused"
         /\ r.lastFailure = kind
         /\ HoldsAfterNetworkFailure(r) <=> kind = "network"
         /\ q.inFlight # <<>> =>
              /\ kind # "network" => r.entries[1].ready
              /\ \A i \in DOMAIN r.entries : i # 1 =>
                   i - 1 \in DOMAIN q.entries /\ r.entries[i] = q.entries[i - 1]
<1>1. Typed(q) /\ Shaped(q) /\ Ordered(p, q) /\ Consistent(q) /\ q \in Queue(Seq(Entries))
  BY DEF Sound, Typed
<1>2. PICK ready \in BOOLEAN : ready = (kind # "network")
  OBVIOUS
<1>3. PICK f : f = [i \in DOMAIN q.inFlight |-> [q.inFlight[i] EXCEPT !.ready = ready]]
  OBVIOUS
<1>4. /\ q.entries \in Seq(Entries) /\ q.inFlight \in Seq(Entries)
      /\ Len(q.entries) \in Nat /\ DOMAIN q.entries = 1..Len(q.entries)
      /\ DOMAIN q.inFlight = 1..Len(q.inFlight) /\ Len(q.inFlight) \in {0, 1}
      /\ q.inFlight # <<>> <=> Len(q.inFlight) = 1
      /\ q.entries = <<>> <=> Len(q.entries) = 0
      /\ \A i \in DOMAIN q.inFlight : q.inFlight[i] \in Entries
  <2>1. Len(q.inFlight) \in Nat /\ Len(q.inFlight) <= 1
    BY <1>1, LenProperties DEF Typed, Queue
  <2> QED
    BY <1>1, <2>1, TypedParts
<1>5. /\ f \in Seq(Entries) /\ Len(f) = Len(q.inFlight)
      /\ \A i \in 1..Len(q.inFlight) : SameEntry(f[i], q.inFlight[i]) /\ f[i].ready = ready
  <2>1. \A i \in DOMAIN q.inFlight :
          f[i] \in Entries /\ SameEntry(f[i], q.inFlight[i]) /\ f[i].ready = ready
    BY <1>3, <1>4, ZenonT(40) DEF Entries, SameEntry
  <2>2. f \in [1..Len(q.inFlight) -> Entries]
    BY <1>3, <1>4, <2>1
  <2>3. f \in Seq(Entries) /\ Len(f) = Len(q.inFlight)
    BY <1>4, <2>2, SeqDef
  <2> QED
    BY <1>4, <2>1, <2>3
<1>6. PICK es : es = f \o q.entries
  OBVIOUS
<1>7. /\ es \in Seq(Entries) /\ Len(es) = Len(f) + Len(q.entries)
      /\ \A i \in 1..(Len(f) + Len(q.entries)) : es[i] = IF i <= Len(f) THEN f[i] ELSE q.entries[i - Len(f)]
  <2>1. \A s, t \in Seq(Entries) :
          /\ s \o t \in Seq(Entries) /\ Len(s \o t) = Len(s) + Len(t)
          /\ \A i \in 1..(Len(s) + Len(t)) : (s \o t)[i] = IF i <= Len(s) THEN s[i] ELSE t[i - Len(s)]
    BY ONLY ConcatProperties
  <2>2. PICK t \in Seq(Entries) : t = q.entries
    BY <1>4
  <2>3. es = f \o t /\ f \in Seq(Entries)
    BY <1>5, <1>6, <2>2
  <2>4. /\ es \in Seq(Entries) /\ Len(es) = Len(f) + Len(t)
        /\ \A i \in 1..(Len(f) + Len(t)) : es[i] = IF i <= Len(f) THEN f[i] ELSE t[i - Len(f)]
    BY ONLY <2>1, <2>3, t \in Seq(Entries)
  <2> QED
    BY <2>2, <2>4
<1>8. DOMAIN es = 1..Len(es)
  BY <1>7, LenProperties
<1>9. r = [q EXCEPT !.inFlight = <<>>, !.lastFailure = kind, !.entries = es,
             !.status = IF kind \in PauseReasons THEN "paused" ELSE "failed",
             !.pauseReason = IF kind \in PauseReasons THEN kind ELSE "none"]
  BY <1>2, <1>3, <1>6 DEF OnFailure, PutBack
<1>10. /\ r.entries = es /\ r.inFlight = <<>>
       /\ r.status = IF kind = "network" THEN "failed" ELSE "paused"
       /\ r.lastFailure = kind /\ r \in Queue(Seq(Entries))
  <2>1. <<>> \in Seq(Entries)
    BY EmptySeq
  <2> QED
    BY <1>1, <1>7, <1>9, <2>1 DEF Queue, PauseReasons, FailureKinds
<1>11. /\ Len(r.inFlight) = 0 /\ DOMAIN r.inFlight = {}
  BY <1>10
<1>12. CASE q.inFlight = <<>>
  <2>1. Len(f) = 0 /\ Len(q.inFlight) = 0
    BY <1>4, <1>5, <1>12
  <2>2. es = q.entries
    BY <1>4, <1>7, <2>1, SeqEqual
  <2>3. Typed(r) /\ Shaped(r) /\ Ordered(p, r)
    BY <1>1, <1>10, <1>11, <2>2 DEF Typed, Shaped, Ordered
  <2>4. Later(r) = Later(q) /\ First(r) = First(q) /\ (HasPending(r) <=> HasPending(q))
    BY <1>10, <1>12, <2>2 DEF Later, First, HasPending
  <2>5. Held(r) /\ (HoldsAfterNetworkFailure(r) <=> kind = "network") /\ r.status # "saved"
    BY <1>10 DEF Held, HoldsAfterNetworkFailure
  <2> QED
    BY <1>10, <1>12, <2>3, <2>4, <2>5 DEF Sound, Consistent, Pending
<1>13. CASE q.inFlight # <<>>
  <2>1. Len(f) = 1 /\ Len(q.inFlight) = 1 /\ DOMAIN q.inFlight = {1}
    BY <1>1, <1>4, <1>5, <1>13, TypedParts
  <2>2. /\ 1 \in DOMAIN es /\ es[1] = f[1]
        /\ \A i \in DOMAIN es : i # 1 => i - 1 \in DOMAIN q.entries /\ es[i] = q.entries[i - 1]
        /\ \A i \in DOMAIN es : i \in Int /\ i >= 1
        /\ \A i \in DOMAIN q.entries : i + 1 \in DOMAIN es /\ es[i + 1] = q.entries[i] /\ i + 1 # 1
    BY <1>4, <1>7, <1>8, <2>1
  <2>3. SameEntry(f[1], q.inFlight[1]) /\ f[1].ready = ready
    BY <1>5, <2>1
  <2>4. Typed(r)
    BY <1>10, <1>11 DEF Typed
  <2>5. Shaped(r)
    BY <1>1, <1>10, <1>11, <2>1, <2>2, <2>3 DEF Shaped, WellShaped, SameEntry
  <2>6. \A i, j \in DOMAIN es : i < j => Follows(p, es[j], es[i])
    <3> SUFFICES ASSUME NEW i \in DOMAIN es, NEW j \in DOMAIN es, i < j
                 PROVE  Follows(p, es[j], es[i])
      OBVIOUS
    <3>1. j # 1 /\ j - 1 \in DOMAIN q.entries /\ es[j] = q.entries[j - 1]
      BY <2>2
    <3>2. CASE i = 1
      <4>1. Follows(p, q.entries[j - 1], q.inFlight[1])
        BY <1>1, <2>1, <3>1 DEF Ordered
      <4> QED
        BY <2>2, <2>3, <3>1, <3>2, <4>1 DEF Follows, SameEntry
    <3>3. CASE i # 1
      <4>1. i - 1 \in DOMAIN q.entries /\ es[i] = q.entries[i - 1] /\ i - 1 < j - 1
        BY <2>2, <3>3
      <4> QED
        BY <1>1, <3>1, <4>1 DEF Ordered
    <3> QED
      BY <3>2, <3>3
  <2>7. Ordered(p, r)
    BY <1>10, <1>11, <2>6 DEF Ordered
  <2>8. Held(r) /\ (HoldsAfterNetworkFailure(r) <=> kind = "network") /\ r.status # "saved"
    BY <1>10 DEF Held, HoldsAfterNetworkFailure
  <2>9. HasPending(q) /\ HasPending(r)
    <3>1. es # <<>>
      BY <1>7, <1>4, <2>1, EmptySeq
    <3> QED
      BY <1>10, <1>13, <3>1 DEF HasPending
  <2>10. Later(r) = Later(q)
    <3>1. Later(r) \subseteq Later(q)
      BY <1>10, <1>13, <2>2 DEF Later
    <3>2. Later(q) \subseteq Later(r)
      BY <1>10, <2>2 DEF Later
    <3> QED
      BY <3>1, <3>2
  <2>11. First(r) = First(q)
    BY <1>10, <1>11, <1>13, <2>1, <2>2, <2>3 DEF First, SameEntry
  <2>12. (kind # "network" => r.entries[1].ready) /\ \A i \in DOMAIN r.entries : i # 1 =>
           i - 1 \in DOMAIN q.entries /\ r.entries[i] = q.entries[i - 1]
    BY <1>2, <1>10, <2>2, <2>3
  <2> QED
    BY <1>10, <2>4, <2>5, <2>7, <2>8, <2>9, <2>10, <2>11, <2>12 DEF Sound, Consistent, Pending
<1> QED
  BY <1>12, <1>13

\* The numbers of a set that holds all smaller ones are counted by the set.
LEMMA CountedFromOne ==
  ASSUME NEW N \in Nat, NEW S \in SUBSET (1..N), \A x \in S : 1..x \subseteq S
  PROVE  Cardinality(S) \in 0..N /\ S = 1..Cardinality(S)
<1> DEFINE c == Cardinality(S)
<1>1. \A n \in 0..N : IsFiniteSet(1..n) /\ Cardinality(1..n) = n
  <2> SUFFICES ASSUME NEW n \in 0..N PROVE IsFiniteSet(1..n) /\ Cardinality(1..n) = n
    OBVIOUS
  <2>1. n \in Int /\ 1 \in Int
    OBVIOUS
  <2>2. IsFiniteSet(1..n) /\ Cardinality(1..n) = IF 1 > n THEN 0 ELSE n - 1 + 1
    BY <2>1, FS_Interval
  <2> QED
    BY <2>2
<1>2. \A X : \A T \in SUBSET X : IsFiniteSet(X) => IsFiniteSet(T) /\ Cardinality(T) <= Cardinality(X)
  BY FS_Subset
<1>3. IsFiniteSet(S)
  <2>1. N \in 0..N
    OBVIOUS
  <2> QED
    BY <1>1, <1>2, <2>1
<1>4. /\ c \in Nat
      /\ \A n \in 0..N : S \subseteq 1..n => c <= n
      /\ \A n \in 0..N : 1..n \subseteq S => n <= c
  <2>1. c \in Nat
    BY <1>3, FS_CardinalityType
  <2>2. ASSUME NEW n \in 0..N, S \subseteq 1..n PROVE c <= n
    <3>1. Cardinality(S) <= Cardinality(1..n)
      BY <1>1, <1>2, <2>2
    <3> QED
      BY <1>1, <3>1
  <2>3. ASSUME NEW n \in 0..N, 1..n \subseteq S PROVE n <= c
    <3>1. Cardinality(1..n) <= c
      BY <1>2, <1>3, <2>3
    <3> QED
      BY <1>1, <3>1
  <2> QED
    BY <2>1, <2>2, <2>3
<1>5. c \in 0..N
  <2>1. N \in 0..N /\ S \subseteq 1..N
    OBVIOUS
  <2> QED
    BY <1>4, <2>1
<1> HIDE DEF c
<1>6. ASSUME NEW x \in S PROVE x \in 1..c
  BY <1>4, <1>5
<1>7. ASSUME NEW x \in 1..c, x \notin S PROVE FALSE
  <2>1. S \subseteq 1..(x - 1)
    <3> SUFFICES ASSUME NEW y \in S, y >= x PROVE FALSE
      OBVIOUS
    <3>1. x \in 1..y
      BY <1>5
    <3> QED
      BY <1>7, <3>1
  <2>2. x - 1 \in 0..N
    BY <1>5
  <2>3. c <= x - 1
    BY <1>4, <2>1, <2>2
  <2> QED
    BY <1>5, <2>2, <2>3
<1> QED
  BY <1>5, <1>6, <1>7 DEF c

\* What goes as empty goes from the head; what stays keeps its place.
LEMMA PruneSound ==
  ASSUME NEW p, NEW q, Sound(p, q), NEW blocks, NEW r, r = PruneEmpty(q, blocks)
  PROVE  /\ Sound(p, r) /\ r.inFlight = q.inFlight
         /\ Pending(r) \subseteq Pending(q) /\ Later(r) \subseteq Later(q)
         /\ Pending(q) \subseteq Pending(r) \cup UNION {q.entries[i].acts : i \in Prunable(q, blocks)}
         /\ HasPending(r) => HasPending(q)
         /\ Held(r) <=> Held(q)
         /\ HoldsAfterNetworkFailure(r) <=> HoldsAfterNetworkFailure(q)
         /\ \A i \in DOMAIN r.entries : \E j \in DOMAIN q.entries :
              r.entries[i] = q.entries[j] /\ (i # 1 => j # 1)
<1>1. Typed(q) /\ Shaped(q) /\ Ordered(p, q) /\ Consistent(q) /\ q \in Queue(Seq(Entries))
  BY DEF Sound, Typed
<1>2. PICK gone : gone = Prunable(q, blocks)
  OBVIOUS
<1>3. CASE gone = {}
  <2>1. r = q
    BY <1>2, <1>3 DEF PruneEmpty
  <2> QED
    BY <2>1
<1>4. CASE gone # {}
  <2>1. CanSend(q) /\ q.inFlight = <<>> /\ ~Held(q)
    BY <1>2, <1>4 DEF Prunable, CanSend
  <2>2. PICK es \in Seq(Entries) : es = q.entries
    BY <1>1, TypedParts
  <2>3. Len(es) \in Nat /\ DOMAIN es = 1..Len(es)
    BY LenProperties
  <2>4. gone = {n \in DOMAIN es : \A i \in 1..n : es[i].ready /\ EmptyRequest(es[i], blocks)}
    BY <1>2, <2>1, <2>2 DEF Prunable
  <2>5. gone \in SUBSET (1..Len(es)) /\ \A x \in gone : 1..x \subseteq gone
    BY <2>3, <2>4
  <2>6. PICK n : n = Cardinality(gone)
    OBVIOUS
  <2>7. n \in 0..Len(es) /\ gone = 1..n
    BY <2>3, <2>5, <2>6, CountedFromOne
  <2>8. n \in 1..Len(es)
    BY <1>4, <2>3, <2>7
  <2>9. PICK t : t = SubSeq(es, n + 1, Len(es))
    OBVIOUS
  <2>10. /\ t \in Seq(Entries) /\ Len(t) = Len(es) - n
         /\ \A i \in 1..Len(t) : t[i] = es[n + i]
    <3>1. \A i \in (n + 1)..Len(es) : es[i] \in Entries
      BY <2>3, <2>8, ElementOfSeq
    <3>2. n + 1 \in Int /\ Len(es) \in Int
      BY <2>3, <2>8
    <3>3. /\ t \in Seq(Entries)
          /\ Len(t) = IF n + 1 <= Len(es) THEN Len(es) - (n + 1) + 1 ELSE 0
          /\ \A i \in 1..(Len(es) - (n + 1) + 1) : t[i] = es[(n + 1) + i - 1]
      BY ONLY <2>9, <3>1, <3>2, SubSeqProperties
    <3>4. Len(t) = Len(es) - n
      <4>1. \A l, m \in Nat : m \in 1..l => (IF m + 1 <= l THEN l - (m + 1) + 1 ELSE 0) = l - m
        OBVIOUS
      <4>2. n \in Nat
        BY <2>8
      <4> QED
        BY <2>3, <2>8, <3>3, <4>1, <4>2, Zenon
    <3>5. \A i \in 1..Len(t) : i \in 1..(Len(es) - (n + 1) + 1) /\ (n + 1) + i - 1 = n + i
      BY <2>3, <2>8, <3>4
    <3> QED
      BY <3>3, <3>4, <3>5
  <2>11. DOMAIN t = 1..Len(t)
    BY <2>10, LenProperties
  <2>12. /\ \A i \in DOMAIN t : n + i \in DOMAIN es /\ t[i] = es[n + i] /\ n + i # 1
         /\ \A i, j \in DOMAIN t : i < j => n + i < n + j
         /\ \A j \in DOMAIN es : j \in gone \/ (j - n \in DOMAIN t /\ t[j - n] = es[j])
    <3>1. \A i \in DOMAIN t : n + i \in DOMAIN es /\ n + i # 1 /\ i \in Int
      BY <2>3, <2>8, <2>10, <2>11
    <3>2. \A i, j \in DOMAIN t : i < j => n + i < n + j
      BY <2>3, <2>8, <3>1
    <3>3. \A j \in DOMAIN es : j \in 1..n \/ (j - n \in 1..Len(t) /\ n + (j - n) = j)
      BY <2>3, <2>8, <2>10
    <3> QED
      BY <2>7, <2>10, <2>11, <3>1, <3>2, <3>3
  <2>13. r = [q EXCEPT !.entries = t,
                       !.status = IF q.status = "saving" /\ t = <<>> THEN "saved" ELSE q.status]
    BY <1>2, <1>4, <2>2, <2>6, <2>9 DEF PruneEmpty, DropHeads
  <2>14. /\ r.entries = t /\ r.inFlight = q.inFlight /\ r \in Queue(Seq(Entries))
         /\ r.status = IF q.status = "saving" /\ t = <<>> THEN "saved" ELSE q.status
         /\ r.lastFailure = q.lastFailure
    BY <1>1, <2>10, <2>13 DEF Queue
  <2>15. Typed(r) /\ Shaped(r)
    BY <1>1, <2>2, <2>12, <2>14 DEF Typed, Shaped
  <2>16. Ordered(p, r)
    <3>1. \A i, j \in DOMAIN t : i < j => Follows(p, t[j], t[i])
      BY <1>1, <2>2, <2>12 DEF Ordered
    <3>2. DOMAIN q.inFlight = {}
      BY <2>1
    <3> QED
      BY <2>14, <3>1, <3>2 DEF Ordered
  <2>17. /\ (Held(r) <=> Held(q))
         /\ (HoldsAfterNetworkFailure(r) <=> HoldsAfterNetworkFailure(q))
    BY <2>14 DEF Held, HoldsAfterNetworkFailure
  <2>18. HasPending(q)
    BY <2>2, <2>3, <2>8 DEF HasPending
  <2>19. r.status = "saved" => ~HasPending(r)
    BY <1>1, <2>1, <2>14, <2>18 DEF Consistent, HasPending
  <2>20. Pending(r) \subseteq Pending(q) /\ Later(r) \subseteq Later(q)
    <3>1. Later(r) \subseteq Later(q)
      BY <2>2, <2>12, <2>14 DEF Later
    <3>2. First(r) \subseteq Later(q)
      BY <2>1, <2>2, <2>12, <2>14 DEF First, Later
    <3> QED
      BY <3>1, <3>2 DEF Pending
  <2>21. Pending(q) \subseteq Pending(r) \cup UNION {q.entries[i].acts : i \in gone}
    <3> SUFFICES ASSUME NEW a \in Pending(q), \A i \in gone : a \notin es[i].acts
                 PROVE  a \in Pending(r)
      BY <2>2
    <3>1. PICK j \in DOMAIN es : a \in es[j].acts
      BY <2>1, <2>2 DEF Pending, First, Later
    <3>2. j - n \in DOMAIN t /\ a \in t[j - n].acts
      BY <2>12, <3>1
    <3> QED
      BY <2>14, <2>15, <3>2, PendingActs
  <2> QED
    BY <1>2, <2>1, <2>2, <2>12, <2>14, <2>15, <2>16, <2>17, <2>18, <2>19, <2>20, <2>21 DEF Sound, Consistent
<1> QED
  BY <1>3, <1>4

LEMMA CreateSound ==
  ASSUME NEW p, NEW q, q = CreateQueue
  PROVE  /\ Sound(p, q) /\ Pending(q) = {} /\ Later(q) = {} /\ q.entries = <<>>
         /\ q.inFlight = <<>> /\ ~HasPending(q) /\ ~Held(q)
<1>1. /\ q.entries = <<>> /\ q.inFlight = <<>> /\ q.status = "saved"
      /\ q.lastFailure = "none" /\ q.pauseReason = "none"
  BY DEF CreateQueue
<1>2. DOMAIN q.entries = {} /\ DOMAIN q.inFlight = {} /\ Len(q.inFlight) = 0
  BY <1>1
<1>3. q \in Queue(Seq(Entries))
  <2>1. <<>> \in Seq(Entries)
    BY EmptySeq
  <2> QED
    BY <2>1 DEF CreateQueue, Queue
<1>4. Pending(q) = {} /\ Later(q) = {}
  BY <1>2 DEF Pending, First, Later
<1>5. ~HasPending(q) /\ ~Held(q)
  BY <1>1 DEF HasPending, Held, HoldsAfterNetworkFailure
<1> QED
  BY <1>1, <1>2, <1>3, <1>4, <1>5 DEF Sound, Typed, Shaped, Ordered, Consistent

-----------------------------------------------------------------------------
(* What the editor has seen, however long awaits last.                     *)

Fields == {"pc", "disposed", "uncertain", "timer", "flush", "entry", "base", "tries", "answer"}
Versioned == {"committed", "unread", "page", "ok", "tree"}

\* What an answer says of the page is not newer than the page, and what it says
\* of the newest version is the page.
TrueAnswer(ans) ==
  /\ ans.kind \in Versioned => ans.version \in Nat /\ ans.version <= version
  /\ ans.kind \in {"ok", "tree"} /\ ans.version = version => ans.tree = tree

HasRunners == DOMAIN runner = Sessions /\ \A k \in Sessions : DOMAIN runner[k] = Fields

SeenInv ==
  /\ session \in Sessions /\ HasRunners
  /\ pageVersion \in Nat /\ version \in Nat /\ pageVersion <= version
  /\ pageVersion = version => model = tree
  /\ \A k \in Sessions : TrueAnswer(runner[k].answer)

\* Nobody has got a new answer.
AnswersKept ==
  /\ HasRunners'
  /\ \A k \in Sessions : runner'[k].answer = NoAnswer \/ runner'[k].answer = runner[k].answer

LEMMA StepKeepsAnswers ==
  ASSUME HasRunners, NEW k \in Sessions, NEW x, runner' = [runner EXCEPT ![k] = x],
         DOMAIN x = Fields, x.answer = NoAnswer \/ x.answer = runner[k].answer
  PROVE  AnswersKept
  BY DEF HasRunners, AnswersKept

LEMMA GoKeepsAnswers ==
  ASSUME HasRunners, NEW k \in Sessions, NEW r, DOMAIN r = Fields, NEW pc, Go(k, r, pc)
  PROVE  AnswersKept
<1> DEFINE x == [r EXCEPT !.pc = pc, !.answer = NoAnswer]
<1>1. runner' = [runner EXCEPT ![k] = x]
  BY DEF Go
<1>2. DOMAIN x = Fields /\ x.answer = NoAnswer
  BY DEF Fields
<1> QED
  BY <1>1, <1>2, StepKeepsAnswers

LEMMA SettledKeeps ==
  ASSUME NEW r, DOMAIN r = Fields, NEW q
  PROVE  LET s == Settled(r, q)
         IN /\ DOMAIN s = Fields /\ s.answer = r.answer /\ s.pc = r.pc /\ s.disposed = r.disposed
            /\ s.entry = r.entry /\ s.timer = r.timer /\ s.base = r.base /\ s.tries = r.tries
            /\ s.uncertain = r.uncertain
            /\ s.flush = r.flush \/ r.flush = "waiting"
            /\ s.flush = "saved" /\ r.flush # "saved" => ~HasPending(q)
            /\ s.flush \in {r.flush, "saved", "unsaved"}
  BY DEF Settled, Fields

LEMMA StopKeepsAnswers ==
  ASSUME HasRunners, NEW k \in Sessions, NEW r, DOMAIN r = Fields, NEW q, Stop(k, r, q)
  PROVE  AnswersKept
<1> DEFINE s == [r EXCEPT !.pc = "idle", !.entry = <<>>, !.answer = NoAnswer]
           x == Settled(s, q)
<1>1. runner' = [runner EXCEPT ![k] = x]
  BY DEF Stop
<1>2. DOMAIN s = Fields /\ s.answer = NoAnswer
  BY DEF Fields
<1> HIDE DEF s
<1>3. DOMAIN x = Fields /\ x.answer = NoAnswer
  BY <1>2, SettledKeeps
<1> QED
  BY <1>1, <1>3, StepKeepsAnswers

\* Nothing new is known and the page has not moved.
LEMMA QuietKeepsSeen ==
  ASSUME SeenInv, AnswersKept, session' = session, UNCHANGED <<model, pageVersion, version, tree>>
  PROVE  SeenInv'
  BY DEF SeenInv, AnswersKept, TrueAnswer, NoAnswer, Versioned

\* What an answer holds is taken over.
LEMMA AdoptedKeepsSeen ==
  ASSUME SeenInv, AnswersKept, session' = session, UNCHANGED <<version, tree>>,
         NEW k \in Sessions, runner[k].answer.kind \in {"ok", "tree"}, WriteApplied(runner[k].answer)
  PROVE  SeenInv'
  BY DEF SeenInv, AnswersKept, TrueAnswer, NoAnswer, Versioned, WriteApplied

LEMMA ClientKeepsSeen ==
  ASSUME SeenInv, NEW k \in Sessions, ClientStep(k)
  PROVE  SeenInv'
<1>1. HasRunners /\ DOMAIN runner[k] = Fields
  BY DEF SeenInv, HasRunners
<1>2. \A b \in BOOLEAN : DOMAIN [runner[k] EXCEPT !.uncertain = b] = Fields
  BY <1>1
<1>3. CASE Drain(k)
  <2>1. AnswersKept
    <3>1. CASE \E q : Stop(k, runner[k], q)
      BY <1>1, <3>1, StopKeepsAnswers
    <3>2. CASE \E e : runner' = [runner EXCEPT ![k] = [runner[k] EXCEPT
                        !.pc = "sending", !.entry = e, !.base = pageVersion,
                        !.tries = 1, !.answer = NoAnswer]]
      <4>1. PICK e : runner' = [runner EXCEPT ![k] = [runner[k] EXCEPT
                        !.pc = "sending", !.entry = e, !.base = pageVersion,
                        !.tries = 1, !.answer = NoAnswer]]
        BY <3>2, Zenon
      <4> DEFINE x == [runner[k] EXCEPT !.pc = "sending", !.entry = e, !.base = pageVersion,
                                        !.tries = 1, !.answer = NoAnswer]
      <4>2. DOMAIN x = Fields /\ x.answer = NoAnswer
        BY <1>1 DEF Fields
      <4> QED
        BY <1>1, <4>1, <4>2, StepKeepsAnswers
    <3> QED
      BY <1>3, <3>1, <3>2, Zenon DEF Drain
  <2> QED
    BY <1>3, <2>1, QuietKeepsSeen DEF Drain, server
<1>4. CASE SaveLandsUnread(k) \/ SaveStale(k) \/ LandingUnread(k) \/ ReadConflict(k) \/ SendAgain(k)
           \/ SaveRefused(k)
  <2>1. \E r, pc : DOMAIN r = Fields /\ Go(k, r, pc)
    <3>1. CASE SaveLandsUnread(k) \/ SaveStale(k) \/ LandingUnread(k)
      BY <1>1, <3>1 DEF SaveLandsUnread, SaveStale, LandingUnread
    <3>2. CASE ReadConflict(k)
      BY <1>2, <3>2 DEF ReadConflict
    <3>3. CASE SendAgain(k)
      <4>1. DOMAIN [runner[k] EXCEPT !.tries = runner[k].tries + 1, !.uncertain = TRUE] = Fields
        BY <1>1
      <4> QED
        BY <3>3, <4>1 DEF SendAgain
    <3>4. CASE SaveRefused(k)
      <4>1. DOMAIN [runner[k] EXCEPT !.uncertain = FALSE, !.entry = <<>>] = Fields
        BY <1>1
      <4> QED
        BY <3>4, <4>1 DEF SaveRefused
    <3> QED
      BY <1>4, <3>1, <3>2, <3>3, <3>4
  <2>2. AnswersKept
    BY <1>1, <2>1, GoKeepsAnswers
  <2>3. session' = session /\ UNCHANGED <<model, pageVersion, version, tree>>
    BY <1>4 DEF SaveLandsUnread, SaveStale, LandingUnread, ReadConflict, SendAgain, SaveRefused,
                store, server
  <2> QED
    BY <2>2, <2>3, QuietKeepsSeen
<1>5. CASE \/ AnswerUnheard(k) \/ \E view \in {"other", "mine", "free", "missing"} : SaveLocked(k, view)
           \/ SaveUnauthenticated(k) \/ SaveUnanswered(k) \/ ReadUnanswered(k)
           \/ ReadUnauthenticated(k) \/ NoteStale(k)
  <2>1. AnswersKept
    <3>1. CASE \E r, q : DOMAIN r = Fields /\ Stop(k, r, q)
      BY <1>1, <3>1, StopKeepsAnswers
    <3>2. CASE \E r, pc : DOMAIN r = Fields /\ Go(k, r, pc)
      BY <1>1, <3>2, GoKeepsAnswers
    <3>3. CASE AnswerUnheard(k) \/ ReadUnanswered(k)
      BY <1>1, <3>1, <3>3 DEF AnswerUnheard, ReadUnanswered
    <3>4. CASE \E view \in {"other", "mine", "free", "missing"} : SaveLocked(k, view)
      BY <1>2, <3>1, <3>2, <3>4 DEF SaveLocked
    <3>5. CASE SaveUnauthenticated(k) \/ SaveUnanswered(k)
      BY <1>2, <3>1, <3>5 DEF SaveUnauthenticated, SaveUnanswered
    <3>6. CASE ReadUnauthenticated(k) \/ NoteStale(k)
      BY <1>2, <3>1, <3>6 DEF ReadUnauthenticated, NoteStale
    <3> QED
      BY <1>5, <3>3, <3>4, <3>5, <3>6
  <2>2. session' = session /\ UNCHANGED <<model, pageVersion, version, tree>>
    BY <1>5 DEF AnswerUnheard, SaveLocked, SaveUnauthenticated, SaveUnanswered, ReadUnanswered,
                ReadUnauthenticated, NoteStale, store, server
  <2> QED
    BY <2>1, <2>2, QuietKeepsSeen
<1>6. CASE SaveLands(k) \/ LandingRead(k) \/ ReadAlreadyApplied(k)
  <2>1. AnswersKept
    <3>1. DOMAIN [runner[k] EXCEPT !.uncertain = FALSE, !.entry = <<>>] = Fields
      BY <1>1
    <3>2. Go(k, [runner[k] EXCEPT !.uncertain = FALSE, !.entry = <<>>], "running")
      BY <1>6 DEF SaveLands, LandingRead, ReadAlreadyApplied
    <3> QED
      BY <1>1, <3>1, <3>2, GoKeepsAnswers
  <2>2. /\ session' = session /\ UNCHANGED <<version, tree>>
        /\ runner[k].answer.kind \in {"ok", "tree"} /\ WriteApplied(runner[k].answer)
    BY <1>6 DEF SaveLands, LandingRead, ReadAlreadyApplied, server
  <2> QED
    BY <2>1, <2>2, AdoptedKeepsSeen
<1> QED
  BY <1>3, <1>4, <1>5, <1>6 DEF ClientStep

LEMMA EditorKeepsSeen ==
  ASSUME SeenInv, Editor \/ IdleFires \/ HeartbeatLost \/ Dispose
  PROVE  SeenInv'
<1>1. HasRunners /\ session \in Sessions /\ DOMAIN Mine = Fields /\ Mine = runner[session]
  BY DEF SeenInv, HasRunners, Mine
<1>2. \A r : DOMAIN r = Fields => DOMAIN Kicked(r) = Fields /\ Kicked(r).answer = r.answer
  BY DEF Kicked, Fields
<1>3. ASSUME NEW x, runner' = [runner EXCEPT ![session] = x], DOMAIN x = Fields,
             x.answer = runner[session].answer
      PROVE  AnswersKept
  BY <1>1, <1>3, StepKeepsAnswers
<1>4. \A flush, timer :
        /\ DOMAIN [Mine EXCEPT !.flush = flush] = Fields
        /\ [Mine EXCEPT !.flush = flush].answer = Mine.answer
        /\ DOMAIN [Mine EXCEPT !.timer = timer] = Fields
        /\ [Mine EXCEPT !.timer = timer].answer = Mine.answer
        /\ DOMAIN [Mine EXCEPT !.timer = timer, !.flush = flush] = Fields
        /\ [Mine EXCEPT !.timer = timer, !.flush = flush].answer = Mine.answer
        /\ DOMAIN [Mine EXCEPT !.flush = flush, !.timer = timer] = Fields
        /\ [Mine EXCEPT !.flush = flush, !.timer = timer].answer = Mine.answer
  BY <1>1 DEF Fields
<1>5. ASSUME NEW r, DOMAIN r = Fields, r.answer = Mine.answer, runner' = [runner EXCEPT ![session] = Kicked(r)]
      PROVE  AnswersKept
  BY <1>1, <1>2, <1>3, <1>5
<1>6. CASE \E a \in Acts, immediate \in BOOLEAN : Perform(a, immediate)
  <2>1. PICK a \in Acts, immediate \in BOOLEAN : Perform(a, immediate)
    BY <1>6
  <2>2. PICK r : r = [Mine EXCEPT !.flush = IF Mine.flush = "waiting" THEN Mine.flush ELSE "none"]
    OBVIOUS
  <2>3. DOMAIN r = Fields /\ r.answer = Mine.answer
    BY <1>4, <2>2
  <2>4. runner' = [runner EXCEPT ![session] = IF immediate \/ KindOf[a] # "update"
                     THEN Kicked(r) ELSE [r EXCEPT !.timer = TRUE]]
    BY <2>1, <2>2 DEF Perform
  <2>5. DOMAIN [r EXCEPT !.timer = TRUE] = Fields /\ [r EXCEPT !.timer = TRUE].answer = r.answer
    BY <2>3 DEF Fields
  <2>6. AnswersKept
    BY <1>1, <1>2, <1>3, <2>3, <2>4, <2>5
  <2> QED
    BY <2>1, <2>6, QuietKeepsSeen DEF Perform, server
<1>7. CASE \/ IdleFires \/ Flush \/ RetrySave \/ \E b \in Blocks : ReadyBlock(b)
  <2>1. AnswersKept
    <3>1. CASE IdleFires
      <4>1. PICK r : r = [Mine EXCEPT !.timer = FALSE]
        OBVIOUS
      <4>2. runner' = [runner EXCEPT ![session] = Kicked(r)]
        BY <3>1, <4>1 DEF IdleFires
      <4>3. DOMAIN r = Fields /\ r.answer = Mine.answer
        BY <1>4, <4>1
      <4> QED
        BY <1>5, <4>2, <4>3
    <3>2. CASE Flush
      <4>1. PICK r : r = [Mine EXCEPT !.timer = FALSE, !.flush = "waiting"]
        OBVIOUS
      <4>2. runner' = [runner EXCEPT ![session] = Kicked(r)]
        BY <3>2, <4>1 DEF Flush
      <4>3. DOMAIN r = Fields /\ r.answer = Mine.answer
        BY <1>4, <4>1
      <4> QED
        BY <1>5, <4>2, <4>3
    <3>3. CASE RetrySave
      BY <1>1, <1>5, <3>3 DEF RetrySave
    <3>4. CASE \E b \in Blocks : ReadyBlock(b)
      <4>1. PICK t : runner' = [runner EXCEPT ![session] = Kicked([Mine EXCEPT !.timer = t])]
        BY <3>4 DEF ReadyBlock
      <4>2. PICK r : r = [Mine EXCEPT !.timer = t]
        OBVIOUS
      <4>3. DOMAIN r = Fields /\ r.answer = Mine.answer
        BY <1>4, <4>2
      <4> QED
        BY <1>5, <4>1, <4>2, <4>3
    <3> QED
      BY <1>7, <3>1, <3>2, <3>3, <3>4
  <2>2. session' = session /\ UNCHANGED <<model, pageVersion, version, tree>>
    BY <1>7 DEF IdleFires, Flush, RetrySave, ReadyBlock, server
  <2> QED
    BY <2>1, <2>2, QuietKeepsSeen
<1>8. CASE HeartbeatLost
  <2>1. AnswersKept
    BY <1>1, <1>8 DEF HeartbeatLost, AnswersKept, HasRunners
  <2> QED
    BY <1>8, <2>1, QuietKeepsSeen DEF HeartbeatLost, server
<1>9. CASE Dispose
  <2>1. PICK r : r = [Mine EXCEPT !.disposed = TRUE, !.timer = FALSE]
    OBVIOUS
  <2>2. DOMAIN r = Fields /\ r.answer = Mine.answer
    BY <1>1, <2>1 DEF Fields
  <2>3. runner' = [runner EXCEPT ![session] = Settled(r, queue)]
    BY <1>9, <2>1 DEF Dispose
  <2>4. DOMAIN Settled(r, queue) = Fields /\ Settled(r, queue).answer = r.answer
    BY <2>2, SettledKeeps
  <2>5. AnswersKept
    BY <1>1, <1>3, <2>2, <2>3, <2>4
  <2> QED
    BY <1>9, <2>5, QuietKeepsSeen DEF Dispose, store, server
<1> QED
  BY <1>6, <1>7, <1>8, <1>9 DEF Editor

\* A write moves the page past everything anybody has been told.
LEMMA WritesKeepSeen ==
  ASSUME SeenInv, version' = version + 1, UNCHANGED <<session, model, pageVersion>>, HasRunners',
         \A k \in Sessions : \/ runner'[k].answer = runner[k].answer
                             \/ runner'[k].answer = [kind |-> "committed", version |-> version']
  PROVE  SeenInv'
  BY DEF SeenInv, TrueAnswer, Versioned

LEMMA ServerKeepsSeen ==
  ASSUME SeenInv, NEW k \in Sessions, ServerStep(k)
  PROVE  SeenInv'
<1>1. HasRunners /\ DOMAIN runner[k] = Fields
  BY DEF SeenInv, HasRunners
<1>2. ASSUME NEW ans, Answered(k, ans)
      PROVE  HasRunners' /\ \A j \in Sessions : runner'[j].answer = IF j = k THEN ans ELSE runner[j].answer
  BY <1>1, <1>2 DEF Answered, HasRunners, Fields
<1>3. ASSUME NEW ans, Answered(k, ans), TrueAnswer(ans),
             UNCHANGED <<session, model, pageVersion, version, tree>>
      PROVE  SeenInv'
  BY <1>2, <1>3 DEF SeenInv, TrueAnswer
<1>4. CASE ServerEdit(k)
  <2>1. UNCHANGED <<session, model, pageVersion>>
    BY <1>4 DEF ServerEdit, store
  <2>2. PICK verdict : verdict = Verdict(runner[k].entry[1], runner[k].base)
    OBVIOUS
  <2>3. CASE verdict = "ok"
    <3>1. version' = version + 1 /\ Answered(k, [kind |-> "committed", version |-> version'])
      BY <1>4, <2>2, <2>3 DEF ServerEdit, CarriedOut
    <3> QED
      BY <1>2, <2>1, <3>1, WritesKeepSeen
  <2>4. CASE verdict # "ok"
    <3>1. Answered(k, [kind |-> verdict]) /\ UNCHANGED <<version, tree>>
      BY <1>4, <2>2, <2>4 DEF ServerEdit, CarriedOut
    <3>2. verdict \in {"session", "stale", "locked", "refused"}
      BY <2>2, <2>4 DEF Verdict
    <3>3. TrueAnswer([kind |-> verdict])
      BY <3>2 DEF TrueAnswer, Versioned
    <3> QED
      BY <1>3, <2>1, <3>1, <3>3
  <2> QED
    BY <2>3, <2>4
<1>5. TrueAnswer(runner[k].answer)
  BY DEF SeenInv
<1>6. CASE ServerReadBack(k)
  <2>1. UNCHANGED <<session, model, pageVersion, version, tree>>
    BY <1>6 DEF ServerReadBack, store, server
  <2>2. runner[k].answer.version \in Nat /\ runner[k].answer.version <= version
    BY <1>5, <1>6 DEF ServerReadBack, TrueAnswer, Versioned
  <2>3. /\ TrueAnswer([kind |-> "ok", tree |-> tree, version |-> runner[k].answer.version])
        /\ TrueAnswer([kind |-> "unread", version |-> runner[k].answer.version])
    BY <2>2 DEF TrueAnswer
  <2> QED
    BY <1>3, <1>6, <2>1, <2>3 DEF ServerReadBack
<1>7. CASE ServerReadPage(k)
  <2>1. UNCHANGED <<session, model, pageVersion, version, tree>>
    BY <1>7 DEF ServerReadPage, store, server
  <2>2. /\ TrueAnswer([kind |-> "page", version |-> version])
        /\ TrueAnswer([kind |-> "session"])
    BY DEF TrueAnswer, SeenInv, Versioned
  <2>3. \/ Answered(k, [kind |-> "page", version |-> version])
        \/ Answered(k, [kind |-> "session"])
    BY <1>7 DEF ServerReadPage
  <2> QED
    BY <1>3, <2>1, <2>2, <2>3
<1>8. CASE ServerReadBlocks(k)
  <2>1. UNCHANGED <<session, model, pageVersion, version, tree>>
    BY <1>8 DEF ServerReadBlocks, store, server
  <2>2. runner[k].answer.version \in Nat /\ runner[k].answer.version <= version
    BY <1>5, <1>8 DEF ServerReadBlocks, TrueAnswer, Versioned
  <2>3. TrueAnswer([kind |-> "tree", tree |-> tree, version |-> runner[k].answer.version])
    BY <2>2 DEF TrueAnswer
  <2> QED
    BY <1>3, <1>8, <2>1, <2>3 DEF ServerReadBlocks
<1> QED
  BY <1>4, <1>6, <1>7, <1>8 DEF ServerStep

LEMMA NextKeepsSeen ==
  ASSUME SeenInv, [Next]_vars
  PROVE  SeenInv'
<1>1. HasRunners
  BY DEF SeenInv
<1>2. CASE UNCHANGED vars
  BY <1>2 DEF vars, store, server, SeenInv, HasRunners, TrueAnswer
<1>3. CASE Editor \/ IdleFires \/ HeartbeatLost \/ Dispose
  BY <1>3, EditorKeepsSeen
<1>4. ASSUME NEW k \in Sessions, ClientStep(k) PROVE SeenInv'
  BY <1>4, ClientKeepsSeen
<1>5. ASSUME NEW k \in Sessions, ServerStep(k) PROVE SeenInv'
  BY <1>5, ServerKeepsSeen
<1>6. CASE Reopen
  BY <1>6 DEF Reopen, SeenInv, Sessions, HasRunners, TrueAnswer
<1>7. CASE Environment
  <2>1. CASE ForeignWrite \/ OtherTakesOver
    <3>1. /\ version' = version + 1 /\ UNCHANGED <<session, model, pageVersion, runner>>
      BY <2>1 DEF ForeignWrite, OtherTakesOver, store
    <3>2. HasRunners'
      BY <1>1, <3>1 DEF HasRunners
    <3> QED
      BY <3>1, <3>2, WritesKeepSeen
  <2>2. CASE LockMoves \/ SessionEnds
    BY <2>2 DEF LockMoves, SessionEnds, store, SeenInv, HasRunners, TrueAnswer
  <2>3. ASSUME NEW s \in strays, StrayArrives(s) PROVE SeenInv'
    <3>1. UNCHANGED <<session, model, pageVersion, runner>>
      BY <2>3 DEF StrayArrives, store
    <3>2. HasRunners'
      BY <1>1, <3>1 DEF HasRunners
    <3>3. CASE version' = version + 1
      BY <3>1, <3>2, <3>3, WritesKeepSeen
    <3>4. CASE UNCHANGED <<version, tree>>
      BY <3>1, <3>4 DEF SeenInv, HasRunners, TrueAnswer
    <3> QED
      BY <2>3, <3>3, <3>4 DEF StrayArrives, CarriedOut
  <2> QED
    BY <1>7, <2>1, <2>2, <2>3 DEF Environment
<1> QED
  BY <1>2, <1>3, <1>4, <1>5, <1>6, <1>7 DEF Next, Tab

LEMMA InitSeen == Init => SeenInv
<1> SUFFICES ASSUME Init PROVE SeenInv
  OBVIOUS
<1>1. runner = [k \in Sessions |-> Fresh] /\ session = 1 /\ version = 1 /\ pageVersion = 1 /\ model = tree
  BY DEF Init
<1>2. 1 \in Sessions
  BY DEF Sessions
<1>3. DOMAIN Fresh = Fields /\ Fresh.answer.kind = "none"
  BY DEF Fresh, Fields, NoAnswer
<1> QED
  BY <1>1, <1>2, <1>3 DEF SeenInv, HasRunners, TrueAnswer, Versioned

\* Whatever awaits overlap, retries and strays: a write the server would accept
\* is made on the tree that the server has.
THEOREM AcceptedSeen == Spec => []AcceptedIsSeen
<1>1. Init => SeenInv
  BY InitSeen
<1>2. SeenInv /\ [Next]_vars => SeenInv'
  BY NextKeepsSeen
<1>3. SeenInv => AcceptedIsSeen
  BY DEF SeenInv, AcceptedIsSeen
<1> QED
  BY <1>1, <1>2, <1>3, PTL DEF Spec

-----------------------------------------------------------------------------
(* The invariant, when no await outlasts its session.                      *)

Pcs == {"idle", "running", "sending", "reading", "landing", "asking"}
Awaiting(pc) == pc \in {"sending", "reading", "landing"}

DataOK ==
  /\ status \in {"editing", "locked"}
  /\ model \in Tree /\ pageVersion \in Nat
  /\ notice \in {"none", "taken-over", "session-ended", "stale"}
  /\ strays \subseteq [entry : Entries, base : Nat]
  /\ version \in Nat /\ tree \in Tree
  /\ holder \in {"mine", "other", "free"} /\ signedIn \in BOOLEAN
  /\ performed \in Seq(Acts) /\ landed \in Seq(SUBSET Acts)
  /\ dropped \subseteq Acts

\* Only the session's runner does anything.
RunnersOK ==
  /\ session \in Sessions
  /\ runner \in [Sessions -> Runners] /\ \A k \in Sessions : Len(runner[k].entry) <= 1
  /\ \A k \in Sessions : k # session => runner[k].pc = "idle"
  /\ \A k \in Sessions : k > session => runner[k] = Fresh
  /\ \A k \in Sessions : ~Awaiting(runner[k].pc) => runner[k].answer = NoAnswer

SoloInv ==
  /\ Mine.disposed => status = "locked"
  /\ scope = IF Mine.pc = "sending" THEN <<session>> ELSE <<>>

\* The loop and the queue agree on what is in flight, and nothing is left lying.
AgreeInv ==
  /\ status = "locked" => ~HasPending(queue)
  /\ Awaiting(Mine.pc) =>
       Mine.entry # <<>> /\ (status = "editing" => queue.inFlight = Mine.entry)
  /\ ~Awaiting(Mine.pc) => queue.inFlight = <<>>
  /\ status = "editing" =>
       /\ Mine.pc = "asking" => queue.status = "paused" /\ queue.lastFailure # "network"
       /\ Mine.flush = "saved" => ~HasPending(queue)
       /\ Mine.pc = "idle" /\ ~Held(queue) =>
            \A i \in DOMAIN queue.entries : i = 1 => ~queue.entries[i].ready
       /\ \A i \in DOMAIN queue.entries :
            ~queue.entries[i].ready /\ (i # 1 \/ ~HoldsAfterNetworkFailure(queue)) => Mine.timer

CoreInv == RunnersOK /\ DataOK /\ Sound(performed, queue) /\ SoloInv /\ AgreeInv

\* The request that the session's runner waits for, and all that may yet arrive.
Request == [entry |-> Mine.entry[1], base |-> Mine.base]
InAir == strays \cup (IF Mine.pc = "sending" THEN {Request} ELSE {})

Known(e) == e \in Entries /\ WellShaped(e) /\ e.acts \subseteq Performed

KnownInv ==
  /\ \A m, n \in DOMAIN performed : performed[m] = performed[n] => m = n
  /\ \A a \in Acts : Landed(a) \/ a \in Pending(queue) => a \in Performed
  /\ \A c \in InAir : Known(c.entry)
  /\ Awaiting(Mine.pc) => Known(Mine.entry[1])

\* Nothing in the air was made on a newer page than the editor has seen.
BaseInv ==
  /\ pageVersion <= version
  /\ \A c \in InAir : c.base <= pageVersion
  /\ Awaiting(Mine.pc) =>
       /\ Mine.base = pageVersion
       /\ Mine.answer.kind \in Versioned => Mine.answer.version >= Mine.base
       /\ Mine.answer.kind = "stale" => Mine.base < version
       /\ Mine.pc = "reading" => Mine.base < version

\* What has arrived makes everything too old that would repeat or precede it.
SpentInv ==
  /\ \A c \in InAir : \A a \in c.entry.acts, x \in Acts :
       Landed(x) /\ (a = x \/ Before(performed, a, x)) => c.base < version
  /\ \A a \in Pending(queue) : Landed(a) => pageVersion < version
  /\ \A X \in {landed[n] : n \in DOMAIN landed} \cup {c.entry.acts : c \in InAir} :
       /\ X \cap Later(queue) = {}
       /\ \A x \in X, a \in Pending(queue) : Before(performed, a, x) => a \in X

\* Where every act is.
AccountInv ==
  /\ status = "editing" =>
       \A a \in Performed : Landed(a) \/ a \in dropped \/ a \in Pending(queue)
  /\ \/ Mine.pc = "landing"
     \/ Mine.pc = "sending" /\ Mine.answer.kind \in {"committed", "ok", "unread"}
     => \A a \in Mine.entry[1].acts : Landed(a)
  /\ \A a \in tree.values : Landed(a)
  /\ Mine.answer.kind \in {"ok", "tree"} => \A a \in Mine.answer.tree.values : Landed(a)
  /\ Mine.pc = "reading" /\ Mine.answer.kind = "tree" => tree.blocks \subseteq Mine.answer.tree.blocks

\* A block that is not there may be inserted again: what is to be there is not.
IdsInv ==
  /\ \A a \in Performed : KindOf[a] = "insert" /\ ~Landed(a) =>
       /\ BlockOf[a] \notin tree.blocks \cup model.blocks
       /\ Mine.answer.kind \in {"ok", "tree"} => BlockOf[a] \notin Mine.answer.tree.blocks
  /\ \A b \in tree.blocks : b \in model.blocks \/ ~(Minted(b) \/ Deleted(b))
  /\ Mine.answer.kind \in {"ok", "tree"} =>
       /\ \A b \in Mine.answer.tree.blocks : b \in model.blocks \/ ~(Minted(b) \/ Deleted(b))
       /\ \A b \in tree.blocks \ Mine.answer.tree.blocks :
            b \notin model.blocks /\ ~(Minted(b) \/ Deleted(b))
  /\ \A m, n \in DOMAIN performed :
       /\ m < n /\ BlockOf[performed[m]] = BlockOf[performed[n]]
       /\ KindOf[performed[m]] = "insert" /\ KindOf[performed[n]] \in {"insert", "delete"}
       => Landed(performed[m])

TurnInv == AtMostOnce /\ OrderKept

IInv == CoreInv /\ KnownInv /\ BaseInv /\ SpentInv /\ AccountInv /\ IdsInv /\ TurnInv

-----------------------------------------------------------------------------
(* Steps of the session's runner.                                          *)

\* A runner's record after a step of its own.
Moved(r, pc) ==
  /\ RunnersOK' /\ session' = session
  /\ Mine'.pc = pc
  /\ Mine'.base = r.base /\ Mine'.timer = r.timer /\ Mine'.disposed = r.disposed
  /\ Mine'.flush = r.flush \/ (r.flush = "waiting" /\ (Mine'.flush = "saved" => ~HasPending(queue')))

LEMMA MineTyped ==
  ASSUME RunnersOK
  PROVE  /\ Mine = runner[session] /\ session \in Sessions
         /\ Mine \in Runners /\ Len(Mine.entry) <= 1
         /\ Mine.pc \in Pcs /\ Mine.entry \in Seq(Entries) /\ Mine.base \in Nat
         /\ Mine.answer \in Answers
  BY DEF RunnersOK, Mine, Runners, Pcs

LEMMA EntryParts ==
  ASSUME NEW e \in Seq(Entries), Len(e) <= 1
  PROVE  /\ e # <<>> => e[1] \in Entries /\ DOMAIN e = {1}
         /\ e = <<>> => DOMAIN e = {}
<1>1. Len(e) \in Nat /\ DOMAIN e = 1..Len(e)
  BY LenProperties
<1>2. e # <<>> => Len(e) # 0
  BY EmptySeq
<1>3. \A n \in Nat : n <= 1 /\ n # 0 => n = 1
  OBVIOUS
<1>4. e # <<>> => Len(e) = 1
  BY <1>1, <1>2, <1>3, Zenon
<1>5. 1..1 = {1}
  OBVIOUS
<1>6. e # <<>> => e[1] \in Entries
  BY <1>1, <1>4, <1>5, ElementOfSeq
<1> QED
  BY <1>1, <1>4, <1>5, <1>6

LEMMA MovesOK ==
  ASSUME RunnersOK, NEW x \in Runners, Len(x.entry) <= 1,
         runner' = [runner EXCEPT ![session] = x], session' = session,
         ~Awaiting(x.pc) => x.answer = NoAnswer
  PROVE  RunnersOK' /\ Mine' = x
<1>1. /\ session \in Sessions /\ runner \in [Sessions -> Runners]
      /\ \A k \in Sessions : Len(runner[k].entry) <= 1
      /\ \A k \in Sessions : k # session => runner[k].pc = "idle"
      /\ \A k \in Sessions : k > session => runner[k] = Fresh
      /\ \A k \in Sessions : ~Awaiting(runner[k].pc) => runner[k].answer = NoAnswer
  BY DEF RunnersOK
<1>2. runner' \in [Sessions -> Runners]
  BY <1>1
<1>3. /\ runner'[session] = x
      /\ \A k \in Sessions : k # session => runner'[k] = runner[k]
  BY <1>1
<1>4. \A k \in Sessions : k > session => k # session
  BY <1>1 DEF Sessions
<1> QED
  BY <1>1, <1>2, <1>3, <1>4 DEF RunnersOK, Mine

LEMMA GoMoves ==
  ASSUME RunnersOK, NEW r \in Runners, Len(r.entry) <= 1, NEW pc \in Pcs,
         Go(session, r, pc), session' = session
  PROVE  Moved(r, pc) /\ Mine'.answer = NoAnswer /\ Mine'.entry = r.entry
<1> DEFINE x == [r EXCEPT !.pc = pc, !.answer = NoAnswer]
<1>1. /\ x \in Runners /\ x.pc = pc /\ x.answer = NoAnswer /\ x.entry = r.entry /\ x.base = r.base
      /\ x.timer = r.timer /\ x.flush = r.flush /\ x.disposed = r.disposed
  BY DEF Runners, Pcs, Answers
<1>2. runner' = [runner EXCEPT ![session] = x]
  BY DEF Go
<1> HIDE DEF x
<1>3. RunnersOK' /\ Mine' = x
  BY <1>1, <1>2, MovesOK
<1> QED
  BY <1>1, <1>3 DEF Moved

LEMMA SettledTyped ==
  ASSUME NEW r \in Runners, NEW q
  PROVE  LET s == Settled(r, q)
         IN /\ s \in Runners /\ s.answer = r.answer /\ s.pc = r.pc /\ s.disposed = r.disposed
            /\ s.entry = r.entry /\ s.timer = r.timer /\ s.base = r.base
            /\ s.flush = r.flush \/ (r.flush = "waiting" /\ (s.flush = "saved" => ~HasPending(q)))
  BY DEF Settled, Runners

LEMMA StopMoves ==
  ASSUME RunnersOK, NEW r \in Runners, Stop(session, r, queue'), session' = session
  PROVE  Moved(r, "idle") /\ Mine'.answer = NoAnswer /\ Mine'.entry = <<>>
<1> DEFINE s == [r EXCEPT !.pc = "idle", !.entry = <<>>, !.answer = NoAnswer]
<1>1. /\ s \in Runners /\ s.pc = "idle" /\ s.answer = NoAnswer /\ s.entry = <<>> /\ s.base = r.base
      /\ s.timer = r.timer /\ s.flush = r.flush /\ s.disposed = r.disposed
  <2>1. <<>> \in Seq(Entries)
    BY EmptySeq
  <2> QED
    BY <2>1 DEF Runners, Answers
<1>2. PICK x : x = Settled(s, queue')
  OBVIOUS
<1>3. runner' = [runner EXCEPT ![session] = x]
  BY <1>2 DEF Stop
<1> HIDE DEF s
<1>4. /\ x \in Runners /\ x.answer = NoAnswer /\ x.pc = "idle" /\ x.disposed = r.disposed
      /\ x.entry = <<>> /\ x.timer = r.timer /\ x.base = r.base
      /\ x.flush = r.flush \/ (r.flush = "waiting" /\ (x.flush = "saved" => ~HasPending(queue')))
  BY <1>1, <1>2, SettledTyped
<1>5. Len(x.entry) <= 1
  BY <1>4
<1>6. RunnersOK' /\ Mine' = x
  BY <1>3, <1>4, <1>5, MovesOK
<1> QED
  BY <1>4, <1>6 DEF Moved

LEMMA KickMoves ==
  ASSUME RunnersOK, NEW r \in Runners, Len(r.entry) <= 1,
         ~Awaiting(r.pc) => r.answer = NoAnswer,
         runner' = [runner EXCEPT ![session] = Kicked(r)], session' = session
  PROVE  /\ Moved(r, IF r.pc = "idle" /\ ~r.disposed THEN "running" ELSE r.pc)
         /\ Mine'.answer = r.answer /\ Mine'.entry = r.entry /\ Mine'.flush = r.flush
<1> DEFINE x == Kicked(r)
<1>1. /\ x \in Runners /\ x.pc = IF r.pc = "idle" /\ ~r.disposed THEN "running" ELSE r.pc
      /\ x.answer = r.answer /\ x.entry = r.entry /\ x.base = r.base
      /\ x.timer = r.timer /\ x.flush = r.flush /\ x.disposed = r.disposed
  BY DEF Kicked, Runners
<1>2. ~Awaiting(x.pc) => x.answer = NoAnswer
  BY <1>1 DEF Awaiting
<1> HIDE DEF x
<1>3. RunnersOK' /\ Mine' = x
  BY <1>1, <1>2, MovesOK DEF x
<1> QED
  BY <1>1, <1>3 DEF Moved

LEMMA CoreTyped == CoreInv => TypeOK
<1> SUFFICES ASSUME CoreInv PROVE TypeOK
  OBVIOUS
<1>1. scope \in Seq(Sessions)
  <2>1. session \in Sessions /\ (scope = <<session>> \/ scope = <<>>)
    BY DEF CoreInv, RunnersOK, SoloInv
  <2>2. <<session>> \in Seq(Sessions) /\ <<>> \in Seq(Sessions)
    BY <2>1, EmptySeq
  <2> QED
    BY <2>1, <2>2
<1> QED
  BY <1>1 DEF CoreInv, RunnersOK, DataOK, Sound, Typed, TypeOK

\* Who is in the scope is the session's runner, and it alone waits for answers.
LEMMA OnlyMine ==
  ASSUME CoreInv, NEW k \in Sessions
  PROVE  /\ runner[k].pc # "idle" => k = session
         /\ Awaiting(runner[k].pc) => k = session
         /\ runner[k].answer.kind # "none" => k = session /\ Awaiting(Mine.pc)
         /\ UnderWay(k) <=> k = session /\ Mine.pc = "sending"
         /\ MutationEnds(k) => k = session /\ Mine.pc = "sending" /\ scope' = <<>>
<1>1. runner[k].pc # "idle" => k = session
  BY DEF CoreInv, RunnersOK
<1>2. runner[k].answer.kind # "none" => Awaiting(runner[k].pc)
  BY DEF CoreInv, RunnersOK, NoAnswer
<1>3. UnderWay(k) <=> k = session /\ Mine.pc = "sending"
  BY <1>1 DEF UnderWay, CoreInv, SoloInv, Mine
<1>4. Tail(<<session>>) = <<>>
  <2>1. session \in Sessions
    BY DEF CoreInv, RunnersOK
  <2>2. <<session>> \in Seq(Sessions) /\ Len(<<session>>) = 1 /\ <<session>> # <<>>
    BY <2>1
  <2>3. Tail(<<session>>) \in Seq(Sessions) /\ Len(Tail(<<session>>)) = 0
    BY <2>2, HeadTailProperties
  <2> QED
    BY <2>3, EmptySeq
<1>5. MutationEnds(k) => k = session /\ Mine.pc = "sending" /\ scope' = <<>>
  BY <1>3, <1>4 DEF MutationEnds, CoreInv, SoloInv
<1> QED
  BY <1>1, <1>2, <1>3, <1>5 DEF Awaiting, Mine

\* The queue after a failure other than a refusal.
LEMMA FailedAgrees ==
  ASSUME CoreInv, Awaiting(Mine.pc), UNCHANGED <<status, session, performed>>,
         NEW kind \in FailureKinds \ {"refused"}, queue' = OnFailure(queue, kind),
         NEW pc \in {"idle", "asking"}, pc = "asking" => kind # "network",
         NEW r, r.timer = Mine.timer, r.flush = Mine.flush, Moved(r, pc)
  PROVE  /\ Sound(performed, queue)' /\ AgreeInv'
         /\ Pending(queue') = Pending(queue) /\ Later(queue') = Later(queue)
<1>1. Sound(performed, queue) /\ AgreeInv
  BY DEF CoreInv
<1>2. /\ Sound(performed, queue') /\ queue'.inFlight = <<>> /\ Held(queue')
      /\ Later(queue') = Later(queue) /\ Pending(queue') = Pending(queue)
      /\ (HasPending(queue') <=> HasPending(queue))
      /\ queue'.status = IF kind = "network" THEN "failed" ELSE "paused"
      /\ queue'.lastFailure = kind
      /\ HoldsAfterNetworkFailure(queue') <=> kind = "network"
      /\ queue.inFlight # <<>> =>
           /\ kind # "network" => queue'.entries[1].ready
           /\ \A i \in DOMAIN queue'.entries : i # 1 =>
                i - 1 \in DOMAIN queue.entries /\ queue'.entries[i] = queue.entries[i - 1]
  BY <1>1, FailedSound
<1>3. Mine'.pc = pc /\ Mine'.timer = Mine.timer /\ ~Awaiting(Mine'.pc)
  BY DEF Moved, Awaiting
<1>4. Mine'.flush = "saved" => Mine.flush = "saved" \/ ~HasPending(queue')
  BY DEF Moved
<1>5. ASSUME status = "editing" PROVE queue.inFlight # <<>> /\ ~Held(queue)
  BY <1>1, <1>5 DEF AgreeInv, Sound, Consistent
<1>6. ASSUME status = "editing", NEW i \in DOMAIN queue'.entries, ~queue'.entries[i].ready,
             i # 1 \/ ~HoldsAfterNetworkFailure(queue')
      PROVE  Mine.timer
  <2>1. i # 1
    BY <1>2, <1>5, <1>6
  <2>2. i - 1 \in DOMAIN queue.entries /\ ~queue.entries[i - 1].ready
    BY <1>2, <1>5, <1>6, <2>1
  <2>3. ~HoldsAfterNetworkFailure(queue)
    BY <1>5, <1>6 DEF Held
  <2> QED
    BY <1>1, <1>6, <2>2, <2>3 DEF AgreeInv
<1>7. AgreeInv'
  BY <1>1, <1>2, <1>3, <1>4, <1>6 DEF AgreeInv
<1> QED
  BY <1>2, <1>7

\* The queue after a success or a refusal: the loop goes on.
LEMMA GoneAgrees ==
  ASSUME CoreInv, Awaiting(Mine.pc), UNCHANGED <<status, session, performed>>,
         queue' = OnSuccess(queue) \/ queue' = OnFailure(queue, "refused"),
         NEW r, r.timer = Mine.timer, r.flush = Mine.flush, Moved(r, "running")
  PROVE  /\ Sound(performed, queue)' /\ AgreeInv'
         /\ Pending(queue') \subseteq Pending(queue) /\ Later(queue') \subseteq Later(queue)
         /\ status = "editing" => /\ Pending(queue') = Later(queue)
                                  /\ Pending(queue) = Later(queue) \cup Mine.entry[1].acts
         /\ status = "locked" => Pending(queue') = {}
<1>1. Sound(performed, queue) /\ AgreeInv /\ status \in {"editing", "locked"} /\ RunnersOK
  BY DEF CoreInv, DataOK
<1>2. /\ Sound(performed, queue') /\ queue'.inFlight = <<>> /\ ~Held(queue')
      /\ queue'.entries = queue.entries
      /\ Later(queue') \subseteq Later(queue) /\ Pending(queue') \subseteq Pending(queue)
      /\ queue.inFlight # <<>> => Pending(queue') = Later(queue)
      /\ HasPending(queue') => HasPending(queue)
  <2>1. CASE queue' = OnSuccess(queue)
    BY <1>1, <2>1, SuccessSound
  <2>2. CASE queue' = OnFailure(queue, "refused")
    BY <1>1, <2>2, RefusedSound
  <2> QED
    BY <2>1, <2>2
<1>3. Mine'.pc = "running" /\ Mine'.timer = Mine.timer /\ ~Awaiting(Mine'.pc)
  BY DEF Moved, Awaiting
<1>4. Mine'.flush = "saved" => Mine.flush = "saved" \/ ~HasPending(queue')
  BY DEF Moved
<1>5. ASSUME status = "editing"
      PROVE  queue.inFlight # <<>> /\ ~Held(queue) /\ queue.inFlight = Mine.entry
  BY <1>1, <1>5 DEF AgreeInv, Sound, Consistent
<1>6. status = "editing" => ~HoldsAfterNetworkFailure(queue)
  BY <1>5 DEF Held
<1>7. AgreeInv'
  BY <1>1, <1>2, <1>3, <1>4, <1>6 DEF AgreeInv
<1>8. ASSUME status = "editing" PROVE Pending(queue) = Later(queue) \cup Mine.entry[1].acts
  <2>1. DOMAIN queue.inFlight = {1} /\ queue.inFlight[1].acts \subseteq Acts
    BY <1>1, <1>5, <1>8, TypedParts DEF Sound, Entries
  <2>2. First(queue) = queue.inFlight[1].acts
    BY <1>5, <1>8, <2>1 DEF First
  <2> QED
    BY <1>5, <1>8, <2>2 DEF Pending
<1>9. ASSUME status = "locked" PROVE Pending(queue') = {}
  <2>1. ~HasPending(queue')
    BY <1>1, <1>2, <1>9 DEF AgreeInv
  <2>2. DOMAIN queue'.entries = {} /\ DOMAIN queue'.inFlight = {}
    BY <2>1 DEF HasPending
  <2> QED
    BY <2>2 DEF Pending, First, Later
<1> QED
  BY <1>2, <1>5, <1>7, <1>8, <1>9

\* What most steps of the tab leave to the invariant's other parts: nothing new
\* is sent, nothing comes to wait, and the page and what is known of it stay.
Frame == session' = session /\ UNCHANGED <<performed, landed, model, pageVersion, version, tree>>
Quietly ==
  /\ Frame
  /\ strays' \subseteq InAir
  /\ Pending(queue') \subseteq Pending(queue) /\ Later(queue') \subseteq Later(queue)
  /\ dropped \subseteq dropped'
  /\ status' = "editing" => status = "editing" /\ Pending(queue) \subseteq Pending(queue') \cup dropped'
  /\ Awaiting(Mine'.pc) => Awaiting(Mine.pc) /\ Mine'.entry = Mine.entry /\ Mine'.base = Mine.base
  /\ Mine'.pc = "sending" => Mine.pc = "sending"
  /\ Mine'.pc = "landing" =>
       Mine.pc = "landing" \/ (Mine.pc = "sending" /\ Mine.answer.kind = "unread")
  /\ Mine'.pc = "reading" => Mine.pc = "reading" \/ Mine.answer.kind = "stale"
  /\ Mine'.answer = NoAnswer \/ (Mine'.answer = Mine.answer /\ Mine'.pc = Mine.pc)

\* The runner's record with nothing changed that the invariant looks at.
Alike(r) ==
  /\ r \in Runners /\ r.entry = Mine.entry /\ r.base = Mine.base
  /\ r.timer = Mine.timer /\ r.flush = Mine.flush /\ r.disposed = Mine.disposed

LEMMA UncertainAlike ==
  ASSUME RunnersOK, NEW u \in BOOLEAN
  PROVE  Alike(Mine) /\ Alike([Mine EXCEPT !.uncertain = u])
<1>1. Mine \in Runners
  BY MineTyped
<1> QED
  BY <1>1 DEF Alike, Runners

LEMMA InAirTyped ==
  ASSUME CoreInv
  PROVE  /\ InAir \subseteq [entry : Entries, base : Nat]
         /\ Mine.pc = "sending" => Request \in InAir
         /\ Awaiting(Mine.pc) => Mine.entry[1] \in Entries /\ Mine.entry # <<>>
<1>1. Awaiting(Mine.pc) => Mine.entry[1] \in Entries /\ Mine.entry # <<>>
  BY MineTyped, EntryParts DEF CoreInv, AgreeInv
<1>2. Mine.base \in Nat
  BY MineTyped DEF CoreInv
<1>3. Mine.pc = "sending" => Awaiting(Mine.pc)
  BY DEF Awaiting
<1> QED
  BY <1>1, <1>2, <1>3 DEF InAir, Request, CoreInv, DataOK

\* A step of the runner that ends in pc with its queue sound.
LEMMA CoreFrom ==
  ASSUME CoreInv, DataOK', Sound(performed, queue)', AgreeInv',
         NEW r, NEW pc, Moved(r, pc), r.disposed = Mine.disposed,
         status' = "editing" => status = "editing",
         scope' = IF pc = "sending" THEN <<session>> ELSE <<>>
  PROVE  CoreInv'
<1>1. status' \in {"editing", "locked"} /\ (Mine.disposed => status = "locked")
  BY DEF DataOK, CoreInv, SoloInv
<1>2. SoloInv'
  BY <1>1 DEF Moved, SoloInv
<1> QED
  BY <1>2 DEF CoreInv, Moved

LEMMA FailedStep ==
  ASSUME CoreInv, Awaiting(Mine.pc), Frame, UNCHANGED <<status, holder, signedIn, dropped>>,
         notice' \in {"none", "taken-over", "session-ended", "stale"},
         strays' \subseteq InAir, scope' = <<>>,
         NEW kind \in FailureKinds \ {"refused"}, queue' = OnFailure(queue, kind),
         NEW r, Alike(r),
         Stop(session, r, queue') \/ (Go(session, r, "asking") /\ kind # "network")
  PROVE  CoreInv' /\ Quietly
<1>0. RunnersOK /\ session' = session /\ Len(Mine.entry) <= 1 /\ UNCHANGED <<status, session, performed>>
  BY MineTyped DEF CoreInv, Frame
<1>1. r \in Runners /\ Len(r.entry) <= 1
  BY <1>0 DEF Alike
<1>2. PICK pc \in {"idle", "asking"} :
        Moved(r, pc) /\ Mine'.answer = NoAnswer /\ (pc = "asking" => kind # "network")
  <2>1. CASE Stop(session, r, queue')
    BY <1>0, <1>1, <2>1, StopMoves
  <2>2. CASE Go(session, r, "asking") /\ kind # "network"
    <3>1. PICK pc \in Pcs : pc = "asking"
      BY DEF Pcs
    <3>2. Go(session, r, pc)
      BY <2>2, <3>1
    <3>3. Moved(r, pc) /\ Mine'.answer = NoAnswer
      BY <1>0, <1>1, <3>2, GoMoves
    <3> QED
      BY <2>2, <3>1, <3>3
  <2> QED
    BY <2>1, <2>2
<1>3. /\ Sound(performed, queue)' /\ AgreeInv'
      /\ Pending(queue') = Pending(queue) /\ Later(queue') = Later(queue)
  <2>1. r.timer = Mine.timer /\ r.flush = Mine.flush
    BY DEF Alike
  <2> QED
    BY <1>0, <1>2, <2>1, FailedAgrees
<1>4. DataOK'
  BY InAirTyped DEF CoreInv, DataOK, Frame
<1>5. CoreInv'
  <2>1. r.disposed = Mine.disposed /\ scope' = IF pc = "sending" THEN <<session>> ELSE <<>>
    BY DEF Alike
  <2> QED
    BY <1>0, <1>2, <1>3, <1>4, <2>1, CoreFrom
<1>6. Mine'.pc = pc /\ ~Awaiting(Mine'.pc)
  BY <1>2 DEF Moved, Awaiting
<1>7. Quietly
  BY <1>0, <1>2, <1>3, <1>6 DEF Quietly, Awaiting
<1> QED
  BY <1>5, <1>7

\* The same, when the queue stays as it is.
LEMMA SameQueueStep ==
  ASSUME CoreInv, Frame, UNCHANGED <<status, queue, holder, signedIn, dropped>>,
         notice' \in {"none", "taken-over", "session-ended", "stale"},
         strays' \subseteq InAir,
         NEW r, Alike(r), NEW pc \in Pcs, Moved(r, pc), Mine'.answer = NoAnswer,
         Awaiting(pc) => Awaiting(Mine.pc) /\ Mine'.entry = Mine.entry,
         status = "editing" => (Awaiting(Mine.pc) => Awaiting(pc)) /\ pc # "asking",
         Mine.pc # "idle" /\ pc = "idle" => Held(queue) \/ status = "locked",
         scope' = IF pc = "sending" THEN <<session>> ELSE <<>>,
         pc = "sending" => Mine.pc = "sending",
         pc = "landing" => Mine.pc = "landing" \/ (Mine.pc = "sending" /\ Mine.answer.kind = "unread"),
         pc = "reading" => Mine.pc = "reading" \/ Mine.answer.kind = "stale"
  PROVE  CoreInv' /\ Quietly
<1>1. /\ Mine'.pc = pc /\ Mine'.timer = Mine.timer /\ Mine'.base = Mine.base
      /\ Mine'.flush = "saved" => Mine.flush = "saved" \/ ~HasPending(queue)
  BY DEF Moved, Alike
<1>2. DataOK'
  BY InAirTyped DEF CoreInv, DataOK, Frame
<1>3. Sound(performed, queue)'
  BY DEF CoreInv, Frame
<1>4. AgreeInv'
  <2>1. ~Awaiting(pc) => queue.inFlight = <<>>
    <3>1. CASE status = "editing"
      BY <3>1 DEF CoreInv, AgreeInv
    <3>2. CASE status # "editing"
      BY <3>2 DEF CoreInv, AgreeInv, DataOK, HasPending
    <3> QED
      BY <3>1, <3>2
  <2>2. status = "locked" => ~HasPending(queue)
    BY DEF CoreInv, AgreeInv
  <2>3. status = "editing" =>
          /\ pc # "asking"
          /\ pc = "idle" => Held(queue) \/ Mine.pc = "idle"
    OBVIOUS
  <2> QED
    BY <1>1, <2>1, <2>2, <2>3 DEF CoreInv, AgreeInv
<1>5. CoreInv'
  BY <1>2, <1>3, <1>4, CoreFrom DEF Alike
<1>6. Quietly
  BY <1>1 DEF Quietly, Awaiting
<1> QED
  BY <1>5, <1>6

\* The page is lost to somebody else: the queue with it.
LEMMA TakenOverStep ==
  ASSUME CoreInv, Frame, TookOver, UNCHANGED <<holder, signedIn, dropped, strays>>,
         NEW r, Alike(r), NEW pc, Moved(r, pc),
         \/ pc = Mine.pc /\ Mine'.answer = Mine.answer /\ Mine'.entry = Mine.entry /\ scope' = scope
         \/ pc = "idle" /\ Mine'.answer = NoAnswer /\ scope' = <<>>
  PROVE  CoreInv' /\ Quietly
<1>1. /\ Mine'.pc = pc /\ Mine'.timer = Mine.timer /\ Mine'.base = Mine.base
  BY DEF Moved, Alike
<1>2. /\ status' = "locked" /\ notice' = "taken-over" /\ queue' = CreateQueue
      /\ performed' = performed
  BY DEF TookOver, Frame
<1>3. /\ Sound(performed, queue') /\ Pending(queue') = {} /\ Later(queue') = {}
      /\ queue'.inFlight = <<>> /\ ~HasPending(queue')
  BY <1>2, CreateSound
<1>4. Awaiting(pc) => pc = Mine.pc /\ Mine.entry # <<>> /\ Mine'.entry = Mine.entry
  BY DEF Awaiting, CoreInv, AgreeInv
<1>5. AgreeInv'
  BY <1>1, <1>2, <1>3, <1>4 DEF AgreeInv
<1>6. DataOK'
  BY <1>2 DEF CoreInv, DataOK, Frame
<1>7. scope' = IF pc = "sending" THEN <<session>> ELSE <<>>
  BY DEF CoreInv, SoloInv
<1>8. CoreInv'
  BY <1>2, <1>3, <1>5, <1>6, <1>7, CoreFrom DEF Alike
<1>9. Quietly
  BY <1>1, <1>2, <1>3, <1>4 DEF Quietly, Awaiting, InAir
<1> QED
  BY <1>8, <1>9

LEMMA FailuresCore ==
  ASSUME CoreInv, NEW k \in Sessions,
         \/ SaveStale(k) \/ \E view \in {"other", "mine", "free", "missing"} : SaveLocked(k, view)
         \/ SaveUnauthenticated(k) \/ SaveUnanswered(k) \/ LandingUnread(k)
         \/ ReadConflict(k) \/ ReadUnanswered(k) \/ ReadUnauthenticated(k)
  PROVE  CoreInv' /\ Quietly
<1>0. /\ RunnersOK /\ \A u \in BOOLEAN : Alike([Mine EXCEPT !.uncertain = u])
      /\ Alike(Mine) /\ Mine = runner[session]
  BY UncertainAlike, MineTyped DEF CoreInv
<1>1. /\ notice \in {"none", "taken-over", "session-ended", "stale"}
      /\ strays \subseteq InAir /\ Mine \in Runners /\ Len(Mine.entry) <= 1
      /\ status \in {"editing", "locked"} /\ (Mine.disposed => status = "locked")
  BY MineTyped DEF CoreInv, DataOK, InAir, SoloInv
<1>2. \A r : Alike(r) => r \in Runners /\ Len(r.entry) <= 1
  BY <1>1 DEF Alike
<1>3. k = session /\ runner[k] = Mine /\ Awaiting(Mine.pc)
  <2>1. MutationEnds(k) \/ runner[k].pc \in {"landing", "reading"}
    BY DEF SaveStale, SaveLocked, SaveUnauthenticated, SaveUnanswered, LandingUnread, ReadConflict,
           ReadUnanswered, ReadUnauthenticated
  <2> QED
    BY <1>0, <2>1, OnlyMine DEF Awaiting
<1>4. Mine.pc # "sending" => scope = <<>>
  BY DEF CoreInv, SoloInv
<1>5. CASE SaveStale(k)
  <2>1. /\ Mine.pc = "sending" /\ scope' = <<>>
    BY <1>5, OnlyMine DEF SaveStale
  <2>2. Frame /\ UNCHANGED <<status, holder, signedIn, dropped, notice, strays>>
    BY <1>3, <1>5 DEF SaveStale, Frame, server, history
  <2>3. CASE ~Mine.uncertain
    <3>1. queue' = OnFailure(queue, "stale") /\ Go(session, Mine, "asking")
      BY <1>3, <1>5, <2>3 DEF SaveStale
    <3>2. "stale" \in FailureKinds \ {"refused"} /\ "stale" # "network"
      BY DEF FailureKinds
    <3> QED
      BY <1>0, <1>1, <1>3, <2>1, <2>2, <3>1, <3>2, FailedStep
  <2>4. CASE Mine.uncertain
    <3>1. UNCHANGED queue /\ Go(session, Mine, "reading") /\ Mine.answer.kind = "stale"
      BY <1>3, <1>5, <2>4 DEF SaveStale
    <3>2. PICK pc \in Pcs : pc = "reading"
      BY DEF Pcs
    <3>3. Moved(Mine, pc) /\ Mine'.answer = NoAnswer /\ Mine'.entry = Mine.entry
      BY <1>0, <1>1, <2>2, <3>1, <3>2, GoMoves DEF Frame
    <3>4. Awaiting(pc)
      BY <3>2 DEF Awaiting
    <3> QED
      BY <1>0, <1>1, <1>3, <2>1, <2>2, <3>1, <3>2, <3>3, <3>4, SameQueueStep
  <2> QED
    BY <2>3, <2>4
<1>6. ASSUME NEW view \in {"other", "mine", "free", "missing"}, SaveLocked(k, view)
      PROVE  CoreInv' /\ Quietly
  <2>1. /\ Mine.pc = "sending" /\ scope' = <<>>
    BY <1>6, OnlyMine DEF SaveLocked
  <2>2. Frame /\ UNCHANGED <<holder, signedIn, dropped, strays>>
    BY <1>3, <1>6 DEF SaveLocked, Frame, server, history
  <2>3. PICK r : r = [Mine EXCEPT !.uncertain = FALSE]
    OBVIOUS
  <2>4. Alike(r)
    BY <1>0, <2>3
  <2>5. "locked" \in FailureKinds \ {"refused"} /\ "locked" # "network"
    BY DEF FailureKinds
  <2>6. \/ queue' = OnFailure(queue, "locked") /\ UNCHANGED <<status, notice>>
           /\ (Go(session, r, "asking") \/ Stop(session, r, queue'))
        \/ TookOver /\ Stop(session, r, queue')
    BY <1>3, <1>6, <2>3 DEF SaveLocked, SetLock
  <2>7. CASE queue' = OnFailure(queue, "locked") /\ UNCHANGED <<status, notice>>
             /\ (Go(session, r, "asking") \/ Stop(session, r, queue'))
    BY <1>1, <1>3, <2>1, <2>2, <2>4, <2>5, <2>7, FailedStep
  <2>8. CASE TookOver /\ Stop(session, r, queue')
    <3>1. Moved(r, "idle") /\ Mine'.answer = NoAnswer
      BY <1>0, <1>2, <2>2, <2>4, <2>8, StopMoves DEF Frame
    <3> QED
      BY <2>1, <2>2, <2>4, <2>8, <3>1, TakenOverStep
  <2> QED
    BY <2>6, <2>7, <2>8
<1>7. CASE SaveUnauthenticated(k)
  <2>1. scope' = <<>>
    BY <1>7, OnlyMine DEF SaveUnauthenticated
  <2>2. Frame /\ UNCHANGED <<status, holder, signedIn, dropped, strays>>
    BY <1>3, <1>7 DEF SaveUnauthenticated, Frame, server, history
  <2>3. PICK r : r = [Mine EXCEPT !.uncertain = FALSE]
    OBVIOUS
  <2>4. Alike(r) /\ "session" \in FailureKinds \ {"refused"}
    BY <1>0, <2>3 DEF FailureKinds
  <2>5. queue' = OnFailure(queue, "session") /\ Stop(session, r, queue') /\ notice' = "session-ended"
    BY <1>3, <1>7, <2>3 DEF SaveUnauthenticated
  <2> QED
    BY <1>1, <1>3, <2>1, <2>2, <2>4, <2>5, FailedStep
<1>8. CASE SaveUnanswered(k)
  <2>1. scope' = <<>> /\ Mine.pc = "sending"
    BY <1>8, OnlyMine DEF SaveUnanswered
  <2>2. Frame /\ UNCHANGED <<status, holder, signedIn, dropped, notice>>
    BY <1>3, <1>8 DEF SaveUnanswered, Frame, server, history
  <2>3. PICK r : r = [Mine EXCEPT !.uncertain = TRUE]
    OBVIOUS
  <2>4. Alike(r) /\ "network" \in FailureKinds \ {"refused"}
    BY <1>0, <2>3 DEF FailureKinds
  <2>5. strays' \subseteq InAir
    BY <1>1, <1>3, <1>8, <2>1 DEF SaveUnanswered, GiveUpOn, InAir, Request
  <2>6. Stop(session, r, queue')
    BY <1>3, <1>8, <2>3 DEF SaveUnanswered
  <2>7. CASE ~Mine.disposed
    <3>1. queue' = OnFailure(queue, "network")
      BY <1>3, <1>8, <2>3, <2>4, <2>7 DEF SaveUnanswered, Alike
    <3> QED
      BY <1>1, <1>3, <2>1, <2>2, <2>4, <2>5, <2>6, <3>1, FailedStep
  <2>8. CASE Mine.disposed
    <3>1. queue' = queue /\ status = "locked"
      BY <1>1, <1>3, <1>8, <2>3, <2>4, <2>8 DEF SaveUnanswered, Alike
    <3>2. PICK pc \in Pcs : pc = "idle"
      BY DEF Pcs
    <3>3. Moved(r, pc) /\ Mine'.answer = NoAnswer
      BY <1>0, <1>2, <2>2, <2>4, <2>6, <3>2, StopMoves DEF Frame
    <3> QED
      BY <1>1, <2>1, <2>2, <2>4, <2>5, <3>1, <3>2, <3>3, SameQueueStep DEF Awaiting
  <2> QED
    BY <2>7, <2>8
<1>9. CASE LandingUnread(k) \/ ReadUnanswered(k)
  <2>1. scope' = <<>>
    BY <1>3, <1>4, <1>9 DEF LandingUnread, ReadUnanswered
  <2>2. Frame /\ UNCHANGED <<status, holder, signedIn, dropped, notice, strays>>
    BY <1>3, <1>9 DEF LandingUnread, ReadUnanswered, Frame, server, history
  <2>3. \/ queue' = OnFailure(queue, "stale") /\ Go(session, Mine, "asking")
        \/ queue' = OnFailure(queue, "network") /\ Stop(session, Mine, queue')
    BY <1>3, <1>9 DEF LandingUnread, ReadUnanswered
  <2>4. {"stale", "network"} \subseteq FailureKinds \ {"refused"} /\ "stale" # "network"
    BY DEF FailureKinds
  <2> QED
    BY <1>0, <1>1, <1>3, <2>1, <2>2, <2>3, <2>4, FailedStep
<1>10. CASE ReadConflict(k) \/ ReadUnauthenticated(k)
  <2>1. scope' = <<>>
    BY <1>3, <1>4, <1>10 DEF ReadConflict, ReadUnauthenticated
  <2>2. Frame /\ UNCHANGED <<status, holder, signedIn, dropped, strays>>
    BY <1>3, <1>10 DEF ReadConflict, ReadUnauthenticated, Frame, server, history
  <2>3. PICK r : r = [Mine EXCEPT !.uncertain = FALSE]
    OBVIOUS
  <2>4. Alike(r) /\ {"stale", "session"} \subseteq FailureKinds \ {"refused"} /\ "stale" # "network"
    BY <1>0, <2>3 DEF FailureKinds
  <2>5. /\ \/ queue' = OnFailure(queue, "stale") /\ Go(session, r, "asking")
           \/ queue' = OnFailure(queue, "session") /\ Stop(session, r, queue')
        /\ notice' = notice \/ notice' = "session-ended"
    BY <1>3, <1>10, <2>3 DEF ReadConflict, ReadUnauthenticated
  <2> QED
    BY <1>1, <1>3, <2>1, <2>2, <2>4, <2>5, FailedStep
<1> QED
  BY <1>5, <1>6, <1>7, <1>8, <1>9, <1>10

LEMMA QuietMovesCore ==
  ASSUME CoreInv, NEW k \in Sessions,
         SaveLandsUnread(k) \/ AnswerUnheard(k) \/ SendAgain(k) \/ NoteStale(k)
  PROVE  CoreInv' /\ Quietly
<1>0. /\ RunnersOK /\ \A u \in BOOLEAN : Alike([Mine EXCEPT !.uncertain = u])
      /\ Alike(Mine) /\ Mine = runner[session]
  BY UncertainAlike, MineTyped DEF CoreInv
<1>1. /\ notice \in {"none", "taken-over", "session-ended", "stale"}
      /\ strays \subseteq InAir /\ Mine \in Runners /\ Len(Mine.entry) <= 1
      /\ status \in {"editing", "locked"} /\ (Mine.disposed => status = "locked")
  BY MineTyped DEF CoreInv, DataOK, InAir, SoloInv
<1>2. \A r : Alike(r) => r \in Runners /\ Len(r.entry) <= 1
  BY <1>1 DEF Alike
<1>3. k = session /\ runner[k] = Mine /\ (NoteStale(k) \/ Mine.pc = "sending")
  <2>1. MutationEnds(k) \/ UnderWay(k) \/ runner[k].pc = "asking"
    BY DEF SaveLandsUnread, AnswerUnheard, SendAgain, NoteStale
  <2>2. MutationEnds(k) \/ UnderWay(k) \/ NoteStale(k)
    BY DEF SaveLandsUnread, AnswerUnheard, SendAgain, NoteStale
  <2> QED
    BY <1>0, <2>1, <2>2, OnlyMine
<1>4. PICK landing, idle, sending \in Pcs : landing = "landing" /\ idle = "idle" /\ sending = "sending"
  BY DEF Pcs
<1>5. CASE SaveLandsUnread(k)
  <2>1. Mine.pc = "sending" /\ scope' = <<>>
    BY <1>5, OnlyMine DEF SaveLandsUnread
  <2>2. Frame /\ UNCHANGED <<status, queue, holder, signedIn, dropped, notice, strays>>
    BY <1>5 DEF SaveLandsUnread, Frame, store, server, history
  <2>3. Go(session, Mine, landing) /\ Mine.answer.kind = "unread"
    BY <1>3, <1>4, <1>5 DEF SaveLandsUnread
  <2>4. Moved(Mine, landing) /\ Mine'.answer = NoAnswer /\ Mine'.entry = Mine.entry
    BY <1>0, <1>1, <2>2, <2>3, GoMoves DEF Frame
  <2>5. Awaiting(landing) /\ Awaiting(Mine.pc)
    BY <1>4, <2>1 DEF Awaiting
  <2> QED
    BY <1>0, <1>1, <1>4, <2>1, <2>2, <2>3, <2>4, <2>5, SameQueueStep
<1>6. CASE AnswerUnheard(k)
  <2>1. Mine.pc = "sending" /\ scope' = <<>> /\ status = "locked"
    BY <1>1, <1>3, <1>6, OnlyMine DEF AnswerUnheard
  <2>2. Frame /\ UNCHANGED <<status, queue, holder, signedIn, dropped, notice, strays>>
    BY <1>6 DEF AnswerUnheard, Frame, store, server, history
  <2>3. Stop(session, Mine, queue')
    BY <1>3, <1>6, <2>2 DEF AnswerUnheard
  <2>4. Moved(Mine, idle) /\ Mine'.answer = NoAnswer
    BY <1>0, <1>1, <1>4, <2>2, <2>3, StopMoves DEF Frame
  <2> QED
    BY <1>0, <1>1, <1>4, <2>1, <2>2, <2>4, SameQueueStep DEF Awaiting
<1>7. CASE SendAgain(k)
  <2>1. Mine.pc = "sending" /\ scope' = scope /\ scope = <<session>>
    BY <1>3, <1>7, OnlyMine DEF SendAgain, CoreInv, SoloInv, NoteStale
  <2>2. Frame /\ UNCHANGED <<status, queue, holder, signedIn, dropped, notice>>
    BY <1>7 DEF SendAgain, Frame, store, server, history
  <2>3. PICK r : r = [Mine EXCEPT !.tries = Mine.tries + 1, !.uncertain = TRUE]
    OBVIOUS
  <2>4. Go(session, r, sending) /\ MayRetry(Mine.tries)
    BY <1>3, <1>4, <1>7, <2>3 DEF SendAgain
  <2>5. Alike(r)
    <3>1. Mine.tries + 1 \in 0..MaxTries
      BY <1>1, <2>4 DEF MayRetry, Runners
    <3> QED
      BY <1>1, <2>3, <3>1 DEF Alike, Runners
  <2>6. Moved(r, sending) /\ Mine'.answer = NoAnswer /\ Mine'.entry = r.entry
    BY <1>0, <1>2, <2>2, <2>4, <2>5, GoMoves DEF Frame
  <2>7. strays' \subseteq InAir
    BY <1>1, <1>3, <1>7, <2>1 DEF SendAgain, GiveUpOn, InAir, Request
  <2>8. Awaiting(sending) /\ Awaiting(Mine.pc) /\ Mine'.entry = Mine.entry
    BY <1>4, <2>1, <2>5, <2>6 DEF Awaiting, Alike
  <2> QED
    BY <1>1, <1>4, <2>1, <2>2, <2>5, <2>6, <2>7, <2>8, SameQueueStep
<1>8. CASE NoteStale(k)
  <2>1. Mine.pc = "asking" /\ scope' = <<>>
    BY <1>3, <1>8 DEF NoteStale, CoreInv, SoloInv
  <2>2. Frame /\ UNCHANGED <<holder, signedIn, dropped, strays>>
    BY <1>8 DEF NoteStale, Frame, server, history
  <2>3. PICK r : r = [Mine EXCEPT !.uncertain = FALSE]
    OBVIOUS
  <2>4. Alike(r) /\ Stop(session, r, queue')
    BY <1>0, <1>3, <1>8, <2>3 DEF NoteStale
  <2>5. Moved(r, idle) /\ Mine'.answer = NoAnswer
    BY <1>0, <1>2, <1>4, <2>2, <2>4, StopMoves DEF Frame
  <2>6. CASE TookOver
    BY <1>4, <2>1, <2>2, <2>4, <2>5, <2>6, TakenOverStep
  <2>7. CASE UNCHANGED <<status, queue>> /\ notice' \in {"none", "taken-over", "session-ended", "stale"}
    <3>1. Held(queue) \/ status = "locked"
      BY <1>1, <2>1 DEF CoreInv, AgreeInv, Held
    <3> QED
      BY <1>1, <1>4, <2>1, <2>2, <2>4, <2>5, <2>7, <3>1, SameQueueStep DEF Awaiting
  <2>8. TookOver \/ (UNCHANGED <<status, queue>> /\ notice' \in {"none", "taken-over", "session-ended", "stale"})
    BY <1>1, <1>8 DEF NoteStale, SetLock
  <2> QED
    BY <2>6, <2>7, <2>8
<1> QED
  BY <1>5, <1>6, <1>7, <1>8

LEMMA LossesCore ==
  ASSUME CoreInv, HeartbeatLost \/ Dispose
  PROVE  CoreInv' /\ Quietly
<1>0. RunnersOK /\ Alike(Mine) /\ Mine = runner[session] /\ Mine \in Runners /\ Len(Mine.entry) <= 1
  BY UncertainAlike, MineTyped DEF CoreInv
<1>1. CASE HeartbeatLost
  <2>1. Frame /\ TookOver /\ UNCHANGED <<holder, signedIn, dropped, strays, runner, scope>>
    BY <1>1 DEF HeartbeatLost, Frame, server, history
  <2>2. Mine' = Mine /\ RunnersOK'
    BY <1>0, <2>1 DEF Mine, Frame, RunnersOK
  <2>3. Moved(Mine, Mine.pc)
    BY <2>1, <2>2 DEF Moved, Frame
  <2> QED
    BY <1>0, <2>1, <2>2, <2>3, TakenOverStep
<1>2. CASE Dispose
  <2>1. PICK r : r = [Mine EXCEPT !.disposed = TRUE, !.timer = FALSE]
    OBVIOUS
  <2>2. /\ r \in Runners /\ r.pc = Mine.pc /\ r.answer = Mine.answer /\ r.entry = Mine.entry
        /\ r.base = Mine.base
    BY <1>0, <2>1 DEF Runners
  <2>3. PICK x : x = Settled(r, queue)
    OBVIOUS
  <2>4. /\ x \in Runners /\ x.pc = Mine.pc /\ x.answer = Mine.answer /\ x.entry = Mine.entry
        /\ x.base = Mine.base
    BY <2>2, <2>3, SettledTyped
  <2>5. Len(x.entry) <= 1 /\ (~Awaiting(x.pc) => x.answer = NoAnswer)
    BY <1>0, <2>4 DEF RunnersOK
  <2>6. Frame /\ status = "locked" /\ UNCHANGED <<status, queue, notice, scope, strays, server, history>>
    BY <1>2 DEF Dispose, Frame, store, server, history
  <2>7. RunnersOK' /\ Mine' = x
    <3>1. runner' = [runner EXCEPT ![session] = x] /\ session' = session
      BY <1>2, <2>1, <2>3, <2>6 DEF Dispose, Frame
    <3> QED
      BY <1>0, <2>4, <2>5, <3>1, MovesOK
  <2>8. CoreInv'
    <3>1. DataOK' /\ Sound(performed, queue)'
      BY <2>6 DEF CoreInv, DataOK, Frame, server, history
    <3>2. SoloInv'
      BY <2>4, <2>6, <2>7 DEF CoreInv, SoloInv, Frame
    <3>3. AgreeInv'
      BY <2>4, <2>6, <2>7 DEF CoreInv, AgreeInv
    <3> QED
      BY <2>7, <3>1, <3>2, <3>3 DEF CoreInv
  <2>9. Quietly
    BY <2>4, <2>6, <2>7 DEF Quietly, InAir, history
  <2> QED
    BY <2>8, <2>9
<1> QED
  BY <1>1, <1>2

\* What becomes ready, and the loop that is told of it.
LEMMA MarkedStep ==
  ASSUME CoreInv, Frame, UNCHANGED <<status, notice, holder, signedIn, dropped, strays, scope>>,
         NEW r \in Runners, r.pc = Mine.pc, r.answer = Mine.answer, r.entry = Mine.entry,
         r.base = Mine.base, r.disposed = Mine.disposed,
         r.flush = Mine.flush \/ r.flush = "waiting",
         runner' = [runner EXCEPT ![session] = Kicked(r)],
         Sound(performed, queue'), Pending(queue') = Pending(queue), Later(queue') = Later(queue),
         queue'.inFlight = queue.inFlight, HasPending(queue') <=> HasPending(queue),
         Mine.pc = "asking" /\ status = "editing" =>
           queue'.status = queue.status /\ queue'.lastFailure = queue.lastFailure,
         status = "editing" =>
           \A i \in DOMAIN queue'.entries :
             ~queue'.entries[i].ready /\ (i # 1 \/ ~HoldsAfterNetworkFailure(queue')) => r.timer
  PROVE  CoreInv' /\ Quietly
<1>0. /\ RunnersOK /\ Mine = runner[session] /\ Len(Mine.entry) <= 1
      /\ ~Awaiting(Mine.pc) => Mine.answer = NoAnswer
      /\ Mine.pc \in Pcs /\ status \in {"editing", "locked"}
      /\ Mine.disposed => status = "locked"
  BY MineTyped DEF CoreInv, RunnersOK, DataOK, SoloInv
<1>1. PICK pc : pc = IF r.pc = "idle" /\ ~r.disposed THEN "running" ELSE r.pc
  OBVIOUS
<1>2. /\ Moved(r, pc) /\ Mine'.answer = Mine.answer /\ Mine'.entry = Mine.entry
      /\ Mine'.flush = r.flush
  <2>1. session' = session /\ RunnersOK /\ Len(r.entry) <= 1 /\ (~Awaiting(r.pc) => r.answer = NoAnswer)
    BY <1>0 DEF Frame
  <2>2. /\ Moved(r, IF r.pc = "idle" /\ ~r.disposed THEN "running" ELSE r.pc)
        /\ Mine'.answer = r.answer /\ Mine'.entry = r.entry /\ Mine'.flush = r.flush
    BY <2>1, KickMoves
  <2> QED
    BY <1>1, <2>2
<1>3. /\ pc \in Pcs /\ (pc = Mine.pc \/ (Mine.pc = "idle" /\ pc = "running"))
      /\ status = "editing" => pc # "idle"
      /\ Awaiting(pc) <=> Awaiting(Mine.pc)
      /\ pc = "sending" <=> Mine.pc = "sending"
      /\ pc = "asking" <=> Mine.pc = "asking"
  BY <1>0, <1>1 DEF Pcs, Awaiting
<1>4. Mine'.pc = pc /\ Mine'.timer = r.timer /\ Mine'.base = Mine.base
  BY <1>2 DEF Moved
<1>5. DataOK'
  BY DEF CoreInv, DataOK, Frame
<1>6. Sound(performed, queue)'
  BY DEF Frame
<1>7. Mine'.flush = "saved" => Mine.flush = "saved"
  BY <1>2
<1>8. AgreeInv'
  BY <1>2, <1>3, <1>4, <1>7 DEF CoreInv, AgreeInv
<1>9. CoreInv'
  <2>1. scope' = IF pc = "sending" THEN <<session>> ELSE <<>>
    BY <1>3 DEF CoreInv, SoloInv
  <2> QED
    BY <1>2, <1>5, <1>6, <1>8, <2>1, CoreFrom
<1>10. Mine'.pc = Mine.pc \/ Mine'.answer = NoAnswer
  BY <1>0, <1>2, <1>3, <1>4 DEF Awaiting
<1>11. Quietly
  BY <1>2, <1>3, <1>4, <1>10 DEF Quietly, InAir, Awaiting
<1> QED
  BY <1>9, <1>11

LEMMA MarksCore ==
  ASSUME CoreInv, IdleFires \/ Flush \/ RetrySave \/ \E b \in Blocks : ReadyBlock(b)
  PROVE  CoreInv' /\ Quietly
<1>0. /\ Mine \in Runners /\ Sound(performed, queue) /\ queue.entries \in Seq(Entries)
      /\ queue.inFlight = <<>> \/ ~Held(queue)
      /\ status = "editing" =>
           /\ \A i \in DOMAIN queue.entries :
                ~queue.entries[i].ready /\ (i # 1 \/ ~HoldsAfterNetworkFailure(queue)) => Mine.timer
           /\ Mine.pc = "asking" => queue.status = "paused" /\ queue.lastFailure # "network"
  BY MineTyped, TypedParts DEF CoreInv, AgreeInv, Sound, Consistent
<1>1. ASSUME NEW t \in BOOLEAN, NEW f \in {Mine.flush, "waiting"}, NEW r,
             r = [Mine EXCEPT !.timer = t, !.flush = f]
      PROVE  /\ r \in Runners /\ r.pc = Mine.pc /\ r.answer = Mine.answer
             /\ r.entry = Mine.entry /\ r.base = Mine.base /\ r.disposed = Mine.disposed
             /\ r.timer = t /\ r.flush = f
  BY <1>0, <1>1 DEF Runners
<1>2. \A t : [Mine EXCEPT !.timer = t] = [Mine EXCEPT !.timer = t, !.flush = Mine.flush]
  BY <1>0 DEF Runners
<1>3. Frame /\ UNCHANGED <<status, notice, holder, signedIn, dropped, strays, scope>>
  BY DEF IdleFires, Flush, RetrySave, ReadyBlock, Frame, server, history
<1>4. ASSUME NEW S, queue' = Marked(queue, S)
      PROVE  /\ Sound(performed, queue') /\ Pending(queue') = Pending(queue)
             /\ Later(queue') = Later(queue) /\ queue'.inFlight = queue.inFlight
             /\ HasPending(queue') <=> HasPending(queue)
             /\ HoldsAfterNetworkFailure(queue') <=> HoldsAfterNetworkFailure(queue)
             /\ queue'.status = queue.status /\ queue'.lastFailure = queue.lastFailure
             /\ DOMAIN queue'.entries = DOMAIN queue.entries
             /\ \A i \in DOMAIN queue.entries : queue'.entries[i].ready <=> (queue.entries[i].ready \/ i \in S)
  BY <1>0, <1>4, MarkedSound
<1>5. CASE IdleFires \/ Flush
  <2>1. PICK S : S = DOMAIN queue.entries
    OBVIOUS
  <2>2. queue' = Marked(queue, S)
    BY <1>5, <2>1 DEF IdleFires, Flush, MarkReady, Marked
  <2>3. PICK f \in {Mine.flush, "waiting"} :
          runner' = [runner EXCEPT ![session] = Kicked([Mine EXCEPT !.timer = FALSE, !.flush = f])]
    <3>1. CASE IdleFires
      BY <1>2, <3>1, Zenon DEF IdleFires
    <3>2. CASE Flush
      BY <3>2 DEF Flush
    <3> QED
      BY <1>5, <3>1, <3>2
  <2>4. PICK r : r = [Mine EXCEPT !.timer = FALSE, !.flush = f]
    BY Zenon
  <2>5. /\ r \in Runners /\ r.pc = Mine.pc /\ r.answer = Mine.answer
        /\ r.entry = Mine.entry /\ r.base = Mine.base /\ r.disposed = Mine.disposed
        /\ r.flush = Mine.flush \/ r.flush = "waiting"
    BY <1>1, <2>4, Zenon
  <2>6. runner' = [runner EXCEPT ![session] = Kicked(r)]
    BY <2>3, <2>4
  <2>7. \A i \in DOMAIN queue'.entries : queue'.entries[i].ready
    BY <1>4, <2>1, <2>2
  <2> QED
    BY <1>3, <1>4, <2>2, <2>5, <2>6, <2>7, MarkedStep
<1>6. ASSUME NEW b \in Blocks, ReadyBlock(b) PROVE CoreInv' /\ Quietly
  <2>1. PICK S : queue' = Marked(queue, S)
    <3>1. PICK last : last = {i \in DOMAIN queue.entries : IsLatestUpdate(queue.entries, i, b)}
      OBVIOUS
    <3>2. queue' = Marked(queue, {i \in DOMAIN queue.entries : \E l \in last : i <= l})
      BY <1>6, <3>1 DEF ReadyBlock, MarkBlockReady, Marked
    <3> QED
      BY <3>2
  <2>2. PICK t : t = TimerAfterBlur(Mine.timer, queue')
    OBVIOUS
  <2>3. t \in BOOLEAN
    BY <1>0, <2>2 DEF TimerAfterBlur, Runners
  <2>4. PICK r : r = [Mine EXCEPT !.timer = t, !.flush = Mine.flush]
    OBVIOUS
  <2>5. /\ r \in Runners /\ r.pc = Mine.pc /\ r.answer = Mine.answer
        /\ r.entry = Mine.entry /\ r.base = Mine.base /\ r.disposed = Mine.disposed
        /\ r.flush = Mine.flush /\ r.timer = t
    BY <1>1, <2>3, <2>4, Zenon
  <2>6. runner' = [runner EXCEPT ![session] = Kicked(r)]
    BY <1>2, <1>6, <2>2, <2>4, Zenon DEF ReadyBlock
  <2>7. status = "editing" =>
           \A i \in DOMAIN queue'.entries :
             ~queue'.entries[i].ready /\ (i # 1 \/ ~HoldsAfterNetworkFailure(queue')) => r.timer
    BY <1>0, <1>4, <2>1, <2>2, <2>5 DEF TimerAfterBlur
  <2> QED
    BY <1>3, <1>4, <2>1, <2>5, <2>6, <2>7, MarkedStep
<1>7. CASE RetrySave
  <2>1. queue' = Retry(queue) /\ queue.lastFailure = "network"
        /\ runner' = [runner EXCEPT ![session] = Kicked(Mine)]
    BY <1>7 DEF RetrySave
  <2>2. ~(Mine.pc = "asking" /\ status = "editing")
    BY <1>0, <2>1
  <2>3. CASE ~Held(queue)
    <3>1. queue' = queue
      BY <2>1, <2>3 DEF Retry
    <3> QED
      BY <1>0, <1>3, <2>1, <2>2, <3>1, MarkedStep
  <2>4. CASE Held(queue)
    <3>1. /\ Sound(performed, queue') /\ Pending(queue') = Pending(queue)
          /\ Later(queue') = Later(queue) /\ queue'.inFlight = <<>>
          /\ (HasPending(queue') <=> HasPending(queue))
          /\ DOMAIN queue'.entries = DOMAIN queue.entries
          /\ \A i \in DOMAIN queue.entries : queue'.entries[i].ready <=> (queue.entries[i].ready \/ i = 1)
      BY <1>0, <2>1, <2>4, RetrySound
    <3>2. queue'.inFlight = queue.inFlight
      BY <1>0, <2>4, <3>1
    <3>3. status = "editing" =>
           \A i \in DOMAIN queue'.entries :
             ~queue'.entries[i].ready /\ (i # 1 \/ ~HoldsAfterNetworkFailure(queue')) => Mine.timer
      BY <1>0, <3>1
    <3> QED
      BY <1>0, <1>3, <2>1, <2>2, <3>1, <3>2, <3>3, MarkedStep
  <2> QED
    BY <2>3, <2>4
<1> QED
  BY <1>5, <1>6, <1>7

\* The loop's turn, when nothing may be sent: it ends.
LEMMA DrainStops ==
  ASSUME CoreInv, Drain(session), status # "editing" \/ ~CanTake(PruneEmpty(queue, model.blocks))
  PROVE  CoreInv' /\ Quietly
<1>0. /\ RunnersOK /\ Alike(Mine) /\ Mine = runner[session] /\ Mine \in Runners
      /\ Sound(performed, queue) /\ status \in {"editing", "locked"}
  BY UncertainAlike, MineTyped DEF CoreInv, DataOK
<1>1. Mine.pc = "running" /\ scope = <<>> /\ ~Awaiting(Mine.pc)
  BY <1>0 DEF Drain, CoreInv, SoloInv, Awaiting
<1>2. PICK pruned : pruned = IF status = "editing" THEN PruneEmpty(queue, model.blocks) ELSE queue
  OBVIOUS
<1>3. PICK emptied : emptied = UNION {queue.entries[i].acts : i \in Prunable(queue, model.blocks)}
  OBVIOUS
<1>4. /\ queue' = pruned /\ Stop(session, Mine, queue') /\ UNCHANGED scope
      /\ dropped' = IF status = "editing" THEN dropped \cup emptied ELSE dropped
      /\ Frame /\ UNCHANGED <<status, notice, holder, signedIn, strays>>
  BY <1>0, <1>2, <1>3 DEF Drain, Frame, server
<1>5. /\ Sound(performed, queue') /\ queue'.inFlight = queue.inFlight
      /\ Pending(queue') \subseteq Pending(queue) /\ Later(queue') \subseteq Later(queue)
      /\ status = "editing" => Pending(queue) \subseteq Pending(queue') \cup emptied
      /\ HasPending(queue') => HasPending(queue)
      /\ Held(queue') <=> Held(queue)
      /\ HoldsAfterNetworkFailure(queue') <=> HoldsAfterNetworkFailure(queue)
      /\ \A i \in DOMAIN queue'.entries : \E j \in DOMAIN queue.entries :
           queue'.entries[i] = queue.entries[j] /\ (i # 1 => j # 1)
  <2>1. CASE status = "editing"
    <3>1. queue' = PruneEmpty(queue, model.blocks)
      BY <1>2, <1>4, <2>1
    <3> QED
      BY <1>0, <1>3, <3>1, PruneSound
  <2>2. CASE status # "editing"
    <3>1. queue' = queue
      BY <1>2, <1>4, <2>2
    <3> QED
      BY <1>0, <2>2, <3>1
  <2> QED
    BY <2>1, <2>2
<1>6. PICK pc : pc = "idle"
  OBVIOUS
<1>7. Moved(Mine, pc) /\ Mine'.answer = NoAnswer
  BY <1>0, <1>4, <1>6, StopMoves DEF Frame
<1>8. /\ Mine'.pc = "idle" /\ Mine'.timer = Mine.timer /\ ~Awaiting(Mine'.pc)
      /\ Mine'.flush = "saved" => Mine.flush = "saved" \/ ~HasPending(queue')
  BY <1>6, <1>7 DEF Moved, Awaiting
<1>9. emptied \subseteq Acts
  <2>1. \A i \in DOMAIN queue.entries : queue.entries[i].acts \subseteq Acts
    BY <1>0, TypedParts DEF Sound, Entries
  <2> QED
    BY <1>3, <2>1 DEF Prunable
<1>10. DataOK'
  BY <1>4, <1>9 DEF CoreInv, DataOK, Frame
<1>11. status = "editing" /\ ~Held(queue') =>
         \A i \in DOMAIN queue'.entries : i = 1 => ~queue'.entries[i].ready
  <2> SUFFICES ASSUME status = "editing", ~Held(queue'), 1 \in DOMAIN queue'.entries
               PROVE  ~queue'.entries[1].ready
    OBVIOUS
  <2>1. queue'.inFlight = <<>>
    BY <1>1, <1>5 DEF CoreInv, AgreeInv
  <2>2. ~CanTake(queue')
    BY <1>2, <1>4
  <2>3. queue'.entries \in Seq(Entries) /\ queue'.entries # <<>>
    BY <1>5, TypedParts DEF Sound
  <2>4. Head(queue'.entries) = queue'.entries[1]
    BY <2>3, HeadTailProperties
  <2> QED
    BY <2>1, <2>2, <2>3, <2>4 DEF CanTake, CanSend
<1>12. status = "editing" =>
         \A i \in DOMAIN queue'.entries :
            ~queue'.entries[i].ready /\ (i # 1 \/ ~HoldsAfterNetworkFailure(queue')) => Mine.timer
  BY <1>5 DEF CoreInv, AgreeInv
<1>13. AgreeInv'
  BY <1>1, <1>4, <1>5, <1>8, <1>11, <1>12 DEF CoreInv, AgreeInv
<1>14. CoreInv'
  <2>1. Sound(performed, queue)'
    BY <1>4, <1>5 DEF Frame
  <2>2. scope' = IF pc = "sending" THEN <<session>> ELSE <<>>
    BY <1>1, <1>4, <1>6
  <2> QED
    BY <1>4, <1>7, <1>10, <1>13, <2>1, <2>2, CoreFrom
<1>15. Quietly
  BY <1>4, <1>5, <1>7, <1>8 DEF Quietly, InAir, Awaiting
<1> QED
  BY <1>14, <1>15

LEMMA RefusedCore ==
  ASSUME CoreInv, NEW k \in Sessions, SaveRefused(k)
  PROVE  CoreInv' /\ Quietly
<1>0. /\ RunnersOK /\ Mine = runner[session] /\ Mine \in Runners /\ status \in {"editing", "locked"}
      /\ Len(<<>>) <= 1
  BY MineTyped DEF CoreInv, DataOK
<1>1. k = session /\ runner[k] = Mine /\ Mine.pc = "sending" /\ scope' = <<>> /\ Awaiting(Mine.pc)
  BY <1>0, OnlyMine DEF SaveRefused, Awaiting
<1>2. PICK r : r = [Mine EXCEPT !.uncertain = FALSE, !.entry = <<>>]
  OBVIOUS
<1>3. /\ r \in Runners /\ r.entry = <<>> /\ r.base = Mine.base /\ r.timer = Mine.timer
      /\ r.flush = Mine.flush /\ r.disposed = Mine.disposed
  <2>1. <<>> \in Seq(Entries)
    BY EmptySeq
  <2> QED
    BY <1>0, <1>2, <2>1 DEF Runners
<1>4. /\ queue' = OnFailure(queue, "refused") /\ dropped' = dropped \cup Mine.entry[1].acts
      /\ Frame /\ UNCHANGED <<status, notice, holder, signedIn, strays>>
  BY <1>1 DEF SaveRefused, Frame, server
<1>5. PICK pc \in Pcs : pc = "running"
  BY DEF Pcs
<1>6. Go(session, r, pc)
  BY <1>1, <1>2, <1>5 DEF SaveRefused
<1>7. Moved(r, pc) /\ Mine'.answer = NoAnswer
  BY <1>0, <1>3, <1>4, <1>6, GoMoves DEF Frame
<1>8. /\ Sound(performed, queue)' /\ AgreeInv'
      /\ Pending(queue') \subseteq Pending(queue) /\ Later(queue') \subseteq Later(queue)
      /\ status = "editing" => Pending(queue) \subseteq Pending(queue') \cup dropped'
  <2>1. UNCHANGED <<status, session, performed>> /\ Moved(r, "running")
    BY <1>4, <1>5, <1>7 DEF Frame
  <2>2. /\ Sound(performed, queue)' /\ AgreeInv'
        /\ Pending(queue') \subseteq Pending(queue) /\ Later(queue') \subseteq Later(queue)
        /\ status = "editing" => /\ Pending(queue') = Later(queue)
                                 /\ Pending(queue) = Later(queue) \cup Mine.entry[1].acts
    BY <1>1, <1>3, <1>4, <2>1, GoneAgrees
  <2> QED
    BY <1>4, <2>2
<1>9. DataOK'
  <2>1. Mine.entry[1].acts \subseteq Acts
    BY <1>1, InAirTyped DEF Entries
  <2> QED
    BY <1>4, <2>1 DEF CoreInv, DataOK, Frame
<1>10. CoreInv'
  <2>1. scope' = IF pc = "sending" THEN <<session>> ELSE <<>>
    BY <1>1, <1>5
  <2> QED
    BY <1>3, <1>4, <1>7, <1>8, <1>9, <2>1, CoreFrom
<1>11. Mine'.pc = "running"
  BY <1>5, <1>7 DEF Moved
<1>12. Quietly
  BY <1>4, <1>7, <1>8, <1>11 DEF Quietly, InAir, Awaiting
<1> QED
  BY <1>10, <1>12

\* The head of the queue is sent, on the page as the editor knows it.
Takes ==
  /\ Frame /\ UNCHANGED <<status, strays>> /\ ~Awaiting(Mine.pc)
  /\ Mine'.pc = "sending" /\ Mine'.base = pageVersion /\ Mine'.answer = NoAnswer
  /\ Mine'.entry[1] \in Entries /\ WellShaped(Mine'.entry[1])
  /\ Mine'.entry[1].acts \subseteq Pending(queue)
  /\ Later(queue') \subseteq Later(queue) /\ Pending(queue') \subseteq Pending(queue)
  /\ \A a \in Mine'.entry[1].acts, c \in Later(queue') : BlockOf[a] = BlockOf[c] => Before(performed, a, c)
  /\ Pending(queue') = Later(queue') \cup Mine'.entry[1].acts
  /\ dropped \subseteq dropped' /\ Pending(queue) \subseteq Pending(queue') \cup dropped'

LEMMA DrainSends ==
  ASSUME CoreInv, Drain(session), status = "editing", CanTake(PruneEmpty(queue, model.blocks)),
         queue' = TakeNext(PruneEmpty(queue, model.blocks))
  PROVE  CoreInv' /\ Takes
<1>0. /\ RunnersOK /\ Mine = runner[session] /\ Mine \in Runners
      /\ Sound(performed, queue)
  BY MineTyped DEF CoreInv
<1>1. Mine.pc = "running" /\ scope = <<>> /\ ~Awaiting(Mine.pc)
  BY <1>0 DEF Drain, CoreInv, SoloInv, Awaiting
<1>2. PICK pruned : pruned = PruneEmpty(queue, model.blocks)
  OBVIOUS
<1>3. PICK emptied : emptied = UNION {queue.entries[i].acts : i \in Prunable(queue, model.blocks)}
  OBVIOUS
<1>4. PICK e : e = Head(pruned.entries)
  OBVIOUS
<1>5. PICK x : x = [Mine EXCEPT !.pc = "sending", !.entry = <<e>>, !.base = pageVersion,
                                !.tries = 1, !.answer = NoAnswer]
  OBVIOUS
<1>6. /\ queue' = TakeNext(pruned) /\ CanTake(pruned)
      /\ dropped' = dropped \cup emptied
      /\ Frame /\ UNCHANGED <<status, notice, holder, signedIn, strays>>
  BY <1>2, <1>3 DEF Drain, Frame, server
<1>7. runner' = [runner EXCEPT ![session] = x] /\ scope' = Append(scope, session)
  <2>1. TakeNext(pruned).inFlight # <<>> /\ pruned.inFlight = <<>>
    <3>1. Sound(performed, pruned)
      BY <1>0, <1>2, PruneSound
    <3>2. TakeNext(pruned).inFlight = <<Head(pruned.entries)>>
      BY <1>6, <3>1, TakeSound
    <3> QED
      BY <1>6, <3>2 DEF CanTake, CanSend
  <2> QED
    BY <1>0, <1>2, <1>4, <1>5, <1>6, <2>1 DEF Drain
<1>8. /\ Sound(performed, pruned) /\ pruned.inFlight = queue.inFlight
      /\ Pending(pruned) \subseteq Pending(queue) /\ Later(pruned) \subseteq Later(queue)
      /\ Pending(queue) \subseteq Pending(pruned) \cup emptied
      /\ HasPending(pruned) => HasPending(queue)
      /\ HoldsAfterNetworkFailure(pruned) <=> HoldsAfterNetworkFailure(queue)
      /\ \A i \in DOMAIN pruned.entries : \E j \in DOMAIN queue.entries :
           pruned.entries[i] = queue.entries[j] /\ (i # 1 => j # 1)
  BY <1>0, <1>2, <1>3, PruneSound
<1>9. /\ Sound(performed, queue') /\ Pending(queue') = Pending(pruned) /\ Later(queue') = Later(pruned)
      /\ queue'.inFlight = <<e>> /\ ~Held(queue') /\ HasPending(queue')
      /\ e = pruned.entries[1] /\ e \in Entries /\ WellShaped(e) /\ e.acts = First(pruned)
      /\ \A i \in DOMAIN queue'.entries : i + 1 \in DOMAIN pruned.entries /\ queue'.entries[i] = pruned.entries[i + 1]
  BY <1>4, <1>6, <1>8, TakeSound
<1>10. x \in Runners /\ Len(x.entry) <= 1 /\ Awaiting(x.pc)
  <2>1. 1 \in 0..MaxTries
    OBVIOUS
  <2>2. <<e>> \in Seq(Entries) /\ Len(<<e>>) = 1
    BY <1>9
  <2>3. pageVersion \in Nat
    BY DEF CoreInv, DataOK
  <2> QED
    <3>1. PICK es \in Seq(Entries) : es = <<e>> /\ Len(es) = 1
      BY <2>2
    <3>2. x = [Mine EXCEPT !.pc = "sending", !.entry = es, !.base = pageVersion,
                           !.tries = 1, !.answer = NoAnswer]
      BY <1>5, <3>1
    <3>3. NoAnswer \in Answers
      BY DEF Answers
    <3>4. x \in Runners /\ x.entry = es /\ x.pc = "sending"
      BY <1>0, <2>1, <2>3, <3>2, <3>3 DEF Runners
    <3> QED
      BY <3>1, <3>4 DEF Awaiting
<1>11. RunnersOK' /\ Mine' = x
  BY <1>0, <1>6, <1>7, <1>10, MovesOK DEF Frame
<1>12. /\ x.pc = "sending" /\ x.entry = <<e>> /\ x.base = pageVersion /\ x.answer = NoAnswer
       /\ x.timer = Mine.timer /\ x.flush = Mine.flush /\ x.disposed = Mine.disposed
  BY <1>0, <1>5 DEF Runners
<1>13. SoloInv'
  <2>1. Append(<<>>, session) = <<session>>
    OBVIOUS
  <2> QED
    BY <1>1, <1>6, <1>7, <1>11, <1>12, <2>1 DEF CoreInv, SoloInv, Frame
<1>14. DataOK'
  <2>1. \A i \in DOMAIN queue.entries : queue.entries[i].acts \subseteq Acts
    BY <1>0, TypedParts DEF Sound, Entries
  <2>2. emptied \subseteq Acts
    BY <1>3, <2>1 DEF Prunable
  <2> QED
    BY <1>6, <2>2 DEF CoreInv, DataOK, Frame
<1>15. \A i \in DOMAIN queue'.entries : ~queue'.entries[i].ready => Mine.timer
  <2> SUFFICES ASSUME NEW i \in DOMAIN queue'.entries, ~queue'.entries[i].ready PROVE Mine.timer
    OBVIOUS
  <2>1. PICK j \in DOMAIN queue.entries : queue'.entries[i] = queue.entries[j]
    BY <1>8, <1>9
  <2>2. ~HoldsAfterNetworkFailure(queue)
    BY <1>6, <1>8 DEF CanTake, CanSend, Held
  <2> QED
    BY <2>1, <2>2 DEF CoreInv, AgreeInv
<1>16. Mine.flush # "saved"
  <2>1. HasPending(queue)
    BY <1>6, <1>8 DEF CanTake, HasPending
  <2> QED
    BY <2>1 DEF CoreInv, AgreeInv
<1>17. AgreeInv'
  <2>1. <<e>> # <<>>
    OBVIOUS
  <2> QED
    BY <1>6, <1>9, <1>11, <1>12, <1>15, <1>16, <2>1 DEF AgreeInv, Awaiting
<1>18. CoreInv'
  BY <1>6, <1>9, <1>11, <1>13, <1>14, <1>17 DEF CoreInv, Frame
<1>19. Takes
  <2>1. <<e>>[1] = e /\ Mine'.entry[1] = e
    BY <1>11, <1>12
  <2>2. \A a \in e.acts, c \in Later(queue') : BlockOf[a] = BlockOf[c] => Before(performed, a, c)
    <3>1. \A j \in DOMAIN queue'.entries : Follows(performed, queue'.entries[j], e)
      <4>1. DOMAIN queue'.inFlight = {1} /\ queue'.inFlight[1] = e
        BY <1>9
      <4> QED
        BY <1>9, <4>1 DEF Sound, Ordered
    <3> QED
      BY <3>1 DEF Later, Follows
  <2>3. Pending(queue') = Later(queue') \cup e.acts
    BY <1>9 DEF Pending
  <2>4. /\ Later(queue') \subseteq Later(queue) /\ Pending(queue') \subseteq Pending(queue)
        /\ dropped \subseteq dropped' /\ Pending(queue) \subseteq Pending(queue') \cup dropped'
        /\ e.acts \subseteq Pending(queue)
    BY <1>6, <1>8, <1>9 DEF Pending
  <2> QED
    BY <1>1, <1>6, <1>9, <1>11, <1>12, <2>1, <2>2, <2>3, <2>4 DEF Takes
<1> QED
  BY <1>18, <1>19

\* The tree of an answer is taken over, and what was on its way is done with.
Lands ==
  /\ session' = session /\ UNCHANGED <<status, strays, performed, landed, version, tree>>
  /\ Awaiting(Mine.pc) /\ Mine.answer.kind \in {"ok", "tree"}
  /\ model' = Mine.answer.tree /\ pageVersion' = Mine.answer.version
  /\ Mine'.pc = "running" /\ Mine'.answer = NoAnswer
  /\ Later(queue') \subseteq Later(queue) /\ Pending(queue') \subseteq Later(queue)
  /\ status = "editing" => Pending(queue) \subseteq Pending(queue') \cup Mine.entry[1].acts
  /\ status = "locked" => Pending(queue') = {}
  /\ dropped \subseteq dropped'
  /\ \/ Mine.pc = "landing" \/ (Mine.pc = "sending" /\ Mine.answer.kind = "ok")
     \/ /\ Mine.pc = "reading" /\ Mine.answer.kind = "tree"
        /\ AlreadyApplied(Mine.entry[1], Mine.answer.tree)
        /\ {a \in Mine.entry[1].acts : GoneAnyway(a)} \subseteq dropped'

LEMMA AnswerParts ==
  ASSUME NEW ans \in Answers
  PROVE  /\ ans.kind \in {"ok", "tree"} => ans.tree \in Tree
         /\ ans.kind \in Versioned => ans.version \in Nat
  BY DEF Answers, Versioned, NoAnswer

LEMMA LandsCore ==
  ASSUME CoreInv, NEW k \in Sessions, SaveLands(k) \/ LandingRead(k) \/ ReadAlreadyApplied(k)
  PROVE  CoreInv' /\ Lands
<1>0. /\ RunnersOK /\ Mine = runner[session] /\ Mine \in Runners /\ status \in {"editing", "locked"}
      /\ Len(<<>>) <= 1 /\ Mine.answer \in Answers
  BY MineTyped DEF CoreInv, DataOK
<1>1. k = session /\ runner[k] = Mine /\ Awaiting(Mine.pc) /\ scope' = <<>>
  <2>1. MutationEnds(k) \/ (runner[k].pc \in {"landing", "reading"} /\ scope' = scope)
    BY DEF SaveLands, LandingRead, ReadAlreadyApplied
  <2> QED
    BY <1>0, <2>1, OnlyMine DEF Awaiting, CoreInv, SoloInv
<1>2. PICK r : r = [Mine EXCEPT !.uncertain = FALSE, !.entry = <<>>]
  OBVIOUS
<1>3. /\ r \in Runners /\ r.entry = <<>> /\ r.base = Mine.base /\ r.timer = Mine.timer
      /\ r.flush = Mine.flush /\ r.disposed = Mine.disposed
  <2>1. <<>> \in Seq(Entries)
    BY EmptySeq
  <2> QED
    BY <1>0, <1>2, <2>1 DEF Runners
<1>4. /\ WriteApplied(Mine.answer) /\ Mine.answer.kind \in {"ok", "tree"}
      /\ UNCHANGED <<session, status, strays, performed, landed, version, tree, notice, holder, signedIn>>
      /\ \/ dropped' = dropped
         \/ dropped' = dropped \cup {a \in Mine.entry[1].acts : GoneAnyway(a)}
      /\ dropped \subseteq dropped'
      /\ \/ Mine.pc = "landing" \/ (Mine.pc = "sending" /\ Mine.answer.kind = "ok")
         \/ /\ Mine.pc = "reading" /\ Mine.answer.kind = "tree"
            /\ AlreadyApplied(Mine.entry[1], Mine.answer.tree)
            /\ {a \in Mine.entry[1].acts : GoneAnyway(a)} \subseteq dropped'
  <2>1. CASE SaveLands(k)
    BY <1>1, <2>1, OnlyMine DEF SaveLands, server, history
  <2>2. CASE LandingRead(k)
    BY <1>1, <2>2 DEF LandingRead, server, history
  <2>3. CASE ReadAlreadyApplied(k)
    BY <1>1, <2>3 DEF ReadAlreadyApplied, server
  <2> QED
    BY <2>1, <2>2, <2>3
<1>5. PICK pc \in Pcs : pc = "running"
  BY DEF Pcs
<1>6. Go(session, r, pc)
  BY <1>1, <1>2, <1>5 DEF SaveLands, LandingRead, ReadAlreadyApplied
<1>7. Moved(r, pc) /\ Mine'.answer = NoAnswer
  BY <1>0, <1>3, <1>4, <1>6, GoMoves
<1>8. /\ Sound(performed, queue)' /\ AgreeInv'
      /\ Pending(queue') \subseteq Later(queue) /\ Later(queue') \subseteq Later(queue)
      /\ status = "editing" => Pending(queue) \subseteq Pending(queue') \cup Mine.entry[1].acts
      /\ status = "locked" => Pending(queue') = {}
  <2>1. queue' = OnSuccess(queue) /\ Moved(r, "running")
    BY <1>4, <1>5, <1>7 DEF WriteApplied
  <2>2. /\ Sound(performed, queue)' /\ AgreeInv'
        /\ Pending(queue') \subseteq Pending(queue) /\ Later(queue') \subseteq Later(queue)
        /\ status = "editing" => /\ Pending(queue') = Later(queue)
                                 /\ Pending(queue) = Later(queue) \cup Mine.entry[1].acts
        /\ status = "locked" => Pending(queue') = {}
    BY <1>1, <1>3, <1>4, <2>1, GoneAgrees
  <2> QED
    BY <1>0, <2>2
<1>9. DataOK'
  <2>1. Mine.entry[1].acts \subseteq Acts
    BY <1>1, InAirTyped DEF Entries
  <2>2. Mine.answer.tree \in Tree /\ Mine.answer.version \in Nat
    BY <1>0, <1>4, AnswerParts DEF Versioned
  <2> QED
    BY <1>4, <2>1, <2>2 DEF CoreInv, DataOK, WriteApplied
<1>10. CoreInv'
  <2>1. scope' = IF pc = "sending" THEN <<session>> ELSE <<>>
    BY <1>1, <1>5
  <2> QED
    BY <1>3, <1>4, <1>7, <1>8, <1>9, <2>1, CoreFrom
<1>11. Mine'.pc = "running"
  BY <1>5, <1>7 DEF Moved
<1>12. Lands
  BY <1>1, <1>4, <1>7, <1>8, <1>11 DEF Lands, WriteApplied
<1> QED
  BY <1>10, <1>12

\* Every step of the session's runner.
LEMMA ClientCore ==
  ASSUME CoreInv, NEW k \in Sessions, ClientStep(k)
  PROVE  CoreInv' /\ (Quietly \/ Takes \/ Lands)
<1>1. CASE Drain(k)
  <2>1. k = session
    BY <1>1, OnlyMine DEF Drain
  <2>2. \/ status # "editing" \/ ~CanTake(PruneEmpty(queue, model.blocks))
        \/ /\ status = "editing" /\ CanTake(PruneEmpty(queue, model.blocks))
           /\ queue' = TakeNext(PruneEmpty(queue, model.blocks))
    BY <1>1 DEF Drain
  <2> QED
    BY <1>1, <2>1, <2>2, DrainStops, DrainSends
<1>2. CASE SaveLands(k) \/ LandingRead(k) \/ ReadAlreadyApplied(k)
  BY <1>2, LandsCore
<1>3. CASE SaveRefused(k)
  BY <1>3, RefusedCore
<1>4. CASE SaveLandsUnread(k) \/ AnswerUnheard(k) \/ SendAgain(k) \/ NoteStale(k)
  BY <1>4, QuietMovesCore
<1>5. CASE \/ SaveStale(k) \/ \E view \in {"other", "mine", "free", "missing"} : SaveLocked(k, view)
           \/ SaveUnauthenticated(k) \/ SaveUnanswered(k) \/ LandingUnread(k)
           \/ ReadConflict(k) \/ ReadUnanswered(k) \/ ReadUnauthenticated(k)
  BY <1>5, FailuresCore
<1> QED
  BY <1>1, <1>2, <1>3, <1>4, <1>5 DEF ClientStep

\* An act joins the queue; what the runner waits for is what it waited for.
Performs(a) ==
  /\ session' = session /\ UNCHANGED <<status, strays, landed, dropped, model, pageVersion, version, tree>>
  /\ Performable(a) /\ performed' = Append(performed, a)
  /\ Pending(queue') = Pending(queue) \cup {a} /\ Later(queue') \subseteq Later(queue) \cup {a}
  /\ Mine'.pc = Mine.pc \/ (Mine.pc = "idle" /\ Mine'.pc = "running")
  /\ Mine'.entry = Mine.entry /\ Mine'.base = Mine.base /\ Mine'.answer = Mine.answer

LEMMA PerformCore ==
  ASSUME CoreInv, KnownInv, NEW a \in Acts, NEW immediate \in BOOLEAN, Perform(a, immediate)
  PROVE  CoreInv' /\ Performs(a)
<1>0. /\ RunnersOK /\ Mine = runner[session] /\ Mine \in Runners /\ status = "editing"
      /\ ~Mine.disposed /\ Len(Mine.entry) <= 1 /\ Sound(performed, queue)
      /\ ~Awaiting(Mine.pc) => Mine.answer = NoAnswer
      /\ performed \in Seq(Acts)
  BY MineTyped DEF CoreInv, Perform, HasRunner, RunnersOK, DataOK
<1>1. /\ session' = session
      /\ UNCHANGED <<status, notice, scope, strays, landed, dropped, model, pageVersion, version, tree, holder, signedIn>>
      /\ Performable(a) /\ performed' = Append(performed, a)
      /\ queue' = Enqueue(queue, a, immediate)
  BY DEF Perform, server
<1>2. PICK ready \in BOOLEAN : ready = (immediate \/ KindOf[a] # "update")
  OBVIOUS
<1>3. /\ Sound(performed', queue')
      /\ queue'.inFlight = queue.inFlight /\ queue'.entries # <<>>
      /\ Pending(queue') = Pending(queue) \cup {a} /\ Later(queue') \subseteq Later(queue) \cup {a}
      /\ Held(queue') <=> Held(queue)
      /\ HoldsAfterNetworkFailure(queue') <=> HoldsAfterNetworkFailure(queue)
      /\ Held(queue) => queue'.status = queue.status /\ queue'.lastFailure = queue.lastFailure
      /\ ready => \A i \in DOMAIN queue'.entries : queue'.entries[i].ready
      /\ ~ready => \A i \in DOMAIN queue'.entries :
                     queue'.entries[i].ready => i \in DOMAIN queue.entries /\ queue.entries[i].ready
  <2>1. \A n \in DOMAIN performed : performed[n] # a
    BY <1>1 DEF Performable, Performed
  <2>2. \A c \in Pending(queue) : \E n \in DOMAIN performed : performed[n] = c
    <3>1. Pending(queue) \subseteq Acts
      BY <1>0, PendingActs DEF Sound
    <3> QED
      BY <3>1 DEF KnownInv, Performed
  <2>3. /\ Sound(Append(performed, a), queue')
        /\ queue'.inFlight = queue.inFlight /\ queue'.entries # <<>>
        /\ Pending(queue') = Pending(queue) \cup {a} /\ Later(queue') \subseteq Later(queue) \cup {a}
        /\ Held(queue') <=> Held(queue)
        /\ HoldsAfterNetworkFailure(queue') <=> HoldsAfterNetworkFailure(queue)
        /\ Held(queue) => queue'.status = queue.status /\ queue'.lastFailure = queue.lastFailure
        /\ (immediate \/ KindOf[a] # "update") => \A i \in DOMAIN queue'.entries : queue'.entries[i].ready
        /\ ~(immediate \/ KindOf[a] # "update") =>
             \A i \in DOMAIN queue'.entries :
                queue'.entries[i].ready => i \in DOMAIN queue.entries /\ queue.entries[i].ready
    BY <1>0, <1>1, <2>1, <2>2, EnqueueSound
  <2> QED
    BY <1>1, <1>2, <2>3
<1>4. PICK f : f = IF Mine.flush = "waiting" THEN Mine.flush ELSE "none"
  OBVIOUS
<1>5. PICK t : t = IF ready THEN Mine.timer ELSE TRUE
  OBVIOUS
<1>6. PICK r : r = [Mine EXCEPT !.flush = f]
  OBVIOUS
<1>7. PICK r2 : r2 = [r EXCEPT !.timer = TRUE]
  OBVIOUS
<1>8. PICK pc : pc = IF ready /\ Mine.pc = "idle" THEN "running" ELSE Mine.pc
  OBVIOUS
<1>9. /\ r \in Runners /\ r.pc = Mine.pc /\ r.entry = Mine.entry /\ r.base = Mine.base
      /\ r.answer = Mine.answer /\ r.disposed = Mine.disposed /\ r.timer = Mine.timer /\ r.flush = f
      /\ f # "saved"
  BY <1>0, <1>4, <1>6 DEF Runners
<1>10. /\ r2 \in Runners /\ r2.pc = Mine.pc /\ r2.entry = Mine.entry /\ r2.base = Mine.base
       /\ r2.answer = Mine.answer /\ r2.disposed = Mine.disposed /\ r2.timer = TRUE /\ r2.flush = f
  BY <1>7, <1>9 DEF Runners
<1>11. runner' = [runner EXCEPT ![session] = IF ready THEN Kicked(r) ELSE r2]
  BY <1>2, <1>4, <1>6, <1>7 DEF Perform
<1>12. /\ RunnersOK' /\ Mine'.pc = pc /\ Mine'.entry = Mine.entry /\ Mine'.base = Mine.base
       /\ Mine'.answer = Mine.answer /\ Mine'.disposed = Mine.disposed /\ Mine'.timer = t
       /\ Mine'.flush # "saved"
  <2>1. CASE ready
    <3>1. runner' = [runner EXCEPT ![session] = Kicked(r)] /\ session' = session
      BY <1>1, <1>11, <2>1
    <3>2. /\ Moved(r, IF r.pc = "idle" /\ ~r.disposed THEN "running" ELSE r.pc)
          /\ Mine'.answer = r.answer /\ Mine'.entry = r.entry /\ Mine'.flush = r.flush
      BY <1>0, <1>9, <3>1, KickMoves
    <3> QED
      BY <1>0, <1>5, <1>8, <1>9, <2>1, <3>2 DEF Moved
  <2>2. CASE ~ready
    <3>1. runner' = [runner EXCEPT ![session] = r2] /\ session' = session
      BY <1>1, <1>11, <2>2
    <3>2. RunnersOK' /\ Mine' = r2
      BY <1>0, <1>10, <3>1, MovesOK
    <3> QED
      BY <1>5, <1>8, <1>9, <1>10, <2>2, <3>2
  <2> QED
    BY <2>1, <2>2
<1>13. DataOK'
  <2>1. Append(performed, a) \in Seq(Acts)
    BY <1>0, AppendProperties
  <2> QED
    BY <1>1, <2>1 DEF CoreInv, DataOK
<1>14. SoloInv'
  BY <1>0, <1>1, <1>8, <1>12 DEF CoreInv, SoloInv
<1>15. /\ (Awaiting(pc) <=> Awaiting(Mine.pc)) /\ (pc = "asking" <=> Mine.pc = "asking")
       /\ pc = "idle" => Mine.pc = "idle" /\ ~ready
  BY <1>8 DEF Awaiting
<1>16. ASSUME Mine.pc = "asking"
       PROVE  queue'.status = "paused" /\ queue'.lastFailure # "network"
  BY <1>0, <1>3, <1>16 DEF CoreInv, AgreeInv, Held
<1>17. ASSUME pc = "idle", ~Held(queue'), NEW i \in DOMAIN queue'.entries, i = 1
       PROVE  ~queue'.entries[i].ready
  BY <1>0, <1>3, <1>15, <1>17 DEF CoreInv, AgreeInv
<1>18. ASSUME NEW i \in DOMAIN queue'.entries, ~queue'.entries[i].ready PROVE t
  BY <1>3, <1>5, <1>18
<1>19. AgreeInv'
  BY <1>0, <1>1, <1>3, <1>12, <1>15, <1>16, <1>17, <1>18 DEF CoreInv, AgreeInv
<1>20. CoreInv'
  BY <1>3, <1>12, <1>13, <1>14, <1>19 DEF CoreInv
<1>21. Performs(a)
  BY <1>1, <1>3, <1>8, <1>12 DEF Performs
<1> QED
  BY <1>20, <1>21

-----------------------------------------------------------------------------
(* Steps of the server, of other people and of the session itself.         *)

\* What the session holds, whatever its runner's answer says.
Unmoved ==
  /\ session' = session /\ UNCHANGED <<status, queue, model, pageVersion, performed, dropped>>
  /\ Mine'.pc = Mine.pc /\ Mine'.entry = Mine.entry /\ Mine'.base = Mine.base
  /\ strays' \subseteq strays

LEMMA UnmovedCore ==
  ASSUME CoreInv, UNCHANGED <<store, runner, scope, performed, dropped>>, DataOK', strays' \subseteq strays
  PROVE  CoreInv' /\ Unmoved /\ Mine'.answer = Mine.answer
<1>1. Mine' = Mine /\ session' = session /\ UNCHANGED <<status, queue, model, pageVersion>>
  BY DEF Mine, store
<1>2. RunnersOK' /\ SoloInv' /\ AgreeInv' /\ Sound(performed, queue)'
  BY <1>1 DEF CoreInv, RunnersOK, SoloInv, AgreeInv
<1> QED
  BY <1>1, <1>2 DEF CoreInv, Unmoved

LEMMA AnsweredCore ==
  ASSUME CoreInv, Awaiting(Mine.pc), NEW ans \in Answers, Answered(session, ans),
         UNCHANGED <<store, scope, strays, performed, dropped>>, DataOK'
  PROVE  CoreInv' /\ Unmoved /\ Mine'.answer = ans
<1>0. RunnersOK /\ Mine = runner[session] /\ session \in Sessions /\ Mine \in Runners /\ Len(Mine.entry) <= 1
  BY MineTyped DEF CoreInv
<1>1. PICK x : x = [Mine EXCEPT !.answer = ans]
  OBVIOUS
<1>2. /\ x \in Runners /\ x.pc = Mine.pc /\ x.entry = Mine.entry /\ x.base = Mine.base /\ x.answer = ans
      /\ x.disposed = Mine.disposed /\ x.flush = Mine.flush /\ x.timer = Mine.timer
  BY <1>0, <1>1 DEF Runners
<1>3. session' = session /\ UNCHANGED <<status, queue, model, pageVersion>>
  BY DEF store
<1>4. runner' = [runner EXCEPT ![session] = x]
  BY <1>0, <1>1 DEF Answered
<1>5. RunnersOK' /\ Mine' = x
  BY <1>0, <1>2, <1>3, <1>4, MovesOK
<1>6. SoloInv' /\ AgreeInv' /\ Sound(performed, queue)'
  BY <1>2, <1>3, <1>5 DEF CoreInv, SoloInv, AgreeInv
<1> QED
  BY <1>2, <1>3, <1>5, <1>6 DEF CoreInv, Unmoved

\* A request that was made on the page as it is changes it.
Writes(c) ==
  /\ Unmoved /\ c \in InAir /\ c.base = version /\ version' = version + 1
  /\ tree' = Apply(c.entry, tree) /\ landed' = Append(landed, c.entry.acts)
  /\ \/ Mine'.answer = Mine.answer
     \/ /\ Mine.pc = "sending" /\ Mine.answer = NoAnswer /\ c = Request
        /\ Mine'.answer = [kind |-> "committed", version |-> version + 1]

\* The page stays as it is, and the runner may be told something of it.
Learns ==
  /\ Unmoved /\ UNCHANGED <<version, tree, landed>>
  /\ \/ Mine'.answer = Mine.answer
     \/ Mine'.answer.kind \in {"session", "locked", "refused"}
     \/ Mine'.answer.kind = "stale" /\ Mine.base # version
     \/ /\ Mine.answer.kind = "committed" /\ Mine.pc = "sending"
        /\ Mine'.answer.kind \in {"ok", "unread"} /\ Mine'.answer.version = Mine.answer.version
        /\ Mine'.answer.kind = "ok" => Mine'.answer.tree = tree
     \/ /\ Mine.pc \in {"reading", "landing"}
        /\ Mine'.answer = [kind |-> "page", version |-> version]
     \/ /\ Mine.answer.kind = "page"
        /\ Mine'.answer = [kind |-> "tree", tree |-> tree, version |-> Mine.answer.version]

\* Somebody else changes the page.
Foreign ==
  /\ Unmoved /\ UNCHANGED landed /\ Mine'.answer = Mine.answer /\ version' = version + 1
  /\ tree'.blocks \subseteq tree.blocks /\ tree'.values \subseteq tree.values

LEMMA ApplyTyped ==
  ASSUME NEW e \in Entries, NEW t \in Tree PROVE Apply(e, t) \in Tree
  BY DEF Entries, Tree, Apply

LEMMA ArrivalCore ==
  ASSUME CoreInv, NEW s, StrayArrives(s)
  PROVE  CoreInv' /\ (Learns \/ Writes(s))
<1>1. /\ s \in strays /\ s.entry \in Entries /\ s.base \in Nat /\ s \in InAir
      /\ strays' \subseteq strays /\ UNCHANGED <<store, runner, scope, holder, signedIn, performed, dropped>>
  BY DEF StrayArrives, CoreInv, DataOK, InAir
<1>2. UNCHANGED <<status, notice, model, pageVersion, session>>
  BY <1>1 DEF store
<1>3. CASE Verdict(s.entry, s.base) # "ok"
  <2>1. UNCHANGED <<tree, version, landed>>
    BY <1>3 DEF StrayArrives, CarriedOut
  <2>2. DataOK'
    BY <1>1, <1>2, <2>1 DEF CoreInv, DataOK
  <2>3. CoreInv' /\ Unmoved /\ Mine'.answer = Mine.answer
    BY <1>1, <2>2, UnmovedCore
  <2> QED
    BY <2>1, <2>3 DEF Learns
<1>4. CASE Verdict(s.entry, s.base) = "ok"
  <2>1. /\ tree' = Apply(s.entry, tree) /\ version' = version + 1
        /\ landed' = Append(landed, s.entry.acts)
    BY <1>4 DEF StrayArrives, CarriedOut
  <2>2. s.base = version
    BY <1>4 DEF Verdict
  <2>3. DataOK'
    <3>1. tree' \in Tree
      BY <1>1, <2>1, ApplyTyped DEF CoreInv, DataOK
    <3>2. landed' \in Seq(SUBSET Acts)
      BY <1>1, <2>1, AppendProperties DEF CoreInv, DataOK, Entries
    <3>3. version' \in Nat
      BY <2>1 DEF CoreInv, DataOK
    <3> QED
      BY <1>1, <1>2, <3>1, <3>2, <3>3 DEF CoreInv, DataOK
  <2>4. CoreInv' /\ Unmoved /\ Mine'.answer = Mine.answer
    BY <1>1, <2>3, UnmovedCore
  <2> QED
    BY <1>1, <2>1, <2>2, <2>4 DEF Writes
<1> QED
  BY <1>3, <1>4

LEMMA EditCore ==
  ASSUME CoreInv, NEW k \in Sessions, ServerEdit(k)
  PROVE  CoreInv' /\ (Learns \/ Writes(Request))
<1>1. /\ k = session /\ Mine = runner[k] /\ Mine.pc = "sending" /\ Awaiting(Mine.pc) /\ Mine.answer = NoAnswer
  BY OnlyMine DEF ServerEdit, Mine, Awaiting
<1>2. /\ Request \in InAir /\ Request.entry = Mine.entry[1] /\ Request.base = Mine.base
      /\ Mine.entry[1] \in Entries /\ Mine.base \in Nat
  BY <1>1, InAirTyped, MineTyped DEF Request, CoreInv
<1>3. UNCHANGED <<store, scope, strays, holder, signedIn, performed, dropped>>
  BY DEF ServerEdit
<1>4. UNCHANGED <<status, notice, model, pageVersion, session>>
  BY <1>3 DEF store
<1>5. PICK v : v = Verdict(Mine.entry[1], Mine.base)
  OBVIOUS
<1>6. v \in {"session", "stale", "locked", "refused", "ok"} /\ (v = "stale" => Mine.base # version)
      /\ (v = "ok" => Mine.base = version)
  <2>1. signedIn \in BOOLEAN
    BY DEF CoreInv, DataOK
  <2> QED
    BY <1>5, <2>1 DEF Verdict
<1>7. CASE v # "ok"
  <2>1. UNCHANGED <<tree, version, landed>> /\ Answered(session, [kind |-> v])
    BY <1>1, <1>5, <1>7 DEF ServerEdit, CarriedOut
  <2>2. DataOK'
    BY <1>3, <1>4, <2>1 DEF CoreInv, DataOK
  <2>3. [kind |-> v] \in Answers
    BY <1>6, <1>7 DEF Answers
  <2>4. CoreInv' /\ Unmoved /\ Mine'.answer = [kind |-> v]
    BY <1>1, <1>3, <2>1, <2>2, <2>3, AnsweredCore
  <2> QED
    BY <1>6, <1>7, <2>1, <2>4 DEF Learns
<1>8. CASE v = "ok"
  <2>1. /\ tree' = Apply(Mine.entry[1], tree) /\ version' = version + 1
        /\ landed' = Append(landed, Mine.entry[1].acts)
        /\ Answered(session, [kind |-> "committed", version |-> version'])
    BY <1>1, <1>5, <1>8 DEF ServerEdit, CarriedOut
  <2>2. version \in Nat /\ version + 1 \in Nat
    BY DEF CoreInv, DataOK
  <2>3. DataOK'
    <3>1. tree' \in Tree
      BY <1>2, <2>1, ApplyTyped DEF CoreInv, DataOK
    <3>2. landed' \in Seq(SUBSET Acts)
      BY <1>2, <2>1, AppendProperties DEF CoreInv, DataOK, Entries
    <3> QED
      BY <1>3, <1>4, <2>1, <2>2, <3>1, <3>2 DEF CoreInv, DataOK
  <2>4. [kind |-> "committed", version |-> version + 1] \in Answers
    BY <2>2 DEF Answers
  <2>5. CoreInv' /\ Unmoved /\ Mine'.answer = [kind |-> "committed", version |-> version + 1]
    BY <1>1, <1>3, <2>1, <2>3, <2>4, AnsweredCore
  <2> QED
    BY <1>1, <1>2, <1>6, <1>8, <2>1, <2>5 DEF Writes
<1> QED
  BY <1>7, <1>8

LEMMA ReadsCore ==
  ASSUME CoreInv, NEW k \in Sessions, ServerReadBack(k) \/ ServerReadPage(k) \/ ServerReadBlocks(k)
  PROVE  CoreInv' /\ Learns
<1>1. k = session /\ Mine = runner[k] /\ Awaiting(Mine.pc) /\ Mine.answer \in Answers
  <2>1. Awaiting(runner[k].pc) \/ runner[k].answer.kind # "none"
    BY DEF ServerReadBack, ServerReadPage, ServerReadBlocks, Awaiting
  <2> QED
    BY <2>1, OnlyMine, MineTyped DEF Mine, CoreInv
<1>2. UNCHANGED <<store, scope, strays, server, history>>
  BY DEF ServerReadBack, ServerReadPage, ServerReadBlocks
<1>3. UNCHANGED <<status, notice, model, pageVersion, session, version, tree, holder, signedIn, performed, landed, dropped>>
  BY <1>2 DEF store, server, history
<1>4. DataOK'
  BY <1>2, <1>3 DEF CoreInv, DataOK
<1>5. tree \in Tree /\ version \in Nat
  BY DEF CoreInv, DataOK
<1>6. CASE ServerReadBack(k)
  <2>1. PICK v : v = Mine.answer.version
    OBVIOUS
  <2>2. Mine.pc = "sending" /\ Mine.answer.kind = "committed" /\ v \in Nat
    BY <1>1, <1>6, <2>1, OnlyMine, AnswerParts DEF ServerReadBack, Versioned
  <2>3. PICK ans \in {[kind |-> "ok", tree |-> tree, version |-> v], [kind |-> "unread", version |-> v]} :
          Answered(session, ans)
    BY <1>1, <1>6, <2>1 DEF ServerReadBack
  <2>4. ans \in Answers
    BY <1>5, <2>2, <2>3 DEF Answers
  <2>5. CoreInv' /\ Unmoved /\ Mine'.answer = ans
    BY <1>1, <1>2, <1>3, <1>4, <2>3, <2>4, AnsweredCore
  <2> QED
    BY <1>3, <2>1, <2>2, <2>3, <2>5 DEF Learns
<1>7. CASE ServerReadPage(k)
  <2>1. PICK ans \in {[kind |-> "page", version |-> version], [kind |-> "session"]} : Answered(session, ans)
    BY <1>1, <1>7 DEF ServerReadPage
  <2>2. ans \in Answers
    BY <1>5, <2>1 DEF Answers
  <2>3. CoreInv' /\ Unmoved /\ Mine'.answer = ans
    BY <1>1, <1>2, <1>3, <1>4, <2>1, <2>2, AnsweredCore
  <2> QED
    BY <1>1, <1>3, <1>7, <2>1, <2>3 DEF Learns, ServerReadPage
<1>8. CASE ServerReadBlocks(k)
  <2>1. PICK v : v = Mine.answer.version
    OBVIOUS
  <2>2. Mine.answer.kind = "page" /\ v \in Nat
    BY <1>1, <1>8, <2>1, AnswerParts DEF ServerReadBlocks, Versioned
  <2>3. PICK ans : ans = [kind |-> "tree", tree |-> tree, version |-> v]
    OBVIOUS
  <2>4. ans \in Answers
    BY <1>5, <2>2, <2>3 DEF Answers
  <2>5. Answered(session, ans)
    BY <1>1, <1>8, <2>1, <2>3 DEF ServerReadBlocks
  <2>6. CoreInv' /\ Unmoved /\ Mine'.answer = ans
    BY <1>1, <1>2, <1>3, <1>4, <2>4, <2>5, AnsweredCore
  <2> QED
    BY <1>3, <2>1, <2>2, <2>3, <2>6 DEF Learns
<1> QED
  BY <1>6, <1>7, <1>8

LEMMA OthersCore ==
  ASSUME CoreInv, ForeignWrite \/ OtherTakesOver \/ LockMoves \/ SessionEnds \/ UNCHANGED vars
  PROVE  CoreInv' /\ (Learns \/ Foreign)
<1>1. UNCHANGED <<store, runner, scope, strays, performed, landed, dropped>>
  BY DEF ForeignWrite, OtherTakesOver, LockMoves, SessionEnds, vars, history
<1>2. UNCHANGED <<status, notice, model, pageVersion, session>>
  BY <1>1 DEF store
<1>3. tree \in Tree /\ version \in Nat /\ holder \in {"mine", "other", "free"} /\ signedIn \in BOOLEAN
  BY DEF CoreInv, DataOK
<1>4. CASE ForeignWrite \/ OtherTakesOver
  <2>1. /\ version' = version + 1 /\ tree' \in Tree /\ holder' \in {"mine", "other", "free"} /\ signedIn' = signedIn
        /\ tree'.blocks \subseteq tree.blocks /\ tree'.values \subseteq tree.values
    <3>1. CASE OtherTakesOver
      BY <1>3, <3>1 DEF OtherTakesOver
    <3>2. CASE ForeignWrite /\ tree' = tree
      BY <1>3, <3>2 DEF ForeignWrite
    <3>3. ASSUME ForeignWrite, NEW b \in tree.blocks, tree' = Apply([kind |-> "delete", block |-> b], tree)
          PROVE  tree' \in Tree /\ tree'.blocks \subseteq tree.blocks /\ tree'.values \subseteq tree.values
      BY <1>3, <3>3 DEF Apply, Tree
    <3>4. ASSUME ForeignWrite, NEW a \in tree.values, tree' = [tree EXCEPT !.values = @ \ {a}]
          PROVE  tree' \in Tree /\ tree'.blocks \subseteq tree.blocks /\ tree'.values \subseteq tree.values
      BY <1>3, <3>4 DEF Tree
    <3> QED
      BY <1>3, <1>4, <3>1, <3>2, <3>3, <3>4 DEF ForeignWrite
  <2>2. DataOK'
    BY <1>1, <1>2, <1>3, <2>1 DEF CoreInv, DataOK
  <2>3. CoreInv' /\ Unmoved /\ Mine'.answer = Mine.answer
    BY <1>1, <2>2, UnmovedCore
  <2> QED
    BY <1>1, <2>1, <2>3 DEF Foreign
<1>5. CASE LockMoves \/ SessionEnds \/ UNCHANGED vars
  <2>1. UNCHANGED <<version, tree>> /\ holder' \in {"mine", "other", "free"} /\ signedIn' \in BOOLEAN
    BY <1>3, <1>5 DEF LockMoves, SessionEnds, vars, server
  <2>2. DataOK'
    BY <1>1, <1>2, <2>1 DEF CoreInv, DataOK
  <2>3. CoreInv' /\ Unmoved /\ Mine'.answer = Mine.answer
    BY <1>1, <2>2, UnmovedCore
  <2> QED
    BY <1>1, <2>1, <2>3 DEF Learns
<1> QED
  BY <1>4, <1>5

\* The page is opened again, by a session with nothing on its way.
Reopens ==
  /\ UNCHANGED <<strays, performed, landed, version, tree>>
  /\ ~Awaiting(Mine.pc) /\ ~Awaiting(Mine'.pc) /\ Mine'.answer = NoAnswer
  /\ model' = tree /\ pageVersion' = version /\ Pending(queue') = {} /\ Later(queue') = {}
  /\ \A a \in Performed : Landed(a) \/ a \in dropped'

LEMMA ReopenCore ==
  ASSUME CoreInv, KnownInv, ~Overlap, Reopen
  PROVE  CoreInv' /\ Reopens
<1>1. /\ RunnersOK /\ DataOK /\ SoloInv /\ Mine = runner[session] /\ session \in Sessions
      /\ Mine.pc = "idle" /\ Mine.disposed
  BY DEF CoreInv, Mine, RunnersOK, Reopen
<1>2. /\ holder' = "mine" /\ status' = "editing" /\ queue' = CreateQueue /\ notice' = "none"
      /\ model' = tree /\ pageVersion' = version /\ session' = session + 1 /\ session < MaxSessions
      /\ dropped' = dropped \cup {a \in Performed : ~Landed(a)}
      /\ UNCHANGED <<runner, scope, strays, version, tree, signedIn, performed, landed>>
  BY DEF Reopen
<1>3. session' \in Sessions /\ \A k \in Sessions : k > session' => k > session
  BY <1>1, <1>2 DEF Sessions
<1>4. runner[session'] = Fresh
  <2>1. session' > session
    BY <1>1, <1>2 DEF Sessions
  <2> QED
    BY <1>1, <1>3, <2>1 DEF RunnersOK
<1>5. \A k \in Sessions : runner[k].pc = "idle"
  BY <1>1 DEF RunnersOK
<1>6. RunnersOK' /\ Mine' = Fresh
  BY <1>1, <1>2, <1>3, <1>4, <1>5 DEF RunnersOK, Mine
<1>7. /\ Mine'.pc = "idle" /\ Mine'.flush = "none" /\ ~Mine'.disposed /\ Mine'.answer = NoAnswer
      /\ ~Awaiting(Mine'.pc)
  BY <1>6 DEF Fresh, Awaiting
<1>8. /\ Sound(performed, queue') /\ Pending(queue') = {} /\ Later(queue') = {}
      /\ queue'.entries = <<>> /\ queue'.inFlight = <<>> /\ ~HasPending(queue')
  BY <1>2, CreateSound
<1>9. DOMAIN queue'.entries = {}
  BY <1>8
<1>10. AgreeInv'
  BY <1>2, <1>7, <1>8, <1>9 DEF AgreeInv
<1>11. SoloInv'
  BY <1>1, <1>2, <1>7 DEF SoloInv
<1>12. DataOK'
  <2>1. Performed \subseteq Acts
    BY <1>1, ElementOfSeq, LenProperties DEF DataOK, Performed
  <2> QED
    BY <1>1, <1>2, <2>1 DEF DataOK
<1>13. CoreInv'
  BY <1>2, <1>6, <1>8, <1>10, <1>11, <1>12 DEF CoreInv
<1>14. \A a \in Performed : Landed(a) \/ a \in dropped'
  BY <1>2
<1>15. ~Awaiting(Mine.pc)
  BY <1>1 DEF Awaiting
<1> QED
  BY <1>2, <1>7, <1>8, <1>13, <1>14, <1>15 DEF Reopens

-----------------------------------------------------------------------------
(* What each kind of step does to the invariant's other parts.             *)

LEMMA SameHistory ==
  ASSUME UNCHANGED <<performed, landed>>
  PROVE  /\ Performed' = Performed
         /\ \A a : Landed(a)' <=> Landed(a)
         /\ \A b : Minted(b)' <=> Minted(b)
         /\ \A b : Deleted(b)' <=> Deleted(b)
  BY DEF Performed, Landed, Minted, Deleted

LEMMA QuietKeeps ==
  ASSUME IInv, CoreInv', Quietly
  PROVE  IInv'
<1>0. /\ CoreInv /\ KnownInv /\ BaseInv /\ SpentInv /\ AccountInv /\ IdsInv /\ TurnInv
      /\ UNCHANGED <<performed, landed, model, pageVersion, version, tree>>
  BY DEF IInv, Quietly, Frame
<1>1. /\ Performed' = Performed
      /\ \A a : Landed(a)' <=> Landed(a)
      /\ \A b : Minted(b)' <=> Minted(b)
      /\ \A b : Deleted(b)' <=> Deleted(b)
  BY <1>0, SameHistory
<1>2. InAir' \subseteq InAir
  BY DEF Quietly, InAir, Request, Awaiting
<1>3. Pending(queue') \subseteq Pending(queue) /\ Later(queue') \subseteq Later(queue)
  BY DEF Quietly
<1>4. KnownInv'
  BY <1>0, <1>1, <1>2, <1>3 DEF KnownInv, Quietly, Known
<1>5. BaseInv'
  BY <1>0, <1>2 DEF BaseInv, Quietly, NoAnswer, Versioned, Awaiting
<1>6. SpentInv'
  BY <1>0, <1>1, <1>2, <1>3 DEF SpentInv
<1>7. AccountInv'
  BY <1>0, <1>1 DEF AccountInv, Quietly, NoAnswer, Awaiting
<1>8. IdsInv'
  BY <1>0, <1>1 DEF IdsInv, Quietly, NoAnswer
<1>9. TurnInv'
  BY <1>0 DEF TurnInv, AtMostOnce, OrderKept
<1> QED
  BY <1>4, <1>5, <1>6, <1>7, <1>8, <1>9 DEF IInv

\* No act comes both before and after another.
LEMMA NeverBothWays ==
  ASSUME performed \in Seq(Acts), KnownInv, NEW a, NEW c, Before(performed, a, c)
  PROVE  ~Before(performed, c, a) /\ a # c
<1>1. PICK m, n \in DOMAIN performed : m < n /\ performed[m] = a /\ performed[n] = c
  BY DEF Before
<1>2. DOMAIN performed = 1..Len(performed) /\ Len(performed) \in Nat
  BY LenProperties
<1>3. m \in Nat /\ n \in Nat
  BY <1>1, <1>2
<1>4. ASSUME NEW i \in DOMAIN performed, NEW j \in DOMAIN performed, i < j, performed[i] = c, performed[j] = a
      PROVE  FALSE
  <2>1. i = n /\ j = m
    BY <1>1, <1>4 DEF KnownInv
  <2> QED
    BY <1>1, <1>3, <1>4, <2>1
<1>5. a # c
  <2> SUFFICES ASSUME a = c PROVE FALSE
    OBVIOUS
  <2>1. m = n
    BY <1>1 DEF KnownInv
  <2> QED
    BY <1>1, <1>3, <2>1
<1> QED
  BY <1>4, <1>5 DEF Before

LEMMA TakesKeep ==
  ASSUME IInv, CoreInv', Takes
  PROVE  IInv'
<1>0. /\ CoreInv /\ KnownInv /\ BaseInv /\ SpentInv /\ AccountInv /\ IdsInv /\ TurnInv
      /\ UNCHANGED <<performed, landed, model, pageVersion, version, tree, status>>
      /\ performed \in Seq(Acts) /\ pageVersion \in Nat /\ version \in Nat
  BY DEF IInv, Takes, Frame, CoreInv, DataOK
<1>1. /\ Performed' = Performed
      /\ \A a : Landed(a)' <=> Landed(a)
      /\ \A b : Minted(b)' <=> Minted(b)
      /\ \A b : Deleted(b)' <=> Deleted(b)
  BY <1>0, SameHistory
<1>2. PICK X : X = Mine'.entry[1].acts
  OBVIOUS
<1>3. /\ Mine'.pc = "sending" /\ Mine'.base = pageVersion /\ Mine'.answer = NoAnswer
      /\ Mine'.entry[1] \in Entries /\ WellShaped(Mine'.entry[1]) /\ X \subseteq Acts
      /\ X \subseteq Pending(queue) /\ strays' = strays
      /\ Later(queue') \subseteq Later(queue) /\ Pending(queue') \subseteq Pending(queue)
      /\ Pending(queue') = Later(queue') \cup X
      /\ \A a \in X, c \in Later(queue') : BlockOf[a] = BlockOf[c] => Before(performed, a, c)
  BY <1>2 DEF Takes, Entries
<1>4. /\ Request'.entry = Mine'.entry[1] /\ Request'.base = pageVersion
      /\ \A c \in InAir' : c \in InAir \/ c = Request'
  BY <1>3 DEF InAir, Request
<1>5. PICK e : e = Mine'.entry[1]
  OBVIOUS
<1>6. KnownInv'
  <2>1. X \subseteq Performed
    BY <1>0, <1>3 DEF KnownInv
  <2>2. e \in Entries /\ WellShaped(e) /\ e.acts \subseteq Performed'
    BY <1>1, <1>2, <1>3, <1>5, <2>1
  <2>3. \A c \in InAir' : c.entry \in Entries /\ WellShaped(c.entry) /\ c.entry.acts \subseteq Performed'
    BY <1>0, <1>1, <1>4, <1>5, <2>2 DEF KnownInv, Known
  <2> QED
    BY <1>0, <1>1, <1>3, <1>5, <2>2, <2>3 DEF KnownInv, Known
<1>7. BaseInv'
  BY <1>0, <1>3, <1>4 DEF BaseInv, NoAnswer, Versioned
<1>8. \A c \in InAir' : \A a \in c.entry.acts, x \in Acts :
        Landed(x) /\ (a = x \/ Before(performed, a, x)) => c.base < version
  <2>1. ASSUME NEW a \in X, NEW x \in Acts, Landed(x), a = x \/ Before(performed, a, x)
        PROVE  pageVersion < version
    <3>1. Landed(a)
      BY <1>0, <1>3, <2>1 DEF SpentInv, Landed
    <3> QED
      BY <1>0, <1>3, <3>1 DEF SpentInv
  <2> QED
    BY <1>0, <1>2, <1>4, <2>1 DEF SpentInv
<1>9. \A Y \in {landed[n] : n \in DOMAIN landed} \cup {c.entry.acts : c \in InAir'} :
        Y = X \/ Y \in {landed[n] : n \in DOMAIN landed} \cup {c.entry.acts : c \in InAir}
  BY <1>2, <1>4
<1>10. X \cap Later(queue') = {}
  BY <1>0, <1>3, NeverBothWays
<1>11. ASSUME NEW x \in X, NEW a \in Pending(queue'), Before(performed, a, x) PROVE a \in X
  <2>1. a \in Later(queue') => Before(performed, x, a)
    BY <1>3, <1>11 DEF Before
  <2> QED
    BY <1>0, <1>3, <1>11, <2>1, NeverBothWays
<1>12. SpentInv'
  <2>1. ASSUME NEW Y \in {landed[n] : n \in DOMAIN landed} \cup {c.entry.acts : c \in InAir'}
        PROVE  /\ Y \cap Later(queue') = {}
               /\ \A x \in Y, a \in Pending(queue') : Before(performed, a, x) => a \in Y
    <3>1. CASE Y = X
      BY <1>10, <1>11, <3>1
    <3>2. CASE Y # X
      <4>1. Y \in {landed[n] : n \in DOMAIN landed} \cup {c.entry.acts : c \in InAir}
        BY <1>9, <2>1, <3>2
      <4> QED
        BY <1>0, <1>3, <4>1 DEF SpentInv
    <3> QED
      BY <3>1, <3>2
  <2>2. \A a \in Pending(queue') : Landed(a) => pageVersion < version
    BY <1>0, <1>3 DEF SpentInv
  <2>3. ASSUME NEW Y \in {landed'[n] : n \in DOMAIN landed'} \cup {c.entry.acts : c \in InAir'}
        PROVE  /\ Y \cap Later(queue') = {}
               /\ \A x \in Y, a \in Pending(queue') : Before(performed', a, x) => a \in Y
    <3>1. {landed'[n] : n \in DOMAIN landed'} = {landed[n] : n \in DOMAIN landed}
      BY <1>0
    <3>2. Y \in {landed[n] : n \in DOMAIN landed} \cup {c.entry.acts : c \in InAir'}
      BY <2>3, <3>1
    <3> QED
      BY <1>0, <2>1, <3>2
  <2>4. /\ \A c \in InAir' : \A a \in c.entry.acts, x \in Acts :
             Landed(x)' /\ (a = x \/ Before(performed', a, x)) => c.base < version'
        /\ \A a \in Pending(queue') : Landed(a)' => pageVersion' < version'
    BY <1>0, <1>1, <1>8, <2>2
  <2> QED
    BY <2>3, <2>4 DEF SpentInv
<1>13. AccountInv'
  BY <1>0, <1>1, <1>3 DEF AccountInv, Takes, NoAnswer
<1>14. IdsInv'
  BY <1>0, <1>1, <1>3 DEF IdsInv, NoAnswer
<1>15. TurnInv'
  BY <1>0 DEF TurnInv, AtMostOnce, OrderKept
<1> QED
  BY <1>6, <1>7, <1>12, <1>13, <1>14, <1>15 DEF IInv

LEMMA ReopensKeep ==
  ASSUME IInv, CoreInv', Reopens
  PROVE  IInv'
<1>0. /\ CoreInv /\ KnownInv /\ BaseInv /\ SpentInv /\ AccountInv /\ IdsInv /\ TurnInv
      /\ UNCHANGED <<performed, landed, version, tree, strays>>
      /\ ~Awaiting(Mine'.pc) /\ Mine'.answer = NoAnswer /\ Pending(queue') = {} /\ Later(queue') = {}
      /\ pageVersion \in Nat /\ version \in Nat /\ pageVersion' = version /\ model' = tree
  BY DEF IInv, Reopens, CoreInv, DataOK
<1>1. /\ Performed' = Performed
      /\ \A a : Landed(a)' <=> Landed(a)
      /\ \A b : Minted(b)' <=> Minted(b)
      /\ \A b : Deleted(b)' <=> Deleted(b)
  BY <1>0, SameHistory
<1>2. InAir' \subseteq InAir
  BY <1>0 DEF InAir, Awaiting
<1>3. KnownInv'
  BY <1>0, <1>1, <1>2 DEF KnownInv, Known
<1>4. BaseInv'
  <2>1. \A c \in InAir : c.base \in Nat
    BY <1>0, InAirTyped
  <2> QED
    BY <1>0, <1>2, <2>1 DEF BaseInv
<1>5. SpentInv'
  BY <1>0, <1>1, <1>2 DEF SpentInv
<1>6. AccountInv'
  BY <1>0, <1>1 DEF AccountInv, Reopens, NoAnswer, Awaiting
<1>7. IdsInv'
  BY <1>0, <1>1 DEF IdsInv, NoAnswer
<1>8. TurnInv'
  BY <1>0 DEF TurnInv, AtMostOnce, OrderKept
<1> QED
  BY <1>3, <1>4, <1>5, <1>6, <1>7, <1>8 DEF IInv

LEMMA LandsKeep ==
  ASSUME IInv, CoreInv', Lands, pageVersion' <= version
  PROVE  IInv'
<1>0. /\ CoreInv /\ KnownInv /\ BaseInv /\ SpentInv /\ AccountInv /\ IdsInv /\ TurnInv
      /\ UNCHANGED <<performed, landed, version, tree, strays, status>>
      /\ Mine'.pc = "running" /\ ~Awaiting(Mine'.pc) /\ Mine'.answer = NoAnswer
      /\ Awaiting(Mine.pc) /\ Mine.answer.kind \in {"ok", "tree"}
      /\ model' = Mine.answer.tree /\ pageVersion' = Mine.answer.version
      /\ Later(queue') \subseteq Later(queue) /\ Pending(queue') \subseteq Later(queue)
      /\ pageVersion \in Nat /\ version \in Nat /\ pageVersion' \in Nat
  BY DEF IInv, Lands, CoreInv, DataOK, Awaiting
<1>1. /\ Performed' = Performed
      /\ \A a : Landed(a)' <=> Landed(a)
      /\ \A b : Minted(b)' <=> Minted(b)
      /\ \A b : Deleted(b)' <=> Deleted(b)
  BY <1>0, SameHistory
<1>2. InAir' \subseteq InAir
  BY <1>0 DEF InAir
<1>3. Later(queue) \subseteq Pending(queue) /\ Later(queue) \subseteq Acts
  BY DEF Pending, Later
<1>4. KnownInv'
  BY <1>0, <1>1, <1>2, <1>3 DEF KnownInv, Known
<1>5. BaseInv'
  <2>1. \A c \in InAir : c.base \in Nat
    BY <1>0, InAirTyped
  <2>2. pageVersion <= pageVersion'
    BY <1>0 DEF BaseInv, Versioned
  <2> QED
    BY <1>0, <1>2, <2>1, <2>2 DEF BaseInv
<1>6. \A a \in Later(queue) : ~Landed(a)
  BY <1>0 DEF SpentInv, Landed
<1>7. SpentInv'
  BY <1>0, <1>1, <1>2, <1>3, <1>6 DEF SpentInv
<1>8. ASSUME status = "editing", NEW a \in Mine.entry[1].acts PROVE Landed(a) \/ a \in dropped'
  <2>1. /\ KindOf[a] = Mine.entry[1].kind /\ BlockOf[a] = Mine.entry[1].block /\ a \in Performed
        /\ Mine.entry[1].kind \in {"update", "insert", "delete"}
    BY <1>0, <1>8 DEF KnownInv, Known, WellShaped, Entries
  <2>2. CASE Mine.pc = "landing" \/ (Mine.pc = "sending" /\ Mine.answer.kind = "ok")
    BY <1>0, <1>8, <2>2 DEF AccountInv
  <2>3. CASE /\ Mine.pc = "reading" /\ Mine.answer.kind = "tree"
             /\ AlreadyApplied(Mine.entry[1], Mine.answer.tree)
             /\ {c \in Mine.entry[1].acts : GoneAnyway(c)} \subseteq dropped'
    <3>1. CASE Mine.entry[1].kind = "update"
      BY <1>0, <1>8, <2>3, <3>1 DEF AlreadyApplied, AccountInv
    <3>2. CASE Mine.entry[1].kind = "insert"
      BY <1>0, <2>1, <2>3, <3>2 DEF AlreadyApplied, IdsInv
    <3>3. CASE Mine.entry[1].kind = "delete"
      BY <1>0, <1>8, <2>1, <2>3, <3>3 DEF AlreadyApplied, AccountInv, GoneAnyway
    <3> QED
      BY <2>1, <3>1, <3>2, <3>3
  <2> QED
    BY <2>2, <2>3 DEF Lands
<1>9. AccountInv'
  <2>1. status = "editing" =>
          \A a \in Performed : Landed(a) \/ a \in dropped' \/ a \in Pending(queue')
    BY <1>0, <1>8 DEF AccountInv, Lands
  <2> QED
    BY <1>0, <1>1, <2>1 DEF AccountInv, NoAnswer
<1>10. IdsInv'
  BY <1>0, <1>1 DEF IdsInv, NoAnswer
<1>11. TurnInv'
  BY <1>0 DEF TurnInv, AtMostOnce, OrderKept
<1> QED
  BY <1>4, <1>5, <1>7, <1>9, <1>10, <1>11 DEF IInv

LEMMA LearnsKeep ==
  ASSUME IInv, CoreInv', Learns
  PROVE  IInv'
<1>0. /\ CoreInv /\ KnownInv /\ BaseInv /\ SpentInv /\ AccountInv /\ IdsInv /\ TurnInv
      /\ UNCHANGED <<performed, landed, version, tree, status, queue, model, pageVersion, dropped>>
      /\ Mine'.pc = Mine.pc /\ Mine'.entry = Mine.entry /\ Mine'.base = Mine.base
      /\ pageVersion \in Nat /\ version \in Nat /\ Mine.base \in Nat
  BY MineTyped DEF IInv, Learns, Unmoved, CoreInv, DataOK
<1>1. /\ Performed' = Performed
      /\ \A a : Landed(a)' <=> Landed(a)
      /\ \A b : Minted(b)' <=> Minted(b)
      /\ \A b : Deleted(b)' <=> Deleted(b)
  BY <1>0, SameHistory
<1>2. InAir' \subseteq InAir
  BY <1>0 DEF InAir, Request, Learns, Unmoved
<1>3. \/ Mine'.answer = Mine.answer
      \/ Mine'.answer.kind \in {"session", "locked", "refused"}
      \/ Mine'.answer.kind = "stale" /\ Mine.base # version
      \/ /\ Mine.answer.kind = "committed" /\ Mine.pc = "sending"
         /\ Mine'.answer.kind \in {"ok", "unread"} /\ Mine'.answer.version = Mine.answer.version
         /\ Mine'.answer.kind = "ok" => Mine'.answer.tree = tree
      \/ /\ Mine.pc \in {"reading", "landing"}
         /\ Mine'.answer.kind = "page" /\ Mine'.answer.version = version
      \/ /\ Mine.answer.kind = "page" /\ Mine'.answer.kind = "tree"
         /\ Mine'.answer.tree = tree /\ Mine'.answer.version = Mine.answer.version
  BY DEF Learns
<1>4. KnownInv'
  BY <1>0, <1>1, <1>2 DEF KnownInv, Known
<1>5. BaseInv'
  <2>1. \A c \in InAir' : c.base <= pageVersion
    BY <1>0, <1>2 DEF BaseInv
  <2>2. ASSUME Awaiting(Mine.pc)
        PROVE  /\ Mine'.answer.kind \in Versioned => Mine'.answer.version >= Mine.base
               /\ Mine'.answer.kind = "stale" => Mine.base < version
    <3>1. Mine.base = pageVersion /\ Mine.base <= version
      BY <1>0, <2>2 DEF BaseInv
    <3> QED
      BY <1>0, <1>3, <2>2, <3>1 DEF BaseInv, Versioned
  <2> QED
    BY <1>0, <2>1, <2>2 DEF BaseInv
<1>6. SpentInv'
  BY <1>0, <1>1, <1>2 DEF SpentInv
<1>7. AccountInv'
  BY <1>0, <1>1, <1>3 DEF AccountInv
<1>8. IdsInv'
  <2>1. Mine'.answer.kind \in {"ok", "tree"} => Mine'.answer = Mine.answer \/ Mine'.answer.tree = tree
    BY <1>3
  <2> QED
    BY <1>0, <1>1, <2>1 DEF IdsInv
<1>9. TurnInv'
  BY <1>0 DEF TurnInv, AtMostOnce, OrderKept
<1> QED
  BY <1>4, <1>5, <1>6, <1>7, <1>8, <1>9 DEF IInv

LEMMA ForeignKeeps ==
  ASSUME IInv, CoreInv', Foreign
  PROVE  IInv'
<1>0. /\ CoreInv /\ KnownInv /\ BaseInv /\ SpentInv /\ AccountInv /\ IdsInv /\ TurnInv
      /\ UNCHANGED <<performed, landed, status, queue, model, pageVersion, dropped>>
      /\ Mine'.pc = Mine.pc /\ Mine'.entry = Mine.entry /\ Mine'.base = Mine.base
      /\ Mine'.answer = Mine.answer /\ version' = version + 1
      /\ tree'.blocks \subseteq tree.blocks /\ tree'.values \subseteq tree.values
      /\ pageVersion \in Nat /\ version \in Nat /\ Mine.base \in Nat
  BY MineTyped DEF IInv, Foreign, Unmoved, CoreInv, DataOK
<1>1. /\ Performed' = Performed
      /\ \A a : Landed(a)' <=> Landed(a)
      /\ \A b : Minted(b)' <=> Minted(b)
      /\ \A b : Deleted(b)' <=> Deleted(b)
  BY <1>0, SameHistory
<1>2. InAir' \subseteq InAir
  BY <1>0 DEF InAir, Request, Foreign, Unmoved
<1>3. KnownInv'
  BY <1>0, <1>1, <1>2 DEF KnownInv, Known
<1>4. BaseInv'
  BY <1>0, <1>2 DEF BaseInv
<1>5. SpentInv'
  <2>1. \A c \in InAir : c.base \in Nat
    BY <1>0, InAirTyped
  <2>2. \A c \in InAir : c.base < version => c.base < version + 1
    BY <1>0, <2>1
  <2>3. pageVersion < version => pageVersion < version + 1
    BY <1>0
  <2> QED
    BY <1>0, <1>1, <1>2, <2>2, <2>3 DEF SpentInv
<1>6. AccountInv'
  BY <1>0, <1>1 DEF AccountInv
<1>7. IdsInv'
  BY <1>0, <1>1 DEF IdsInv
<1>8. TurnInv'
  BY <1>0 DEF TurnInv, AtMostOnce, OrderKept
<1> QED
  BY <1>3, <1>4, <1>5, <1>6, <1>7, <1>8 DEF IInv

\* An act inserted, and what came for its block afterwards.
LEMMA InsertedOnce ==
  ASSUME performed \in Seq(Acts), KnownInv, IdsInv,
         NEW x \in Performed, KindOf[x] = "insert", ~Landed(x)
  PROVE  /\ ~Minted(BlockOf[x]) /\ ~Deleted(BlockOf[x])
         /\ \A a \in Performed : KindOf[a] = "insert" /\ BlockOf[a] = BlockOf[x] /\ a # x => Landed(a)
<1>1. PICK i \in DOMAIN performed : performed[i] = x
  BY DEF Performed
<1>2. DOMAIN performed = 1..Len(performed) /\ Len(performed) \in Nat
  BY LenProperties
<1>3. \A m, n \in DOMAIN performed : m < n \/ n < m \/ m = n
  BY <1>2
<1>4. ~Minted(BlockOf[x])
  BY DEF Minted
<1>5. ASSUME Deleted(BlockOf[x]) PROVE FALSE
  <2>1. PICK m \in DOMAIN performed :
          /\ KindOf[performed[m]] = "delete" /\ BlockOf[performed[m]] = BlockOf[x]
          /\ \A n \in DOMAIN performed :
               n > m /\ BlockOf[performed[n]] = BlockOf[x] => KindOf[performed[n]] # "insert"
    BY <1>5 DEF Deleted
  <2>2. ~(i > m) /\ i # m
    BY <1>1, <2>1
  <2>3. i < m
    BY <1>2, <2>2
  <2> QED
    BY <1>1, <2>1, <2>3 DEF IdsInv
<1>6. ASSUME NEW a \in Performed, KindOf[a] = "insert", BlockOf[a] = BlockOf[x], a # x PROVE Landed(a)
  <2>1. PICK j \in DOMAIN performed : performed[j] = a
    BY DEF Performed
  <2>2. CASE j < i
    BY <1>1, <1>6, <2>1, <2>2 DEF IdsInv
  <2>3. CASE i < j
    BY <1>1, <1>6, <2>1, <2>3 DEF IdsInv
  <2> QED
    BY <1>1, <1>3, <1>6, <2>1, <2>2, <2>3
<1> QED
  BY <1>4, <1>5, <1>6

LEMMA WritesKeep ==
  ASSUME IInv, CoreInv', NEW c, Writes(c)
  PROVE  IInv'
<1>0. /\ CoreInv /\ KnownInv /\ BaseInv /\ SpentInv /\ AccountInv /\ IdsInv /\ TurnInv
      /\ UNCHANGED <<performed, status, queue, model, pageVersion, dropped>>
      /\ Mine'.pc = Mine.pc /\ Mine'.entry = Mine.entry /\ Mine'.base = Mine.base
      /\ c \in InAir /\ c.base = version /\ version' = version + 1 /\ tree' = Apply(c.entry, tree)
      /\ landed' = Append(landed, c.entry.acts)
      /\ pageVersion \in Nat /\ version \in Nat /\ Mine.base \in Nat /\ tree \in Tree
      /\ performed \in Seq(Acts) /\ landed \in Seq(SUBSET Acts)
  BY MineTyped DEF IInv, Writes, Unmoved, CoreInv, DataOK
<1>1. PICK X : X = c.entry.acts
  OBVIOUS
<1>2. /\ X # {} /\ X \subseteq Acts /\ X \subseteq Performed /\ c.entry \in Entries
      /\ \A x \in X : KindOf[x] = c.entry.kind /\ BlockOf[x] = c.entry.block
  BY <1>0, <1>1 DEF KnownInv, Known, WellShaped, Entries
<1>3. /\ DOMAIN landed = 1..Len(landed) /\ DOMAIN landed' = 1..(Len(landed) + 1) /\ Len(landed) \in Nat
      /\ \A n \in DOMAIN landed : landed'[n] = landed[n] /\ n \in DOMAIN landed'
      /\ landed'[Len(landed) + 1] = X
      /\ \A n \in DOMAIN landed' : n \in DOMAIN landed \/ n = Len(landed) + 1
  <2>1. X \in SUBSET Acts /\ landed' = Append(landed, X)
    BY <1>0, <1>1, <1>2
  <2>2. /\ Len(landed) \in Nat /\ DOMAIN landed = 1..Len(landed)
        /\ Len(landed') = Len(landed) + 1 /\ DOMAIN landed' = 1..Len(landed')
        /\ \A n \in 1..Len(landed) : landed'[n] = landed[n]
        /\ landed'[Len(landed) + 1] = X
    BY <1>0, <2>1, AppendProperties, LenProperties
  <2> QED
    BY <2>2
<1>4. /\ Performed' = Performed
      /\ \A b : Minted(b)' <=> Minted(b)
      /\ \A b : Deleted(b)' <=> Deleted(b)
  BY <1>0 DEF Performed, Minted, Deleted
<1>5. \A a : Landed(a)' <=> Landed(a) \/ a \in X
  BY <1>3 DEF Landed
<1>6. \A a \in X, x \in Acts : a = x \/ Before(performed, a, x) => ~Landed(x)
  BY <1>0, <1>1 DEF SpentInv
<1>7. InAir' \subseteq InAir
  BY <1>0 DEF InAir, Request, Writes, Unmoved
<1>8. \A e \in InAir : e.base \in Nat /\ e.base <= pageVersion /\ e.base < version + 1
  <2>1. \A e \in InAir : e.base \in Nat
    BY <1>0, InAirTyped
  <2> QED
    BY <1>0, <2>1 DEF BaseInv
<1>9. \/ Mine'.answer = Mine.answer
      \/ /\ Mine.pc = "sending" /\ Mine.entry[1].acts = X
         /\ Mine'.answer.kind = "committed" /\ Mine'.answer.version = version + 1
  BY <1>1 DEF Writes, Request
<1>10. KnownInv'
  BY <1>0, <1>2, <1>4, <1>5, <1>7 DEF KnownInv, Known
<1>11. BaseInv'
  <2>1. pageVersion <= version + 1 /\ (Awaiting(Mine.pc) => Mine.base < version + 1)
    BY <1>0 DEF BaseInv
  <2>2. Awaiting(Mine.pc) /\ Mine'.answer.kind \in Versioned => Mine'.answer.version >= Mine.base
    BY <1>0, <1>9, <2>1 DEF BaseInv, Awaiting
  <2> QED
    BY <1>0, <1>7, <1>8, <2>1, <2>2 DEF BaseInv
<1>12. SpentInv'
  <2>1. pageVersion < version + 1
    BY <1>0 DEF BaseInv
  <2>2. \A Y \in {landed'[n] : n \in DOMAIN landed'} \cup {e.entry.acts : e \in InAir'} :
          Y \in {landed[n] : n \in DOMAIN landed} \cup {e.entry.acts : e \in InAir}
    <3>1. \A n \in DOMAIN landed' : landed'[n] \in {landed[m] : m \in DOMAIN landed} \cup {X}
      BY <1>3
    <3>2. X \in {e.entry.acts : e \in InAir}
      BY <1>0, <1>1
    <3> QED
      BY <1>7, <3>1, <3>2
  <2>3. ASSUME NEW Y \in {landed'[n] : n \in DOMAIN landed'} \cup {e.entry.acts : e \in InAir'}
        PROVE  /\ Y \cap Later(queue') = {}
               /\ \A x \in Y, a \in Pending(queue') : Before(performed', a, x) => a \in Y
    <3>1. Y \in {landed[n] : n \in DOMAIN landed} \cup {e.entry.acts : e \in InAir}
      BY <2>2, <2>3
    <3> QED
      BY <1>0, <3>1 DEF SpentInv
  <2>4. /\ \A e \in InAir' : e.base < version'
        /\ pageVersion' < version'
    BY <1>0, <1>7, <1>8, <2>1
  <2> QED
    BY <2>3, <2>4 DEF SpentInv
<1>13. AccountInv'
  <2>1. tree'.values \subseteq tree.values \cup X
    BY <1>0, <1>1, <1>2 DEF Apply, Entries, Tree
  <2>2. Mine.pc # "reading"
    <3> SUFFICES ASSUME Mine.pc = "reading" PROVE FALSE
      OBVIOUS
    <3>1. Mine.base = pageVersion /\ Mine.base < version
      BY <1>0 DEF BaseInv, Awaiting
    <3>2. c.base <= pageVersion
      BY <1>0, <1>8
    <3> QED
      BY <1>0, <3>1, <3>2
  <2> QED
    BY <1>0, <1>4, <1>5, <1>9, <2>1, <2>2 DEF AccountInv
<1>14. IdsInv'
  <2>1. ASSUME NEW b \in tree'.blocks, b \notin tree.blocks
        PROVE  /\ b \notin model.blocks /\ ~Minted(b) /\ ~Deleted(b)
               /\ \A a \in Performed : KindOf[a] = "insert" /\ BlockOf[a] = b => Landed(a) \/ a \in X
    <3>1. c.entry.kind = "insert" /\ b = c.entry.block
      BY <1>0, <1>2, <2>1 DEF Apply, Entries, Tree
    <3>2. PICK x \in X : KindOf[x] = "insert" /\ BlockOf[x] = b /\ x \in Performed /\ ~Landed(x)
      BY <1>2, <1>6, <3>1
    <3>3. b \notin model.blocks
      BY <1>0, <3>2 DEF IdsInv
    <3> QED
      BY <1>0, <3>2, <3>3, InsertedOnce
  <2>2. Mine'.answer.kind \in {"ok", "tree"} => Mine'.answer = Mine.answer
    BY <1>9
  <2>3. \A a \in Performed : KindOf[a] = "insert" /\ ~Landed(a) /\ a \notin X =>
          /\ BlockOf[a] \notin tree'.blocks \cup model.blocks
          /\ Mine'.answer.kind \in {"ok", "tree"} => BlockOf[a] \notin Mine'.answer.tree.blocks
    BY <1>0, <2>1, <2>2 DEF IdsInv
  <2>4. \A b \in tree'.blocks : b \in model.blocks \/ ~(Minted(b) \/ Deleted(b))
    BY <1>0, <2>1 DEF IdsInv
  <2>5. Mine'.answer.kind \in {"ok", "tree"} =>
          /\ \A b \in Mine'.answer.tree.blocks : b \in model.blocks \/ ~(Minted(b) \/ Deleted(b))
          /\ \A b \in tree'.blocks \ Mine'.answer.tree.blocks :
               b \notin model.blocks /\ ~(Minted(b) \/ Deleted(b))
    BY <1>0, <2>1, <2>2 DEF IdsInv
  <2>6. \A m, n \in DOMAIN performed :
          /\ m < n /\ BlockOf[performed[m]] = BlockOf[performed[n]]
          /\ KindOf[performed[m]] = "insert" /\ KindOf[performed[n]] \in {"insert", "delete"}
          => Landed(performed[m]) \/ performed[m] \in X
    BY <1>0 DEF IdsInv
  <2> QED
    BY <1>0, <1>4, <1>5, <2>3, <2>4, <2>5, <2>6 DEF IdsInv
<1>15. TurnInv'
  <2>1. \A n \in DOMAIN landed : landed[n] \cap X = {} /\ landed[n] \subseteq Acts
    <3>1. \A n \in DOMAIN landed : landed[n] \subseteq Acts
      BY <1>0, ElementOfSeq, LenProperties
    <3> QED
      BY <1>2, <1>6, <3>1 DEF Landed
  <2>2. AtMostOnce'
    BY <1>0, <1>3, <2>1 DEF TurnInv, AtMostOnce
  <2>3. OrderKept'
    <3> SUFFICES ASSUME NEW m \in DOMAIN performed, NEW n \in DOMAIN performed,
                        NEW i \in DOMAIN landed', NEW j \in DOMAIN landed',
                        m < n, BlockOf[performed[m]] = BlockOf[performed[n]],
                        performed[m] \in landed'[i], performed[n] \in landed'[j]
                 PROVE  i <= j
      BY <1>0 DEF OrderKept
    <3>1. CASE i \in DOMAIN landed /\ j \in DOMAIN landed
      BY <1>0, <1>3, <3>1 DEF TurnInv, OrderKept
    <3>2. CASE j = Len(landed) + 1
      BY <1>3, <3>2
    <3>3. CASE i = Len(landed) + 1 /\ j \in DOMAIN landed
      <4>1. performed[m] \in X /\ performed[n] \in landed[j] /\ performed[n] \in Acts
        BY <1>3, <2>1, <3>3
      <4>2. Before(performed, performed[m], performed[n]) /\ Landed(performed[n])
        BY <3>3, <4>1 DEF Before, Landed
      <4> QED
        BY <1>6, <4>1, <4>2
    <3> QED
      BY <1>3, <3>1, <3>2, <3>3
  <2> QED
    BY <2>2, <2>3 DEF TurnInv
<1> QED
  BY <1>10, <1>11, <1>12, <1>13, <1>14, <1>15 DEF IInv

LEMMA PerformsKeep ==
  ASSUME IInv, CoreInv', NEW a \in Acts, Performs(a)
  PROVE  IInv'
<1>0. /\ CoreInv /\ KnownInv /\ BaseInv /\ SpentInv /\ AccountInv /\ IdsInv /\ TurnInv
      /\ UNCHANGED <<status, strays, landed, dropped, model, pageVersion, version, tree>>
      /\ Performable(a) /\ performed' = Append(performed, a)
      /\ Pending(queue') = Pending(queue) \cup {a} /\ Later(queue') \subseteq Later(queue) \cup {a}
      /\ Mine'.entry = Mine.entry /\ Mine'.base = Mine.base /\ Mine'.answer = Mine.answer
      /\ Mine'.pc = Mine.pc \/ (Mine.pc = "idle" /\ Mine'.pc = "running")
      /\ performed \in Seq(Acts) /\ Sound(performed, queue)
  BY DEF IInv, Performs, CoreInv, DataOK
<1>1. /\ Awaiting(Mine'.pc) <=> Awaiting(Mine.pc)
      /\ Awaiting(Mine'.pc) => Mine'.pc = Mine.pc
      /\ \A pc \in {"sending", "reading", "landing"} : Mine'.pc = pc <=> Mine.pc = pc
  BY <1>0 DEF Awaiting
<1>2. InAir' = InAir
  BY <1>0, <1>1 DEF InAir, Request
<1>3. /\ DOMAIN performed = 1..Len(performed) /\ DOMAIN performed' = 1..(Len(performed) + 1)
      /\ Len(performed) \in Nat /\ performed'[Len(performed) + 1] = a
      /\ \A n \in DOMAIN performed : performed'[n] = performed[n] /\ n \in DOMAIN performed'
      /\ \A n \in DOMAIN performed' : n \in DOMAIN performed \/ n = Len(performed) + 1
      /\ \A n \in DOMAIN performed : n < Len(performed) + 1
  <2>1. /\ Len(performed) \in Nat /\ DOMAIN performed = 1..Len(performed)
        /\ Len(performed') = Len(performed) + 1 /\ DOMAIN performed' = 1..Len(performed')
        /\ \A n \in 1..Len(performed) : performed'[n] = performed[n]
        /\ performed'[Len(performed) + 1] = a
    BY <1>0, AppendProperties, LenProperties
  <2> QED
    BY <2>1
<1>4. /\ Performed' = Performed \cup {a} /\ a \notin Performed /\ Performed \subseteq Acts
      /\ \A x : Landed(x)' <=> Landed(x)
  <2>1. Performed' = Performed \cup {a}
    BY <1>3 DEF Performed
  <2>2. Performed \subseteq Acts
    BY <1>0, <1>3, ElementOfSeq DEF Performed
  <2> QED
    BY <1>0, <2>1, <2>2 DEF Performable, Landed
<1>5. /\ ~Landed(a) /\ Pending(queue) \subseteq Performed
      /\ \A x \in Acts : Landed(x) => x \in Performed
      /\ \A c \in InAir : c.entry.acts \subseteq Performed
  <2>1. Pending(queue) \subseteq Acts
    BY <1>0, PendingActs DEF Sound
  <2> QED
    BY <1>0, <1>4, <2>1 DEF KnownInv, Known
<1>6. ASSUME NEW x \in Acts, NEW c \in Performed, Before(performed', x, c) PROVE Before(performed, x, c)
  <2>1. c \in Acts /\ c # a
    BY <1>4, <1>6
  <2> QED
    BY <1>0, <1>6, <2>1, BeforeGrows
<1>7. ASSUME NEW c \in Acts PROVE ~Before(performed', a, c)
  <2>1. \A n \in DOMAIN performed : performed[n] # a
    BY <1>4 DEF Performed
  <2> QED
    BY <1>0, <1>7, <2>1, BeforeGrows
<1>8. KnownInv'
  <2>1. \A m, n \in DOMAIN performed' : performed'[m] = performed'[n] => m = n
    <3>1. \A n \in DOMAIN performed : performed[n] # a
      BY <1>4 DEF Performed
    <3> QED
      BY <1>0, <1>3, <3>1 DEF KnownInv
  <2>2. \A x \in Acts : Landed(x)' \/ x \in Pending(queue') => x \in Performed'
    BY <1>0, <1>4, <1>5
  <2> QED
    BY <1>0, <1>1, <1>2, <1>4, <2>1, <2>2 DEF KnownInv, Known
<1>9. BaseInv'
  BY <1>0, <1>1, <1>2 DEF BaseInv
<1>10. SpentInv'
  <2>1. \A c \in InAir' : \A x \in c.entry.acts, y \in Acts :
          Landed(y)' /\ (x = y \/ Before(performed', x, y)) => c.base < version'
    <3> SUFFICES ASSUME NEW c \in InAir, NEW x \in c.entry.acts, NEW y \in Acts, Landed(y),
                        x = y \/ Before(performed', x, y)
                 PROVE  c.base < version
      BY <1>0, <1>2, <1>4
    <3>1. x \in Acts /\ y \in Performed
      BY <1>4, <1>5
    <3>2. x = y \/ Before(performed, x, y)
      BY <1>6, <3>1
    <3> QED
      BY <1>0, <3>2 DEF SpentInv
  <2>2. \A x \in Pending(queue') : Landed(x)' => pageVersion' < version'
    BY <1>0, <1>4, <1>5 DEF SpentInv
  <2>3. ASSUME NEW X \in {landed[n] : n \in DOMAIN landed} \cup {c.entry.acts : c \in InAir}
        PROVE  /\ X \cap Later(queue') = {}
               /\ \A x \in X, b \in Pending(queue') : Before(performed', b, x) => b \in X
    <3>1. X \subseteq Performed
      <4>1. \A n \in DOMAIN landed : landed[n] \subseteq Acts
        BY <1>0, ElementOfSeq, LenProperties DEF CoreInv, DataOK
      <4> QED
        BY <1>5, <2>3, <4>1 DEF Landed
    <3>2. X \cap Later(queue') = {}
      <4>1. X \cap Later(queue) = {}
        BY <1>0, <2>3 DEF SpentInv
      <4>2. a \notin X
        BY <1>4, <3>1
      <4> QED
        BY <1>0, <4>1, <4>2
    <3>3. ASSUME NEW x \in X, NEW b \in Pending(queue'), Before(performed', b, x) PROVE b \in X
      <4>1. b # a /\ b \in Pending(queue) /\ x \in Performed
        BY <1>0, <1>4, <1>7, <3>1, <3>3
      <4>2. Before(performed, b, x)
        BY <1>4, <1>5, <1>6, <3>3, <4>1
      <4> QED
        BY <1>0, <2>3, <4>1, <4>2 DEF SpentInv
    <3> QED
      BY <3>2, <3>3
  <2>4. {landed'[n] : n \in DOMAIN landed'} \cup {c.entry.acts : c \in InAir'}
          = {landed[n] : n \in DOMAIN landed} \cup {c.entry.acts : c \in InAir}
    BY <1>0, <1>2
  <2> QED
    BY <2>1, <2>2, <2>3, <2>4 DEF SpentInv
<1>11. AccountInv'
  BY <1>0, <1>1, <1>4 DEF AccountInv
<1>12. \A b : (Minted(b) \/ Deleted(b))' => Minted(b) \/ Deleted(b) \/ b \in model.blocks
  <2> SUFFICES ASSUME NEW b, b \notin model.blocks, (Minted(b) \/ Deleted(b))' PROVE Minted(b) \/ Deleted(b)
    OBVIOUS
  <2>1. CASE Minted(b)'
    BY <1>4, <2>1 DEF Minted
  <2>2. CASE Deleted(b)'
    <3>1. PICK m \in DOMAIN performed' :
            /\ KindOf[performed'[m]] = "delete" /\ BlockOf[performed'[m]] = b
            /\ \A n \in DOMAIN performed' :
                 n > m /\ BlockOf[performed'[n]] = b => KindOf[performed'[n]] # "insert"
      BY <2>2 DEF Deleted
    <3>2. KindOf[a] = "delete" => BlockOf[a] \in model.blocks
      BY <1>0 DEF Performable
    <3>3. m \in DOMAIN performed
      BY <1>3, <3>1, <3>2
    <3> QED
      BY <1>3, <3>1, <3>3 DEF Deleted
  <2> QED
    BY <2>1, <2>2
<1>13. KindOf[a] = "insert" => BlockOf[a] \notin model.blocks /\ (Minted(BlockOf[a]) \/ Deleted(BlockOf[a]))
  BY <1>0 DEF Performable
<1>14. IdsInv'
  <2>1. ASSUME NEW x \in Performed', KindOf[x] = "insert", ~Landed(x)
        PROVE  /\ BlockOf[x] \notin tree.blocks \cup model.blocks
               /\ Mine.answer.kind \in {"ok", "tree"} => BlockOf[x] \notin Mine.answer.tree.blocks
    BY <1>0, <1>4, <1>13, <2>1 DEF IdsInv
  <2>2. /\ \A b \in tree.blocks : b \in model.blocks \/ ~(Minted(b) \/ Deleted(b))'
        /\ Mine.answer.kind \in {"ok", "tree"} =>
             /\ \A b \in Mine.answer.tree.blocks : b \in model.blocks \/ ~(Minted(b) \/ Deleted(b))'
             /\ \A b \in tree.blocks \ Mine.answer.tree.blocks :
                  b \notin model.blocks /\ ~(Minted(b) \/ Deleted(b))'
    BY <1>0, <1>12 DEF IdsInv
  <2>3. ASSUME NEW m \in DOMAIN performed, BlockOf[performed[m]] = BlockOf[a],
               KindOf[performed[m]] = "insert", KindOf[a] \in {"insert", "delete"}
        PROVE  Landed(performed[m])
    <3>1. performed[m] \in Performed
      BY DEF Performed
    <3>2. CASE KindOf[a] = "delete"
      <4>1. BlockOf[a] \in model.blocks
        BY <1>0, <3>2 DEF Performable
      <4> QED
        BY <1>0, <2>3, <3>1, <4>1 DEF IdsInv
    <3>3. CASE KindOf[a] = "insert"
      BY <1>0, <1>13, <2>3, <3>1, <3>3, InsertedOnce
    <3> QED
      BY <2>3, <3>2, <3>3
  <2>4. ASSUME NEW m \in DOMAIN performed', NEW n \in DOMAIN performed', m < n,
               BlockOf[performed'[m]] = BlockOf[performed'[n]], KindOf[performed'[m]] = "insert",
               KindOf[performed'[n]] \in {"insert", "delete"}
        PROVE  Landed(performed'[m])
    <3>1. m \in DOMAIN performed
      BY <1>3, <2>4
    <3>2. CASE n \in DOMAIN performed
      BY <1>0, <1>3, <2>4, <3>1, <3>2 DEF IdsInv
    <3>3. CASE n = Len(performed) + 1
      BY <1>3, <2>3, <2>4, <3>1, <3>3
    <3> QED
      BY <1>3, <3>2, <3>3
  <2> QED
    BY <1>0, <1>4, <2>1, <2>2, <2>4 DEF IdsInv
<1>15. TurnInv'
  <2>1. AtMostOnce'
    BY <1>0 DEF TurnInv, AtMostOnce
  <2>2. OrderKept'
    <3> SUFFICES ASSUME NEW m \in DOMAIN performed', NEW n \in DOMAIN performed',
                        NEW i \in DOMAIN landed, NEW j \in DOMAIN landed,
                        m < n, BlockOf[performed'[m]] = BlockOf[performed'[n]],
                        performed'[m] \in landed[i], performed'[n] \in landed[j]
                 PROVE  i <= j
      BY <1>0 DEF OrderKept
    <3>1. m \in DOMAIN performed /\ n \in DOMAIN performed
      BY <1>3, <1>5 DEF Landed
    <3> QED
      BY <1>0, <1>3, <3>1 DEF TurnInv, OrderKept
  <2> QED
    BY <2>1, <2>2 DEF TurnInv
<1> QED
  BY <1>8, <1>9, <1>10, <1>11, <1>14, <1>15 DEF IInv

-----------------------------------------------------------------------------
(* The invariant, and what follows from it.                                *)

LEMMA InitHolds == Init => IInv
<1> SUFFICES ASSUME Init PROVE IInv
  OBVIOUS
<1>1. /\ status = "editing" /\ queue = CreateQueue /\ notice = "none"
      /\ tree = [blocks |-> InitialBlocks, values |-> {}] /\ model = tree
      /\ version = 1 /\ pageVersion = 1 /\ session = 1
      /\ runner = [k \in Sessions |-> Fresh]
      /\ scope = <<>> /\ strays = {} /\ holder = "mine" /\ signedIn = TRUE
      /\ performed = <<>> /\ landed = <<>> /\ dropped = {}
  BY DEF Init
<1>2. /\ 1 \in Sessions /\ tree \in Tree /\ tree.values = {} /\ tree.blocks = InitialBlocks
  BY <1>1 DEF Sessions, Tree
<1>3. /\ Fresh.pc = "idle" /\ Fresh.flush = "none" /\ Fresh.disposed = FALSE /\ Fresh.answer = NoAnswer
      /\ Fresh.entry = <<>> /\ Fresh.answer.kind = "none" /\ ~Awaiting(Fresh.pc)
  BY DEF Fresh, NoAnswer, Awaiting
<1>4. Fresh \in Runners
  <2>1. PICK es : es = <<>>
    OBVIOUS
  <2>2. es \in Seq(Entries)
    BY <2>1, EmptySeq
  <2>3. Fresh = [pc |-> "idle", disposed |-> FALSE, uncertain |-> FALSE, timer |-> FALSE,
                 flush |-> "none", entry |-> es, base |-> 0, tries |-> 0, answer |-> NoAnswer]
    BY <2>1 DEF Fresh
  <2>4. NoAnswer \in Answers /\ 0 \in 0..MaxTries
    BY DEF Answers
  <2> QED
    BY <2>2, <2>3, <2>4 DEF Runners
<1>5. Mine = Fresh
  BY <1>1, <1>2 DEF Mine
<1>6. RunnersOK
  <2>1. Len(Fresh.entry) <= 1
    BY <1>3
  <2> QED
    BY <1>1, <1>2, <1>3, <1>4, <2>1 DEF RunnersOK
<1>7. DOMAIN performed = {} /\ DOMAIN landed = {} /\ Performed = {} /\ \A a : ~Landed(a)
  BY <1>1 DEF Performed, Landed
<1>8. /\ Sound(performed, queue) /\ Pending(queue) = {} /\ Later(queue) = {}
      /\ queue.entries = <<>> /\ queue.inFlight = <<>> /\ ~HasPending(queue)
  BY <1>1, CreateSound
<1>9. DataOK
  <2>1. performed \in Seq(Acts) /\ landed \in Seq(SUBSET Acts)
    BY <1>1, EmptySeq
  <2> QED
    BY <1>1, <1>2, <2>1 DEF DataOK
<1>10. SoloInv /\ AgreeInv
  <2>1. DOMAIN queue.entries = {}
    BY <1>8
  <2> QED
    BY <1>1, <1>3, <1>5, <1>8, <2>1 DEF SoloInv, AgreeInv
<1>11. CoreInv
  BY <1>6, <1>8, <1>9, <1>10 DEF CoreInv
<1>12. InAir = {}
  BY <1>1, <1>3, <1>5 DEF InAir
<1>13. KnownInv
  BY <1>3, <1>5, <1>7, <1>8, <1>12 DEF KnownInv
<1>14. BaseInv
  BY <1>1, <1>3, <1>5, <1>12 DEF BaseInv
<1>15. SpentInv
  BY <1>7, <1>8, <1>12 DEF SpentInv
<1>16. AccountInv
  BY <1>2, <1>3, <1>5, <1>7 DEF AccountInv
<1>17. IdsInv
  BY <1>1, <1>3, <1>5, <1>7 DEF IdsInv
<1>18. TurnInv
  BY <1>7 DEF TurnInv, AtMostOnce, OrderKept
<1> QED
  BY <1>11, <1>13, <1>14, <1>15, <1>16, <1>17, <1>18 DEF IInv

LEMMA NextKeeps ==
  ASSUME ~Overlap, IInv, SeenInv, [Next]_vars
  PROVE  IInv'
<1>1. CoreInv /\ KnownInv
  BY DEF IInv
<1>2. ASSUME NEW k \in Sessions, ClientStep(k) PROVE IInv'
  <2>1. CoreInv' /\ (Quietly \/ Takes \/ Lands)
    BY <1>1, <1>2, ClientCore
  <2>2. CASE Lands
    <3>1. SeenInv'
      BY NextKeepsSeen
    <3>2. pageVersion' <= version
      BY <2>2, <3>1 DEF SeenInv, Lands
    <3> QED
      BY <2>1, <2>2, <3>2, LandsKeep
  <2> QED
    BY <2>1, <2>2, QuietKeeps, TakesKeep
<1>3. ASSUME NEW k \in Sessions, ServerStep(k) PROVE IInv'
  <2>1. CASE ServerEdit(k)
    <3>1. CoreInv' /\ (Learns \/ Writes(Request))
      BY <1>1, <2>1, EditCore
    <3>2. PICK c : c = Request
      OBVIOUS
    <3>3. Learns \/ Writes(c)
      BY <3>1, <3>2
    <3> QED
      BY <3>1, <3>3, LearnsKeep, WritesKeep
  <2>2. CASE ServerReadBack(k) \/ ServerReadPage(k) \/ ServerReadBlocks(k)
    BY <1>1, <2>2, ReadsCore, LearnsKeep
  <2> QED
    BY <1>3, <2>1, <2>2 DEF ServerStep
<1>4. CASE Editor
  <2>1. ASSUME NEW a \in Acts, NEW immediate \in BOOLEAN, Perform(a, immediate) PROVE IInv'
    BY <1>1, <2>1, PerformCore, PerformsKeep
  <2>2. CASE (\E b \in Blocks : ReadyBlock(b)) \/ Flush \/ RetrySave
    BY <1>1, <2>2, MarksCore, QuietKeeps
  <2> QED
    BY <1>4, <2>1, <2>2 DEF Editor
<1>5. CASE IdleFires
  BY <1>1, <1>5, MarksCore, QuietKeeps
<1>6. CASE HeartbeatLost \/ Dispose
  BY <1>1, <1>6, LossesCore, QuietKeeps
<1>7. CASE Reopen
  BY <1>1, <1>7, ReopenCore, ReopensKeep
<1>8. CASE Environment
  <2>1. ASSUME NEW s \in strays, StrayArrives(s) PROVE IInv'
    BY <1>1, <2>1, ArrivalCore, LearnsKeep, WritesKeep
  <2>2. CASE ForeignWrite \/ OtherTakesOver \/ LockMoves \/ SessionEnds
    BY <1>1, <2>2, OthersCore, LearnsKeep, ForeignKeeps
  <2> QED
    BY <1>8, <2>1, <2>2 DEF Environment
<1>9. CASE UNCHANGED vars
  BY <1>1, <1>9, OthersCore, LearnsKeep, ForeignKeeps
<1> QED
  BY <1>2, <1>3, <1>4, <1>5, <1>6, <1>7, <1>8, <1>9 DEF Next, Tab

LEMMA InvariantHolds ==
  ASSUME ~Overlap PROVE Spec => [](IInv /\ SeenInv)
<1>1. Init => IInv /\ SeenInv
  BY InitHolds, InitSeen
<1>2. IInv /\ SeenInv /\ [Next]_vars => (IInv /\ SeenInv)'
  BY NextKeeps, NextKeepsSeen
<1> QED
  BY <1>1, <1>2, PTL DEF Spec

\* The loop of a save runner is in a state it can be in, agrees with the queue on
\* what is in flight, and leaves no edit lying that may be sent.
THEOREM NothingLeftLying ==
  ASSUME ~Overlap PROVE Spec => []RunnerInv
<1>1. IInv => RunnerInv
  <2> SUFFICES ASSUME CoreInv PROVE RunnerInv
    BY DEF IInv
  <2>1. TypeOK
    BY CoreTyped
  <2>2. /\ AgreeInv /\ status \in {"editing", "locked"} /\ queue.entries \in Seq(Entries)
        /\ DOMAIN queue.entries = 1..Len(queue.entries)
    BY TypedParts DEF CoreInv, DataOK, Sound
  <2>3. InFlightIsSent
    BY <2>2 DEF InFlightIsSent, AgreeInv, HasPending, Awaiting
  <2>4. queue.entries # <<>> => 1 \in DOMAIN queue.entries /\ Head(queue.entries) = queue.entries[1]
    <3>1. queue.entries # <<>> => Len(queue.entries) # 0
      BY <2>2, EmptySeq
    <3>2. Len(queue.entries) \in Nat
      BY <2>2, LenProperties
    <3> QED
      BY <2>2, <3>1, <3>2, HeadTailProperties
  <2>5. NothingStranded
    BY <2>2, <2>4 DEF NothingStranded, AgreeInv, Held
  <2> QED
    BY <2>1, <2>3, <2>5 DEF RunnerInv
<1> QED
  BY <1>1, InvariantHolds, PTL

\* Retries, reconciliations and requests that arrive late never have the server
\* carry an act out twice, or before another on its block that came first.
THEOREM SentOnce ==
  ASSUME ~Overlap PROVE Spec => []SentOnceInOrder
<1>1. IInv => SentOnceInOrder
  BY DEF IInv, TurnInv, SentOnceInOrder
<1> QED
  BY <1>1, InvariantHolds, PTL

\* A queue that says "saved", and a flush that answers true, leave nothing that
\* was not carried out, refused, or made pointless by a deletion.
THEOREM SavedIsSaved ==
  ASSUME ~Overlap PROVE Spec => []SavedMeansSaved
<1>1. IInv => SavedMeansSaved
  <2> SUFFICES ASSUME IInv, status = "editing", queue.status = "saved" \/ Mine.flush = "saved"
               PROVE  AllSaved
    BY DEF SavedMeansSaved
  <2>1. ~HasPending(queue)
    BY DEF IInv, CoreInv, AgreeInv, Sound, Consistent
  <2>2. DOMAIN queue.entries = {} /\ DOMAIN queue.inFlight = {}
    BY <2>1 DEF HasPending
  <2>3. Pending(queue) = {}
    BY <2>2 DEF Pending, First, Later
  <2> QED
    BY <2>3 DEF IInv, AccountInv, AllSaved
<1> QED
  BY <1>1, InvariantHolds, PTL
=============================================================================
