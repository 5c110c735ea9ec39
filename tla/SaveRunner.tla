----------------------------- MODULE SaveRunner -----------------------------
(***************************************************************************)
(* How an editor tab turns acts into saved writes: the store's transitions *)
(* (packages/editor/src/client/session/store.ts), the save runner that     *)
(* drains the queue (save-runner.ts), TanStack's retries of a write, and   *)
(* the server that answers, while other people and other tabs change the   *)
(* page, its lock and the account's session.                               *)
(*                                                                         *)
(* The client is one JavaScript thread: what it does between two awaits is *)
(* one action, and a drain loop that has something to do (pc "running")    *)
(* goes on before anything else happens in the tab.  A request without an  *)
(* answer may never have arrived, may have been carried out, or may arrive *)
(* later, when nobody waits for it any more: then it is a stray.           *)
(*                                                                         *)
(* A tab opens the page in sessions 1..MaxSessions, one after the other;   *)
(* each has a save runner of its own, which lives on after its session for *)
(* as long as an await keeps it.  Everything the frame shows, the undo     *)
(* stack and the selection are left out.                                   *)
(***************************************************************************)
EXTENDS SaveQueue

CONSTANTS
  InitialBlocks,   \* what the page holds when it is first opened
  Refused,         \* acts the server's validation or placement rules refuse
  MaxTries,        \* sends of one write: the first and MAX_WRITE_RETRIES more
  MaxSessions,     \* bound: times the tab opens the page
  Overlap,         \* whether an await may outlast the session it belongs to
  MaxOthers        \* bound: other people's writes and takeovers

ASSUME SaveRunnerAssumption ==
  /\ InitialBlocks \subseteq Blocks
  /\ Refused \subseteq Acts
  /\ MaxTries \in Nat \ {0} /\ MaxSessions \in Nat \ {0} /\ MaxOthers \in Nat
  /\ Overlap \in BOOLEAN

VARIABLES
  status,        \* store.status: "editing" or "locked"
  queue,         \* store.queue
  model,         \* store.model
  pageVersion,   \* store.pageVersion
  notice,        \* store.notice
  session,       \* number of the session the store holds
  runner,        \* the save runner of each session
  scope,         \* runners with a mutation under way: the write scope's order
  strays,        \* requests given up on that may still reach the server
  version, tree, \* the page on the server
  holder,        \* whose live lock: "mine", "other" or "free"
  signedIn,      \* the account's session cookie still counts
  performed,     \* acts, in the order they were performed
  landed,        \* the act sets of the entries the server carried out, in order
  dropped        \* acts refused, emptied by a deletion, found done by somebody else,
                 \* or left behind by a session

store == <<status, queue, model, pageVersion, notice, session>>
server == <<version, tree, holder, signedIn>>
history == <<performed, landed, dropped>>
vars == <<store, runner, scope, strays, server, history>>

Sessions == 1..MaxSessions

NoAnswer == [kind |-> "none"]
Entries == [kind : {"update", "insert", "delete"}, block : Blocks,
            acts : SUBSET Acts, ready : BOOLEAN]
Answers == {NoAnswer}
  \cup [kind : {"ok", "tree"}, tree : Tree, version : Nat]
  \cup [kind : {"committed", "unread", "page"}, version : Nat]
  \cup [kind : {"stale", "locked", "session", "refused"}]

\* What a save runner remembers between its steps.
Runners ==
  [pc : {"idle", "running", "sending", "reading", "landing", "asking"},
   disposed : BOOLEAN, uncertain : BOOLEAN, timer : BOOLEAN,
   flush : {"none", "waiting", "saved", "unsaved"}, entry : Seq(Entries), base : Nat,
   tries : 0..MaxTries, answer : Answers]

Fresh ==
  [pc |-> "idle", disposed |-> FALSE, uncertain |-> FALSE, timer |-> FALSE,
   flush |-> "none", entry |-> <<>>, base |-> 0, tries |-> 0,
   answer |-> NoAnswer]

Landed(a) == \E n \in DOMAIN landed : a \in landed[n]
Performed == {performed[n] : n \in DOMAIN performed}

TypeOK ==
  /\ status \in {"editing", "locked"}
  /\ queue \in Queue(Seq(Entries)) /\ Len(queue.inFlight) <= 1
  /\ model \in Tree /\ pageVersion \in Nat
  /\ notice \in {"none", "taken-over", "session-ended", "stale"}
  /\ session \in Sessions
  /\ runner \in [Sessions -> Runners] /\ \A k \in Sessions : Len(runner[k].entry) <= 1
  /\ scope \in Seq(Sessions)
  /\ strays \subseteq [entry : Entries, base : Nat]
  /\ version \in Nat /\ tree \in Tree
  /\ holder \in {"mine", "other", "free"} /\ signedIn \in BOOLEAN
  /\ performed \in Seq(Acts) /\ landed \in Seq(SUBSET Acts)
  /\ dropped \subseteq Acts

Init ==
  /\ status = "editing" /\ queue = CreateQueue /\ notice = "none"
  /\ tree = [blocks |-> InitialBlocks, values |-> {}] /\ model = tree
  /\ version = 1 /\ pageVersion = 1
  /\ session = 1
  /\ runner = [k \in Sessions |-> Fresh]
  /\ scope = <<>> /\ strays = {}
  /\ holder = "mine" /\ signedIn = TRUE
  /\ performed = <<>> /\ landed = <<>> /\ dropped = {}

-----------------------------------------------------------------------------
\* The tab.  Nothing else runs in it while a drain loop has work to do.
Quiet == \A k \in Sessions : runner[k].pc # "running"

Mine == runner[session]
HasRunner == status = "editing" /\ ~Mine.disposed

Kicked(r) == IF r.pc = "idle" /\ ~r.disposed THEN [r EXCEPT !.pc = "running"] ELSE r

\* settle: whoever waits for a flush is told how it ended.
SettledIfSaved(r, q) ==
  IF r.flush = "waiting" /\ ~HasPending(q) THEN [r EXCEPT !.flush = "saved"] ELSE r
Settled(r, q) ==
  IF r.flush # "waiting" THEN r
  ELSE [r EXCEPT !.flush =
          IF ~HasPending(q) /\ q.status \notin {"failed", "paused"}
            THEN "saved" ELSE "unsaved"]

\* The drain loop ends: running = false, and settle.
Stop(k, r, q) ==
  runner' = [runner EXCEPT ![k] =
               Settled([r EXCEPT !.pc = "idle", !.entry = <<>>, !.answer = NoAnswer], q)]

Go(k, r, pc) == runner' = [runner EXCEPT ![k] = [r EXCEPT !.pc = pc, !.answer = NoAnswer]]

\* An inserted block has an id just minted, or the one that it had when it was
\* deleted, which is an undo or a redo.
Minted(b) == b \notin InitialBlocks /\ \A a \in Performed : BlockOf[a] # b
Deleted(b) ==
  \E m \in DOMAIN performed :
    /\ KindOf[performed[m]] = "delete" /\ BlockOf[performed[m]] = b
    /\ \A n \in DOMAIN performed :
         n > m /\ BlockOf[performed[n]] = b => KindOf[performed[n]] # "insert"

Performable(a) ==
  /\ a \notin Performed
  /\ KindOf[a] = "insert" <=> BlockOf[a] \notin model.blocks
  /\ KindOf[a] = "insert" => Minted(BlockOf[a]) \/ Deleted(BlockOf[a])

Perform(a, immediate) ==
  /\ Quiet /\ HasRunner /\ Performable(a)
  /\ queue' = Enqueue(queue, a, immediate)
  /\ performed' = Append(performed, a)
  /\ LET r == [Mine EXCEPT !.flush = IF @ = "waiting" THEN @ ELSE "none"]
     IN runner' = [runner EXCEPT ![session] =
                     IF immediate \/ KindOf[a] # "update"
                       THEN Kicked(r) ELSE [r EXCEPT !.timer = TRUE]]
  /\ UNCHANGED <<status, model, pageVersion, notice, session, scope, strays,
                 server, landed, dropped>>

IdleFires ==
  /\ Quiet /\ Mine.timer
  /\ queue' = MarkReady(queue)
  /\ runner' = [runner EXCEPT ![session] = Kicked([Mine EXCEPT !.timer = FALSE])]
  /\ UNCHANGED <<status, model, pageVersion, notice, session, scope, strays,
                 server, history>>

\* The idle timer goes on while edits queued after the block's still wait.
TimerAfterBlur(timer, q) ==
  timer /\ \E i \in DOMAIN q.entries : ~q.entries[i].ready

ReadyBlock(b) ==
  /\ Quiet /\ HasRunner
  /\ queue' = MarkBlockReady(queue, b)
  /\ runner' = [runner EXCEPT ![session] =
                  Kicked([Mine EXCEPT !.timer = TimerAfterBlur(@, queue')])]
  /\ UNCHANGED <<status, model, pageVersion, notice, session, scope, strays,
                 server, history>>

Flush ==
  /\ Quiet /\ HasRunner /\ Mine.flush # "waiting"
  /\ queue' = MarkReady(queue)
  /\ runner' = [runner EXCEPT ![session] =
                  Kicked([Mine EXCEPT !.timer = FALSE, !.flush = "waiting"])]
  /\ UNCHANGED <<status, model, pageVersion, notice, session, scope, strays,
                 server, history>>

\* The Retry button is there only after a network failure.
RetrySave ==
  /\ Quiet /\ HasRunner /\ queue.lastFailure = "network"
  /\ queue' = Retry(queue)
  /\ runner' = [runner EXCEPT ![session] = Kicked(Mine)]
  /\ UNCHANGED <<status, model, pageVersion, notice, session, scope, strays,
                 server, history>>

-----------------------------------------------------------------------------
\* drain: one turn of its loop.
Drain(k) ==
  LET r == runner[k]
      pruned == IF status = "editing" THEN PruneEmpty(queue, model.blocks) ELSE queue
      emptied == UNION {queue.entries[i].acts : i \in Prunable(queue, model.blocks)}
  IN /\ r.pc = "running"
     /\ dropped' = IF status = "editing" THEN dropped \cup emptied ELSE dropped
     /\ \/ /\ status = "editing" /\ CanTake(pruned)
           /\ queue' = TakeNext(pruned)
           /\ runner' = [runner EXCEPT ![k] =
                [r EXCEPT !.pc = "sending", !.entry = <<Head(pruned.entries)>>,
                          !.base = pageVersion, !.tries = 1, !.answer = NoAnswer]]
           /\ scope' = Append(scope, k)
        \/ /\ status # "editing" \/ ~CanTake(pruned)
           /\ queue' = pruned
           /\ Stop(k, r, pruned)
           /\ UNCHANGED scope
     /\ UNCHANGED <<status, model, pageVersion, notice, session, strays, server,
                    performed, landed>>

\* The mutation scope runs one write at a time.
UnderWay(k) == runner[k].pc = "sending" /\ Head(scope) = k

MutationEnds(k) == UnderWay(k) /\ scope' = Tail(scope)

\* store.setLock with another holder while editing, else with this tab's own.
TookOver ==
  /\ status' = "locked" /\ notice' = "taken-over" /\ queue' = CreateQueue

SetLock(view, q) ==
  IF view = "other" /\ status = "editing" THEN TookOver
  ELSE queue' = q /\ UNCHANGED <<status, notice>>

VersionAdopted(ans) ==
  /\ pageVersion' = ans.version /\ queue' = OnSuccess(queue) /\ UNCHANGED model
WriteApplied(ans) ==
  /\ model' = ans.tree /\ pageVersion' = ans.version /\ queue' = OnSuccess(queue)

\* The write is saved: the loop goes on.
SaveLands(k) ==
  LET r == runner[k]
  IN /\ ~r.disposed /\ r.answer.kind = "ok" /\ MutationEnds(k)
     /\ WriteApplied(r.answer)
     /\ Go(k, [r EXCEPT !.uncertain = FALSE, !.entry = <<>>], "running")
     /\ UNCHANGED <<status, notice, session, strays, server, history>>

\* Saved, but the server could not read the tree back: it is read here.
SaveLandsUnread(k) ==
  /\ ~runner[k].disposed /\ runner[k].answer.kind = "unread" /\ MutationEnds(k)
  /\ Go(k, runner[k], "landing")
  /\ UNCHANGED <<store, strays, server, history>>

\* if (disposed) break, whatever the answer.
AnswerUnheard(k) ==
  /\ runner[k].disposed /\ runner[k].answer.kind \notin {"none", "committed"} /\ MutationEnds(k)
  /\ Stop(k, runner[k], queue)
  /\ UNCHANGED <<store, strays, server, history>>

SaveStale(k) ==
  LET r == runner[k]
  IN /\ ~r.disposed /\ r.answer.kind = "stale" /\ MutationEnds(k)
     /\ IF r.uncertain
          THEN UNCHANGED queue /\ Go(k, r, "reading")
          ELSE queue' = OnFailure(queue, "stale") /\ Go(k, r, "asking")
     /\ UNCHANGED <<status, model, pageVersion, notice, session, strays, server,
                    history>>

\* 423.  The answer carries the lock as it was read again after the refusal,
\* or nothing when that read failed.
SaveLocked(k, view) ==
  LET r == [runner[k] EXCEPT !.uncertain = FALSE]
      failed == OnFailure(queue, "locked")
  IN /\ ~r.disposed /\ r.answer.kind = "locked" /\ MutationEnds(k)
     /\ view \in {"other", holder, "missing"}
     /\ IF view = "missing"
          THEN queue' = failed /\ UNCHANGED <<status, notice>> /\ Go(k, r, "asking")
          ELSE SetLock(view, failed) /\ Stop(k, r, queue')
     /\ UNCHANGED <<model, pageVersion, session, strays, server, history>>

SaveUnauthenticated(k) ==
  LET r == runner[k]
  IN /\ ~r.disposed /\ r.answer.kind = "session" /\ MutationEnds(k)
     /\ queue' = OnFailure(queue, "session") /\ notice' = "session-ended"
     /\ Stop(k, [r EXCEPT !.uncertain = FALSE], queue')
     /\ UNCHANGED <<status, model, pageVersion, session, strays, server, history>>

SaveRefused(k) ==
  LET r == runner[k]
  IN /\ ~r.disposed /\ r.answer.kind = "refused" /\ MutationEnds(k)
     /\ queue' = OnFailure(queue, "refused")
     /\ dropped' = dropped \cup r.entry[1].acts
     /\ Go(k, [r EXCEPT !.uncertain = FALSE, !.entry = <<>>], "running")
     /\ UNCHANGED <<status, model, pageVersion, notice, session, strays, server,
                    performed, landed>>

\* No answer, or one that says nothing: TanStack sends it again, or gives up.
GiveUpOn(k) ==
  strays' = IF runner[k].answer = NoAnswer
              THEN strays \cup {[entry |-> runner[k].entry[1], base |-> runner[k].base]}
              ELSE strays

\* shouldRetryWrite, counting the sends made.
MayRetry(tries) == tries < MaxTries

SendAgain(k) ==
  LET r == runner[k]
  IN /\ UnderWay(k) /\ MayRetry(r.tries)
     /\ GiveUpOn(k)
     /\ Go(k, [r EXCEPT !.tries = @ + 1, !.uncertain = TRUE], "sending")
     /\ UNCHANGED <<store, scope, server, history>>

SaveUnanswered(k) ==
  LET r == [runner[k] EXCEPT !.uncertain = TRUE]
  IN /\ ~MayRetry(r.tries) /\ MutationEnds(k)
     /\ GiveUpOn(k)
     /\ queue' = IF r.disposed THEN queue ELSE OnFailure(queue, "network")
     /\ Stop(k, r, queue')
     /\ UNCHANGED <<status, model, pageVersion, notice, session, server, history>>

-----------------------------------------------------------------------------
\* The awaits that do not look at `disposed` when they come back.

\* The tree of a write whose answer carried none.
LandingRead(k) ==
  LET r == runner[k]
  IN /\ r.pc = "landing" /\ r.answer.kind = "tree"
     /\ WriteApplied(r.answer)
     /\ Go(k, [r EXCEPT !.uncertain = FALSE, !.entry = <<>>], "running")
     /\ UNCHANGED <<status, notice, session, scope, strays, server, history>>

LandingUnread(k) ==
  /\ runner[k].pc = "landing"
  /\ queue' = OnFailure(queue, "stale")
  /\ Go(k, runner[k], "asking")
  /\ UNCHANGED <<status, model, pageVersion, notice, session, scope, strays, server,
                 history>>

\* The tree that decides whether an unanswered write was carried out.  What it
\* was to delete may have been deleted by somebody else.
GoneAnyway(a) == KindOf[a] = "delete" /\ BlockOf[a] \notin tree.blocks
ReadAlreadyApplied(k) ==
  LET r == runner[k]
  IN /\ r.pc = "reading" /\ r.answer.kind = "tree"
     /\ AlreadyApplied(r.entry[1], r.answer.tree)
     /\ WriteApplied(r.answer)
     /\ Go(k, [r EXCEPT !.uncertain = FALSE, !.entry = <<>>], "running")
     /\ dropped' = dropped \cup {a \in r.entry[1].acts : GoneAnyway(a)}
     /\ UNCHANGED <<status, notice, session, scope, strays, server, performed, landed>>

ReadConflict(k) ==
  LET r == runner[k]
  IN /\ r.pc = "reading" /\ r.answer.kind = "tree"
     /\ ~AlreadyApplied(r.entry[1], r.answer.tree)
     /\ queue' = OnFailure(queue, "stale")
     /\ Go(k, [r EXCEPT !.uncertain = FALSE], "asking")
     /\ UNCHANGED <<status, model, pageVersion, notice, session, scope, strays, server,
                    history>>

ReadUnanswered(k) ==
  /\ runner[k].pc = "reading"
  /\ queue' = OnFailure(queue, "network")
  /\ Stop(k, runner[k], queue')
  /\ UNCHANGED <<status, model, pageVersion, notice, session, scope, strays, server,
                 history>>

ReadUnauthenticated(k) ==
  LET r == runner[k]
  IN /\ r.pc = "reading" /\ r.answer.kind = "session"
     /\ queue' = OnFailure(queue, "session") /\ notice' = "session-ended"
     /\ Stop(k, [r EXCEPT !.uncertain = FALSE], queue')
     /\ UNCHANGED <<status, model, pageVersion, session, scope, strays, server, history>>

\* noteStale: the lock decides what the editor is told, if it can be read.
NoteStale(k) ==
  /\ runner[k].pc = "asking"
  /\ \/ /\ signedIn /\ holder = "other"
        /\ SetLock("other", queue)
     \/ /\ ~signedIn
        /\ notice' = "session-ended" /\ UNCHANGED <<status, queue>>
     \/ notice' = "stale" /\ UNCHANGED <<status, queue>>
  /\ Stop(k, [runner[k] EXCEPT !.uncertain = FALSE], queue')
  /\ UNCHANGED <<model, pageVersion, session, scope, strays, server, history>>

ClientStep(k) ==
  /\ \/ Drain(k)
     \/ /\ Quiet
        /\ \/ SaveLands(k) \/ SaveLandsUnread(k) \/ AnswerUnheard(k) \/ SaveStale(k)
           \/ \E view \in {"other", "mine", "free", "missing"} : SaveLocked(k, view)
           \/ SaveUnauthenticated(k) \/ SaveRefused(k)
           \/ SendAgain(k) \/ SaveUnanswered(k)
           \/ LandingRead(k) \/ LandingUnread(k)
           \/ ReadAlreadyApplied(k) \/ ReadConflict(k)
           \/ ReadUnanswered(k) \/ ReadUnauthenticated(k)
           \/ NoteStale(k)

-----------------------------------------------------------------------------
\* The store's session: taken over, disposed of, opened again.

\* The heartbeat meets another holder: setLock.
HeartbeatLost ==
  /\ Quiet /\ status = "editing" /\ signedIn /\ holder = "other"
  /\ TookOver
  /\ UNCHANGED <<model, pageVersion, session, runner, scope, strays, server, history>>

\* The runner effect's cleanup, once the shell renders status "locked".
Dispose ==
  /\ Quiet /\ status = "locked" /\ ~Mine.disposed
  /\ runner' = [runner EXCEPT ![session] =
                  Settled([Mine EXCEPT !.disposed = TRUE, !.timer = FALSE], queue)]
  /\ UNCHANGED <<store, scope, strays, server, history>>

\* Open answers with the page free: the lock is ours, and a runner starts.
Reopen ==
  /\ Quiet /\ status = "locked" /\ Mine.disposed /\ session < MaxSessions
  /\ Mine.pc = "idle" \/ Overlap
  /\ signedIn /\ holder # "other"
  /\ holder' = "mine"
  /\ status' = "editing" /\ queue' = CreateQueue /\ notice' = "none"
  /\ model' = tree /\ pageVersion' = version
  /\ session' = session + 1
  /\ dropped' = dropped \cup {a \in Performed : ~Landed(a)}
  /\ UNCHANGED <<runner, scope, strays, version, tree, signedIn, performed, landed>>

-----------------------------------------------------------------------------
\* The server.  A refused write changes nothing.

Verdict(e, base) ==
  CASE ~signedIn -> "session"
    [] signedIn /\ base # version -> "stale"
    [] signedIn /\ base = version /\ holder = "other" -> "locked"
    [] signedIn /\ base = version /\ holder # "other" ->
         IF e.acts \cap Refused # {} THEN "refused" ELSE "ok"

CarriedOut(e, base) ==
  IF Verdict(e, base) = "ok"
    THEN /\ tree' = Apply(e, tree) /\ version' = version + 1
         /\ landed' = Append(landed, e.acts)
    ELSE UNCHANGED <<tree, version, landed>>

Answered(k, answer) == runner' = [runner EXCEPT ![k].answer = answer]

\* applyBlockEdit's transaction.
ServerEdit(k) ==
  LET r == runner[k]
      verdict == Verdict(r.entry[1], r.base)
  IN /\ UnderWay(k) /\ r.answer = NoAnswer
     /\ CarriedOut(r.entry[1], r.base)
     /\ Answered(k, IF verdict = "ok" THEN [kind |-> "committed", version |-> version']
                    ELSE [kind |-> verdict])
     /\ UNCHANGED <<store, scope, strays, holder, signedIn, performed, dropped>>

\* The tree is read back after the commit; a failure is still a saved write.
ServerReadBack(k) ==
  LET v == runner[k].answer.version
  IN /\ UnderWay(k) /\ runner[k].answer.kind = "committed"
     /\ \/ Answered(k, [kind |-> "ok", tree |-> tree, version |-> v])
        \/ Answered(k, [kind |-> "unread", version |-> v])
     /\ UNCHANGED <<store, scope, strays, server, history>>

StrayArrives(s) ==
  /\ s \in strays
  /\ CarriedOut(s.entry, s.base)
  /\ strays' = strays \ {s}
  /\ UNCHANGED <<store, runner, scope, holder, signedIn, performed, dropped>>

\* readPageForest: the page row, then its blocks, which may be newer.
ServerReadPage(k) ==
  /\ runner[k].pc \in {"reading", "landing"} /\ runner[k].answer = NoAnswer
  /\ Answered(k, IF signedIn THEN [kind |-> "page", version |-> version]
                 ELSE [kind |-> "session"])
  /\ UNCHANGED <<store, scope, strays, server, history>>

ServerReadBlocks(k) ==
  /\ runner[k].answer.kind = "page"
  /\ Answered(k, [kind |-> "tree", tree |-> tree, version |-> runner[k].answer.version])
  /\ UNCHANGED <<store, scope, strays, server, history>>

ServerStep(k) ==
  ServerEdit(k) \/ ServerReadBack(k) \/ ServerReadPage(k) \/ ServerReadBlocks(k)

\* Every write that was not ours bumped the version, so did every takeover.
Others == version - 1 - Len(landed)

\* Another tab of the account, or the page's new holder.
ForeignWrite ==
  /\ Others < MaxOthers
  /\ version' = version + 1
  /\ \/ tree' = tree
     \/ \E b \in tree.blocks : tree' = Apply([kind |-> "delete", block |-> b], tree)
     \/ \E a \in tree.values : tree' = [tree EXCEPT !.values = @ \ {a}]
  /\ UNCHANGED <<store, runner, scope, strays, holder, signedIn, performed, landed, dropped>>

\* A takeover bumps the version; a lapse followed by an acquire does not.
OtherTakesOver ==
  /\ Others < MaxOthers
  /\ holder' = "other" /\ version' = version + 1
  /\ UNCHANGED <<store, runner, scope, strays, tree, signedIn, performed, landed, dropped>>

LockMoves ==
  /\ \/ holder \in {"mine", "other"} /\ holder' = "free"
     \/ holder = "free" /\ holder' = "other"
     \/ holder = "free" /\ status = "editing" /\ signedIn /\ holder' = "mine"
  /\ UNCHANGED <<store, runner, scope, strays, version, tree, signedIn, history>>

SessionEnds ==
  /\ signedIn /\ signedIn' = FALSE
  /\ UNCHANGED <<store, runner, scope, strays, version, tree, holder, history>>

-----------------------------------------------------------------------------
Environment ==
  /\ Quiet
  /\ \/ ForeignWrite \/ OtherTakesOver \/ LockMoves \/ SessionEnds
     \/ \E s \in strays : StrayArrives(s)

Editor ==
  \/ \E a \in Acts, immediate \in BOOLEAN : Perform(a, immediate)
  \/ \E b \in Blocks : ReadyBlock(b)
  \/ Flush \/ RetrySave

Tab == IdleFires \/ HeartbeatLost \/ Dispose \/ Reopen

Next ==
  \/ \E k \in Sessions : ClientStep(k) \/ (Quiet /\ ServerStep(k))
  \/ Editor \/ Tab \/ Environment

\* Requests are answered or given up on, timers fire, renders happen: the event
\* loop serves them in turn, however often the editor's own events come between
\* (hence SF: a drain turn disables them for a moment).  Nothing says the editor
\* acts or retries, or that anyone else does anything.
Fairness ==
  /\ SF_vars(\E k \in Sessions : ClientStep(k))
  /\ SF_vars(IdleFires) /\ SF_vars(Dispose)

Spec == Init /\ [][Next]_vars
FairSpec == Spec /\ Fairness
-----------------------------------------------------------------------------
\* Properties.

\* Everything done so far was carried out, was refused or emptied, or was a
\* deletion of what somebody else had deleted.
AllSaved == \A a \in Performed : Landed(a) \/ a \in dropped

\* "Saved", and a flush that answers true, mean that every act was carried out
\* by the server: nothing is still on its way, held back or forgotten.
SavedMeansSaved ==
  status = "editing" =>
    (queue.status = "saved" \/ Mine.flush = "saved" => AllSaved)

\* A write the server would accept is made on the tree the server has: the editor
\* never overwrites what it has not been shown, however reads and writes overlap.
AcceptedIsSeen == status = "editing" /\ pageVersion = version => model = tree

\* Retries, reconciliation and strays never carry an act out twice.
AtMostOnce ==
  \A m, n \in DOMAIN landed : m # n => landed[m] \cap landed[n] = {}

\* What was done to a block reaches the server in the order it was done.
OrderKept ==
  \A m, n \in DOMAIN performed : \A i, j \in DOMAIN landed :
    /\ m < n /\ BlockOf[performed[m]] = BlockOf[performed[n]]
    /\ performed[m] \in landed[i] /\ performed[n] \in landed[j]
    => i <= j

\* Every act the server carries out is carried out once, and in its turn.
SentOnceInOrder == AtMostOnce /\ OrderKept

\* An edit that may leave is on its way, and one that waits has a timer or
\* something the editor is told about: the queue never stalls.
NothingStranded ==
  status = "editing" /\ ~Held(queue) =>
    /\ queue.inFlight = <<>> /\ Mine.pc = "idle" /\ queue.entries # <<>> =>
         ~Head(queue.entries).ready
    /\ (\E i \in DOMAIN queue.entries : ~queue.entries[i].ready) => Mine.timer

\* The entry in flight is one this session's runner is waiting for an answer to.
InFlightIsSent ==
  queue.inFlight # <<>> =>
    Mine.pc \in {"sending", "reading", "landing"} /\ Mine.entry[1].acts = queue.inFlight[1].acts

\* Whatever was performed ends up carried out, dropped or held for the editor to
\* see, again and again, unless the page was lost to someone else.
Settles ==
  \/ AllSaved \/ Held(queue) \/ queue.status = "failed" \/ status = "locked"
EditsSettle == []<>Settles

\* Whoever waits for a flush is told how it ended, at the latest when the session
\* ends: the next one's runner is another.
FlushAnswers == []<>(Mine.flush # "waiting")

\* The runner's state is what its loop can be in, its loop and the queue agree on
\* what is in flight, and nothing is left lying, whatever was awaited in between.
RunnerInv == TypeOK /\ InFlightIsSent /\ NothingStranded
=============================================================================
