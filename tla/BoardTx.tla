------------------------------- MODULE BoardTx -------------------------------
(***************************************************************************)
(* The transactions of internal/storage statement by statement, run by the *)
(* server's concurrent requests against either backend:                    *)
(*                                                                         *)
(* "sqlite"    one writer at a time; a transaction reads the snapshot of   *)
(*             its first statement, and its first write fails if somebody  *)
(*             committed since or holds the write lock (WAL, BEGIN         *)
(*             DEFERRED, busy_timeout on one pooled connection).           *)
(* "postgres"  READ COMMITTED: every statement sees what is committed when *)
(*             it runs; rows a transaction wrote stay locked to its end,   *)
(*             and a deadlock is broken by failing one transaction.        *)
(*                                                                         *)
(* A write is pending in its transaction until the commit.  Statements     *)
(* that only touch rows nobody else can see yet (a new thread with its     *)
(* first rows, the mentions of one post) are one step.                     *)
(***************************************************************************)
EXTENDS Integers, Sequences, FiniteSets, SequencesExt, FiniteSetsExt, Relation

CONSTANTS
    Actors, Threads,
    Procs,            \* requests the server handles at the same time
    Backend,          \* "sqlite" or "postgres"
    MaxClock,         \* posts that may take a timestamp
    ExtraLists,       \* reply's watchers parameter: a set of sequences of actors
    MentionSets,      \* the sets of actors a post may mention
    Ops,              \* the operations requests may ask for
    OneCallPerActor   \* TRUE: an actor waits for an answer before its next call

ASSUME BackendAssumption == Backend \in {"sqlite", "postgres"}
ASSUME OpsAssumption ==
    Ops \subseteq {"create", "reply", "watch", "unwatch", "catchup"}
ASSUME ListsAssumption ==
    ExtraLists \subseteq Seq(Actors) /\ MentionSets \subseteq SUBSET Actors
ASSUME FiniteAssumption == IsFiniteSet(Threads) /\ IsFiniteSet(Procs)
ASSUME MaxClockAssumption == MaxClock \in Nat

Instants == 1 .. MaxClock
ZeroTime == 0
NoRow    == -1
Kept     == -2    \* a cursor the transaction has not written
Pairs    == Actors \X Threads

VARIABLES
    db,      \* the committed tables
    tx,      \* each request's transaction
    clock,   \* the application's clock: the last timestamp it gave
    got, told   \* histories, as in Board

vars == <<db, tx, clock, got, told>>

\* What callers may ask: a post's mentions are what its body resolves to.
Posts(op, lists) ==
    {[op |-> op, actor |-> a, thread |-> t, extras |-> xs, mentioned |-> ms] :
        a \in Actors, t \in Threads, xs \in lists, ms \in MentionSets}

Calls ==
    {r \in Posts("create", {<< >>}) \cup Posts("reply", ExtraLists)
           \cup [op : {"watch", "unwatch"}, actor : Actors, thread : Threads]
           \cup [op : {"catchup"}, actor : Actors] : r.op \in Ops}

NoWrites == [opened |-> {}, replies |-> {}, joined |-> {}, left |-> {},
             lastRead |-> [q \in Pairs |-> Kept],
             mentions |-> {}, seen |-> {}, at |-> ZeroTime]

NoView == [taken |-> FALSE]
NoCall == [op |-> "none"]

Idle == [pc |-> "idle", req |-> NoCall, view |-> NoView, stale |-> FALSE,
         lock |-> FALSE, w |-> NoWrites, todo |-> << >>,
         rows |-> [t \in Threads |-> NoRow], res |-> {}, news |-> {}]

Init ==
    /\ db = [status |-> [t \in Threads |-> "absent"], replies |-> {},
             watcher |-> {}, lastRead |-> [q \in Pairs |-> NoRow],
             mentions |-> {}, seen |-> {}, latest |-> ZeroTime]
    /\ tx = [p \in Procs |-> Idle]
    /\ clock = ZeroTime
    /\ got = [a \in Actors |-> {}]
    /\ told = {}

-----------------------------------------------------------------------------
Op(p)     == tx[p].req.op
Actor(p)  == tx[p].req.actor
Thread(p) == tx[p].req.thread
Own(p)    == <<Actor(p), Thread(p)>>
Active(p) == tx[p].pc # "idle"

\* What a reading statement of p sees.
D(p) == IF tx[p].view.taken THEN tx[p].view.db ELSE db

\* The view a transaction holds after its first reading statement.
TakenView == IF Backend = "sqlite" THEN [taken |-> TRUE, db |-> db] ELSE NoView

\* The row a statement of a loop is about: over the actors of a reply, or
\* over the threads an actor watches.
HeadPair(p)  == <<Head(tx[p].todo), Thread(p)>>
HeadWatch(p) == <<Actor(p), Head(tx[p].todo)>>

UnseenOf(a) == {m \in db.mentions : m.actor = a /\ m \notin db.seen}

\* The rows the next statement of p must have to itself: an INSERT waits for
\* a pending row of its key, an UPDATE or DELETE only for a row it can see.
Needs(p) ==
    CASE tx[p].pc = "watcher" -> {<<"watcher", HeadPair(p)>>}
      [] tx[p].pc = "ensure" /\ (Op(p) = "watch" \/ HeadPair(p) # Own(p))
                              -> {<<"lastRead", HeadPair(p)>>}
      [] tx[p].pc = "cursor"  -> {<<"lastRead", Own(p)>>}
      [] tx[p].pc = "unwatch" /\ Own(p) \in db.watcher -> {<<"watcher", Own(p)>>}
      [] tx[p].pc = "uncursor" /\ db.lastRead[Own(p)] # NoRow -> {<<"lastRead", Own(p)>>}
      [] tx[p].pc = "update" /\ db.lastRead[HeadWatch(p)] # NoRow -> {<<"lastRead", HeadWatch(p)>>}
      [] tx[p].pc = "mark"    -> {<<"seen", m>> : m \in UnseenOf(Actor(p))}
      [] OTHER -> {}

\* The rows p has written and not yet committed.
Holds(p) ==
    {<<"watcher", q>> : q \in tx[p].w.joined \cup tx[p].w.left}
    \cup {<<"lastRead", q>> : q \in {x \in Pairs : tx[p].w.lastRead[x] # Kept}}
    \cup {<<"seen", m>> : m \in tx[p].w.seen}

Waits(p) == {o \in Procs \ {p} : Needs(p) \cap Holds(o) # {}}

WaitsFor == [x, y \in Procs |-> y \in Waits(x)]
Deadlocked(p) == TransitiveClosure(WaitsFor, Procs)[p, p]

Writing == {"create", "insert", "watcher", "cursor", "ensure", "mentions",
            "unwatch", "uncursor", "update", "mark"}

OthersLock(p) == \E o \in Procs \ {p} : tx[o].lock

\* A writing statement of p can run now.
CanWrite(p) ==
    IF Backend = "sqlite" THEN ~ tx[p].stale /\ ~ OthersLock(p)
                          ELSE Waits(p) = {}

-----------------------------------------------------------------------------
\* Posts whose timestamp is still to be taken, counted against MaxClock.
Unstamped == {p \in Procs : tx[p].pc \in {"create", "read", "insert"}
                            /\ Op(p) \in {"create", "reply"}}

FirstStatement(op) ==
    CASE op = "create"  -> "create"
      [] op = "unwatch" -> "unwatch"
      [] op = "catchup" -> "watches"
      [] OTHER          -> "read"

Start(p, r) ==
    /\ ~ Active(p)
    /\ r.op \in Ops
    /\ OneCallPerActor => \A o \in Procs : Active(o) => Actor(o) # r.actor
    /\ r.op \in {"create", "reply"} => clock + Cardinality(Unstamped) < MaxClock
    /\ r.op = "create" =>    \* its UUID is fresh
          /\ db.status[r.thread] = "absent"
          /\ \A o \in Procs : Active(o) /\ Op(o) = "create" => Thread(o) # r.thread
    /\ tx' = [tx EXCEPT ![p] = [Idle EXCEPT !.pc = FirstStatement(r.op), !.req = r]]
    /\ UNCHANGED <<db, clock, got, told>>

\* A statement that only reads leaves the transaction as t.
Reads(p, t) ==
    /\ tx' = [tx EXCEPT ![p] = t]
    /\ UNCHANGED <<db, clock, got, told>>

\* A statement that writes leaves it as t, and on SQLite with the write lock.
Writes(p, t) ==
    /\ CanWrite(p)
    /\ tx' = [tx EXCEPT ![p] = [t EXCEPT !.lock = (Backend = "sqlite")]]
    /\ UNCHANGED <<db, got, told>>

Abort(p) ==
    /\ tx' = [tx EXCEPT ![p] = Idle]
    /\ UNCHANGED <<db, clock, got, told>>

W(p) == tx[p].w

\* The writes of w with one row more.
Joining(w, q)       == [w EXCEPT !.joined = @ \cup {q}]
SettingRead(w, q, at) == [w EXCEPT !.lastRead[q] = at]

MentionRows(r, at) == {[actor |-> a, at |-> at] : a \in r.mentioned \ {r.actor}}

\* CreateThread: the thread, its author's Watcher and ThreadWatch rows and the
\* mentions.
Creating(r, at) ==
    [opened |-> {r.thread}, replies |-> {}, joined |-> {<<r.actor, r.thread>>}, left |-> {},
     lastRead |-> [q \in Pairs |-> IF q = <<r.actor, r.thread>> THEN at ELSE Kept],
     mentions |-> MentionRows(r, at), seen |-> {}, at |-> at]

CreateThread(p) ==
    /\ tx[p].pc = "create"
    /\ clock' = clock + 1
    /\ Writes(p, [tx[p] EXCEPT !.pc = "commit", !.w = Creating(tx[p].req, clock + 1)])

\* tx.First(&thread) of AddReply and WatchThread.
FirstThread(p) ==
    /\ tx[p].pc = "read"
    /\ IF db.status[Thread(p)] = "absent" THEN Abort(p)
       ELSE IF Op(p) = "reply"
            THEN Reads(p, [tx[p] EXCEPT !.pc = "insert", !.view = TakenView])
            ELSE Reads(p, [tx[p] EXCEPT !.pc = "watcher", !.view = TakenView,
                                        !.todo = <<Actor(p)>>])

Replying(r, at) ==
    [NoWrites EXCEPT !.at = at,
                     !.replies = {[thread |-> r.thread, author |-> r.actor, at |-> at]}]

InsertReply(p) ==
    /\ tx[p].pc = "insert"
    /\ clock' = clock + 1
    /\ Writes(p, [tx[p] EXCEPT !.pc = "watcher", !.w = Replying(tx[p].req, clock + 1),
                               !.todo = <<Actor(p)>> \o tx[p].req.extras])

\* INSERT INTO watchers ... ON CONFLICT DO NOTHING: no lock on a row that is
\* there.  After the last one AddReply upserts the author's cursor.
InsertWatcher(p) ==
    LET q    == HeadPair(p)
        rest == Tail(tx[p].todo)
        w    == IF q \in db.watcher THEN W(p) ELSE Joining(W(p), q)
    IN  /\ tx[p].pc = "watcher"
        /\ IF rest # << >>
           THEN Writes(p, [tx[p] EXCEPT !.todo = rest, !.w = w])
           ELSE IF Op(p) = "reply"
           THEN Writes(p, [tx[p] EXCEPT !.pc = "cursor", !.todo = << >>, !.w = w])
           ELSE Writes(p, [tx[p] EXCEPT !.pc = "ensure", !.todo = <<Actor(p)>>, !.w = w])
        /\ UNCHANGED clock

AfterEnsure(p) == IF Op(p) = "reply" THEN "mentions" ELSE "commit"

\* upsertThreadWatch: the row is overwritten whatever it holds by now.
UpsertCursor(p) ==
    LET extras == tx[p].req.extras
    IN  /\ tx[p].pc = "cursor"
        /\ Writes(p, [tx[p] EXCEPT !.pc = IF extras = << >> THEN "mentions" ELSE "ensure",
                                   !.todo = extras,
                                   !.w = SettingRead(W(p), Own(p), W(p).at)])
        /\ UNCHANGED clock

\* Mutant: a watcher named in a reply has its cursor reset.
EnsureCursorUpserting(p) ==
    LET q    == HeadPair(p)
        rest == Tail(tx[p].todo)
    IN  /\ tx[p].pc = "ensure"
        /\ Writes(p, [tx[p] EXCEPT !.pc = IF rest = << >> THEN AfterEnsure(p) ELSE "ensure",
                                   !.todo = rest, !.w = SettingRead(W(p), q, ZeroTime)])
        /\ UNCHANGED clock

\* ensureThreadWatch: ON CONFLICT DO NOTHING, with the zero time.  AddReply's
\* loop passes its author over.
EnsureCursor(p) ==
    LET q    == HeadPair(p)
        rest == Tail(tx[p].todo)
        pc   == IF rest = << >> THEN AfterEnsure(p) ELSE "ensure"
        have == db.lastRead[q] # NoRow \/ W(p).lastRead[q] # Kept
        w    == IF have THEN W(p) ELSE SettingRead(W(p), q, ZeroTime)
    IN  /\ tx[p].pc = "ensure"
        /\ IF Op(p) = "reply" /\ q = Own(p)
           THEN Reads(p, [tx[p] EXCEPT !.pc = pc, !.todo = rest])
           ELSE Writes(p, [tx[p] EXCEPT !.pc = pc, !.todo = rest, !.w = w]) /\ UNCHANGED clock

InsertMentions(p) ==
    /\ tx[p].pc = "mentions"
    /\ Writes(p, [tx[p] EXCEPT !.pc = "commit",
                               !.w = [W(p) EXCEPT !.mentions = MentionRows(tx[p].req, W(p).at)]])
    /\ UNCHANGED clock

DeleteWatcher(p) ==
    /\ tx[p].pc = "unwatch"
    /\ Writes(p, [tx[p] EXCEPT !.pc = "uncursor",
                               !.w = [W(p) EXCEPT !.left = {Own(p)} \cap db.watcher]])
    /\ UNCHANGED clock

DeleteCursor(p) ==
    /\ tx[p].pc = "uncursor"
    /\ Writes(p, [tx[p] EXCEPT !.pc = "commit",
                               !.w = IF db.lastRead[Own(p)] = NoRow THEN W(p)
                                     ELSE SettingRead(W(p), Own(p), NoRow)])
    /\ UNCHANGED clock

-----------------------------------------------------------------------------
\* CatchUp: the actor's watches with the cursors as they are now, ...
ReadWatches(p) ==
    LET rows    == [t \in Threads |-> db.lastRead[<<Actor(p), t>>]]
        watched == {t \in Threads : rows[t] # NoRow}
    IN  /\ tx[p].pc = "watches"
        /\ Reads(p, [tx[p] EXCEPT !.pc = IF watched = {} THEN "select" ELSE "replies",
                                  !.view = TakenView,
                                  !.todo = SetToSeq(watched), !.rows = rows])

\* ... per watch the replies past the cursor it read, ...
UnreadOf(p) ==
    LET t == Head(tx[p].todo)
    IN  {r \in D(p).replies : r.thread = t /\ r.at > tx[p].rows[t]}

PassingWatch(t) ==
    [t EXCEPT !.todo = Tail(@), !.pc = IF Tail(t.todo) = << >> THEN "select" ELSE "replies"]

ReadReplies(p) ==
    /\ tx[p].pc = "replies"
    /\ IF UnreadOf(p) = {} THEN Reads(p, PassingWatch(tx[p]))
       ELSE Reads(p, [tx[p] EXCEPT !.pc = "update", !.res = tx[p].res \cup UnreadOf(p)])

\* ... the cursor set to the newest of those, whatever it holds by now, ...
Newest(p) == Max({r.at : r \in {x \in tx[p].res : x.thread = Head(tx[p].todo)}})

UpdateCursor(p) ==
    LET w == IF db.lastRead[HeadWatch(p)] = NoRow THEN W(p)
             ELSE SettingRead(W(p), HeadWatch(p), Newest(p))
    IN  /\ tx[p].pc = "update"
        /\ Writes(p, [PassingWatch(tx[p]) EXCEPT !.w = w])
        /\ UNCHANGED clock

\* ... the unseen mentions, ...
ReadMentions(p) ==
    LET news == {m \in D(p).mentions : m.actor = Actor(p) /\ m \notin D(p).seen}
    IN  /\ tx[p].pc = "select"
        /\ Reads(p, [tx[p] EXCEPT !.pc = IF news = {} THEN "commit" ELSE "mark", !.news = news])

\* Mutant: the update marks everybody's mentions.
MarkAllMentions(p) ==
    /\ tx[p].pc = "mark"
    /\ Writes(p, [tx[p] EXCEPT !.pc = "commit",
                               !.w = [W(p) EXCEPT !.seen = db.mentions \ db.seen]])
    /\ UNCHANGED clock

\* ... and every mention unseen by then marked seen.
MarkMentions(p) ==
    /\ tx[p].pc = "mark"
    /\ Writes(p, [tx[p] EXCEPT !.pc = "commit",
                               !.w = [W(p) EXCEPT !.seen = UnseenOf(Actor(p))]])
    /\ UNCHANGED clock

-----------------------------------------------------------------------------
Applied(d, w) ==
    [status   |-> [t \in Threads |-> IF t \in w.opened THEN "open" ELSE d.status[t]],
     replies  |-> d.replies \cup w.replies,
     watcher  |-> (d.watcher \cup w.joined) \ w.left,
     lastRead |-> [q \in Pairs |-> IF w.lastRead[q] = Kept THEN d.lastRead[q]
                                                           ELSE w.lastRead[q]],
     mentions |-> d.mentions \cup w.mentions,
     seen     |-> d.seen \cup w.seen,
     latest   |-> IF w.at > d.latest THEN w.at ELSE d.latest]

\* Mutant: the connection goes back to the pool with its transaction open.
CommitKeepingLock(p) ==
    /\ tx[p].pc = "commit"
    /\ db' = Applied(db, W(p))
    /\ tx' = [tx EXCEPT ![p] = [Idle EXCEPT !.w = W(p)]]
    /\ UNCHANGED <<clock, got, told>>

\* The commit makes the writes visible; on SQLite whoever holds an older
\* snapshot can no longer write.
Commit(p) ==
    /\ tx[p].pc = "commit"
    /\ db' = Applied(db, W(p))
    /\ tx' = [o \in Procs |->
                 IF o = p THEN Idle
                 ELSE [tx[o] EXCEPT !.stale = @ \/ (tx[o].view.taken /\ W(p) # NoWrites)]]
    /\ got' = CASE Op(p) = "catchup" -> [got EXCEPT ![Actor(p)] = @ \cup tx[p].res]
                [] Op(p) = "unwatch" -> [got EXCEPT ![Actor(p)] =
                                            {r \in @ : r.thread # Thread(p)}]
                [] OTHER -> got
    /\ told' = IF Op(p) = "catchup" THEN told \cup tx[p].news ELSE told
    /\ UNCHANGED clock

\* SQLITE_BUSY: the snapshot is out of date, or the write lock is taken and
\* this connection does not wait for it.
Busy(p) ==
    /\ Backend = "sqlite"
    /\ tx[p].pc \in Writing
    /\ tx[p].stale \/ OthersLock(p)
    /\ Abort(p)

\* Mutant: nobody looks for cycles.
DeadlockUndetected(p) ==
    /\ Backend = "postgres"
    /\ FALSE
    /\ Abort(p)

\* Postgres fails one transaction of a cycle of waiting ones.
DeadlockDetected(p) ==
    /\ Backend = "postgres"
    /\ Deadlocked(p)
    /\ Abort(p)

\* The server stops: every transaction under way is rolled back.
Crash ==
    /\ \E p \in Procs : Active(p)
    /\ tx' = [p \in Procs |-> Idle]
    /\ UNCHANGED <<db, clock, got, told>>

Statement(p) ==
    \/ CreateThread(p)
    \/ FirstThread(p)
    \/ InsertReply(p) \/ InsertWatcher(p) \/ UpsertCursor(p)
    \/ EnsureCursor(p) \/ InsertMentions(p)
    \/ DeleteWatcher(p) \/ DeleteCursor(p)
    \/ ReadWatches(p) \/ ReadReplies(p) \/ UpdateCursor(p)
    \/ ReadMentions(p) \/ MarkMentions(p)
    \/ Commit(p)
    \/ Busy(p)
    \/ DeadlockDetected(p)

Next ==
    \/ \E p \in Procs, r \in Calls : Start(p, r)
    \/ \E p \in Procs : Statement(p)
    \/ Crash

Spec == Init /\ [][Next]_vars

\* The database answers every statement: one that waits for a row gets its
\* turn (Postgres queues the waiters of a row), or its transaction is failed.
FairSpec == Spec /\ \A p \in Procs : SF_vars(Statement(p))

-----------------------------------------------------------------------------
\* The same histories under the board's own steps: what it means that the
\* transactions take effect one at a time.
Serial == INSTANCE Board WITH
    status <- db.status, replies <- db.replies, watcher <- db.watcher,
    lastRead <- db.lastRead, mentions <- db.mentions, seen <- db.seen,
    now <- db.latest

SerialSpec == Serial!Spec

\* Types of what the transactions keep; a transaction between requests has
\* nothing pending, and on SQLite at most one holds the write lock.
TypeOK ==
    /\ Serial!TypeOK
    /\ clock \in 0 .. MaxClock
    /\ \A p \in Procs :
          /\ ~ Active(p) => tx[p] = Idle
          /\ Active(p) => tx[p].req \in Calls
          /\ tx[p].pc \in Writing \cup {"idle", "read", "watches", "replies", "select", "commit"}
    /\ \A p, o \in Procs : tx[p].lock /\ tx[o].lock => p = o

WatchPairing == Serial!WatchPairing
NothingLost  == Serial!NothingLost
NeverTwice   == Serial!NeverTwice
SeenWasReturned == Serial!SeenWasReturned
CursorNeverMovesBack == Serial!CursorNeverMovesBack

\* Every request comes to an end, committed or failed, whatever rows the
\* others hold: two replies that name each other's author as a watcher wait
\* for each other, and the server has no timeout of its own on a statement.
EveryRequestEnds == \A p \in Procs : Active(p) ~> ~ Active(p)
=============================================================================
