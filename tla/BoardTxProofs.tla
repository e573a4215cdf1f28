---------------------------- MODULE BoardTxProofs ----------------------------
(***************************************************************************)
(* On SQLite the statements of any number of concurrent requests, with     *)
(* SQLITE_BUSY and crashes, implement Board: committed transactions take   *)
(* effect one at a time, so what holds of Board holds of them.  The        *)
(* inductive invariant, BoardTxInv, says of every transaction what its     *)
(* pending writes are at each statement, in terms of the tables it reads;  *)
(* whoever holds the write lock reads the committed ones.                  *)
(*                                                                         *)
(* On Postgres they do not.  What remains there, that catch_up returns     *)
(* nothing twice and cursors only move forward, follows from PostgresInv,  *)
(* for actors that have one call at a time.                                *)
(***************************************************************************)
EXTENDS BoardTx, FiniteSetTheorems, WellFoundedInduction, TLAPS

Pcs == Writing \cup {"idle", "read", "watches", "replies", "select", "commit"}

Cursors == Instants \cup {ZeroTime, NoRow}

Tables ==
    [status : [Threads -> {"absent", "open"}], replies : SUBSET Serial!Replies,
     watcher : SUBSET Pairs, lastRead : [Pairs -> Cursors],
     mentions : SUBSET Serial!Mentions, seen : SUBSET Serial!Mentions, latest : Instants \cup {ZeroTime}]

Pendings ==
    [opened : SUBSET Threads, replies : SUBSET Serial!Replies, joined : SUBSET Pairs,
     left : SUBSET Pairs, lastRead : [Pairs -> Cursors \cup {Kept}],
     mentions : SUBSET Serial!Mentions, seen : SUBSET Serial!Mentions,
     at : Instants \cup {ZeroTime}]

Views == [taken : {TRUE}, db : Tables] \cup {NoView}

Txs ==
    [pc : Pcs, req : Calls \cup {NoCall}, view : Views, stale : BOOLEAN,
     lock : BOOLEAN, w : Pendings, todo : Seq(Actors) \cup Seq(Threads),
     rows : [Threads -> Cursors], res : SUBSET Serial!Replies,
     news : SUBSET Serial!Mentions]

-----------------------------------------------------------------------------
OwnOf(r) == <<r.actor, r.thread>>

\* The tables a transaction's statements read, when d is committed.
ReadBy(t, d) == IF t.view.taken THEN t.view.db ELSE d

\* The post's timestamp is later than every committed one.
Stamped(t, d) == t.w.at \in Instants /\ t.w.at > d.latest

CreateSound(t, d) ==
    /\ t.pc \in {"create", "commit"}
    /\ ~ t.view.taken
    /\ d.status[t.req.thread] = "absent"
    /\ t.pc = "create" => ~ t.lock
    /\ t.pc = "commit" => t.lock /\ Stamped(t, d) /\ t.w = Creating(t.req, t.w.at)

\* Whom a reply or a watch makes a watcher, and whose cursor it ensures.
Wanted(r)  == IF r.op = "reply" THEN {r.actor} \cup ToSet(r.extras) ELSE {r.actor}
Ensured(r) == IF r.op = "reply" THEN ToSet(r.extras) ELSE {r.actor}

JoinedRows(t, d) ==
    /\ t.w.joined \subseteq Wanted(t.req) \X {t.req.thread}
    /\ \A a \in Wanted(t.req) :
          \/ <<a, t.req.thread>> \in d.watcher \cup t.w.joined
          \/ t.pc = "watcher" /\ a \in ToSet(t.todo)

\* The author's cursor is upserted, once; the others' are made where missing.
UpsertedRow(t) ==
    t.w.lastRead[OwnOf(t.req)] = IF t.pc \in {"watcher", "cursor"} THEN Kept ELSE t.w.at

EnsuredRow(t, d, q) ==
    /\ t.w.lastRead[q] # Kept =>
          /\ t.w.lastRead[q] = ZeroTime /\ d.lastRead[q] = NoRow
          /\ q[1] \in Ensured(t.req) /\ q[2] = t.req.thread
          /\ t.pc \notin {"watcher", "cursor"}
    /\ q[1] \in Ensured(t.req) /\ q[2] = t.req.thread /\ d.lastRead[q] = NoRow =>
          \/ t.pc \in {"watcher", "cursor"}
          \/ t.pc = "ensure" /\ q[1] \in ToSet(t.todo)
          \/ t.w.lastRead[q] = ZeroTime

CursorRows(t, d) ==
    \A q \in Pairs : IF t.req.op = "reply" /\ q = OwnOf(t.req) THEN UpsertedRow(t)
                                                                ELSE EnsuredRow(t, d, q)

PendingPost(t, d) ==
    IF t.req.op = "reply"
    THEN /\ Stamped(t, d)
         /\ t.w.replies = Replying(t.req, t.w.at).replies
         /\ t.w.mentions = IF t.pc = "commit" THEN MentionRows(t.req, t.w.at) ELSE {}
    ELSE t.w.at = ZeroTime /\ t.w.replies = {} /\ t.w.mentions = {}

PendingJoin(t, d) ==
    /\ t.lock \/ (t.req.op = "watch" /\ t.pc = "watcher")
    /\ t.w.opened = {} /\ t.w.left = {} /\ t.w.seen = {}
    /\ PendingPost(t, d)
    /\ JoinedRows(t, d)
    /\ CursorRows(t, d)

JoinSound(t, d) ==
    /\ t.pc \in {"read", "insert", "watcher", "cursor", "ensure", "mentions", "commit"}
    /\ t.req.op = "watch" => t.pc \notin {"insert", "cursor", "mentions"}
    /\ t.pc = "read" => ~ t.view.taken /\ ~ t.lock
    /\ t.pc # "read" => t.view.taken /\ d.status[t.req.thread] # "absent"
    /\ t.pc \in {"watcher", "ensure"} =>
          /\ t.todo # << >> /\ t.todo \in Seq(Actors)
          /\ ToSet(t.todo) \subseteq IF t.pc = "watcher" THEN Wanted(t.req) ELSE Ensured(t.req)
    /\ t.pc \notin {"read", "insert"} => PendingJoin(t, d)

UnwatchSound(t, d) ==
    /\ t.pc \in {"unwatch", "uncursor", "commit"}
    /\ ~ t.view.taken
    /\ t.pc = "unwatch" => ~ t.lock
    /\ t.pc # "unwatch" =>
          /\ t.lock
          /\ t.w.opened = {} /\ t.w.replies = {} /\ t.w.joined = {}
          /\ t.w.mentions = {} /\ t.w.seen = {} /\ t.w.at = ZeroTime
          /\ t.w.left = {OwnOf(t.req)} \cap d.watcher
          /\ \A q \in Pairs :
                t.w.lastRead[q] = IF t.pc = "commit" /\ q = OwnOf(t.req) /\ d.lastRead[q] # NoRow
                                  THEN NoRow ELSE Kept

\* The watches of a catch_up: all, those it is done with, what is unread in one.
Watched(t)    == {u \in Threads : t.rows[u] # NoRow}
Done(t)       == Watched(t) \ ToSet(t.todo)
NewIn(t, d, u) == {r \in d.replies : r.thread = u /\ r.at > t.rows[u]}
NewsIn(t, d)  == {m \in d.mentions : m.actor = t.req.actor /\ m \notin d.seen}

Distinct(s) == \A i, j \in 1 .. Len(s) : s[i] = s[j] => i = j

ReadIn(t) == Done(t) \cup IF t.pc = "update" THEN {Head(t.todo)} ELSE {}

PendingCatchUp(t, d) ==
    /\ t.w.opened = {} /\ t.w.replies = {} /\ t.w.joined = {} /\ t.w.left = {}
    /\ t.w.mentions = {} /\ t.w.at = ZeroTime
    /\ \A u \in Threads : t.rows[u] = d.lastRead[<<t.req.actor, u>>]
    /\ t.todo \in Seq(Threads) /\ Distinct(t.todo) /\ ToSet(t.todo) \subseteq Watched(t)
    /\ t.todo = << >> <=> t.pc \notin {"replies", "update"}
    /\ t.pc = "update" => NewIn(t, d, Head(t.todo)) # {}
    /\ \A q \in Pairs :
          t.w.lastRead[q] = IF q[1] = t.req.actor /\ q[2] \in Done(t) /\ NewIn(t, d, q[2]) # {}
                            THEN Serial!Latest(NewIn(t, d, q[2])) ELSE Kept
    /\ t.res = {r \in d.replies : r.thread \in ReadIn(t) /\ r.at > t.rows[r.thread]}
    /\ t.news = IF t.pc \in {"mark", "commit"} THEN NewsIn(t, d) ELSE {}
    /\ t.w.seen = IF t.pc = "commit" THEN t.news ELSE {}

CatchUpSound(t, d) ==
    /\ t.pc \in {"watches", "replies", "update", "select", "mark", "commit"}
    /\ t.pc = "watches" => ~ t.view.taken /\ ~ t.lock /\ t.res = {} /\ t.news = {}
    /\ t.pc # "watches" => t.view.taken /\ PendingCatchUp(t, d)

OpSound(t, d) ==
    /\ t.req.op = "create"  => CreateSound(t, d)
    /\ t.req.op \in {"reply", "watch"} => JoinSound(t, d)
    /\ t.req.op = "unwatch" => UnwatchSound(t, d)
    /\ t.req.op = "catchup" => CatchUpSound(t, d)

\* What holds of a transaction with the tables d committed.
Sound(t, d) ==
    /\ t \in Txs
    /\ IF t.pc = "idle" THEN t = Idle ELSE t.req \in Calls
    /\ ~ t.lock => t.w = NoWrites
    /\ t.lock => ~ t.stale
    /\ t.view.taken /\ ~ t.stale => t.view.db = d
    /\ OpSound(t, ReadBy(t, d))

TablesOK ==
    /\ db \in Tables
    /\ db.seen \subseteq db.mentions
    /\ got \in [Actors -> SUBSET db.replies]
    /\ told \subseteq db.mentions

TransactionsOK ==
    /\ tx \in [Procs -> Txs]
    /\ \A p \in Procs : Sound(tx[p], db)
    /\ \A p, o \in Procs : tx[p].lock /\ tx[o].lock => p = o
    /\ \A p, o \in Procs :
          tx[p].req.op = "create" /\ tx[o].req.op = "create" /\ Thread(p) = Thread(o) => p = o

\* Whoever may still take a timestamp has one left to take.
ClockOK ==
    /\ clock \in Nat
    /\ db.latest <= clock
    /\ \A p \in Procs : tx[p].w.at <= clock
    /\ clock + Cardinality(Unstamped) <= MaxClock

BoardTxInv == TablesOK /\ TransactionsOK /\ ClockOK

-----------------------------------------------------------------------------
\* What the fields of a request are.
LEMMA CallTypes ==
  ASSUME NEW r \in Calls
  PROVE  /\ r.op \in {"create", "reply", "watch", "unwatch", "catchup"}
         /\ r.actor \in Actors
         /\ r.op # "catchup" => r.thread \in Threads
         /\ r.op = "reply" => r.extras \in Seq(Actors)
         /\ r.op \in {"create", "reply"} => r.mentioned \in SUBSET Actors
<1>1. CASE r \in Posts("create", {<< >>})
  BY <1>1, ListsAssumption DEF Posts
<1>2. CASE r \in Posts("reply", ExtraLists)
  BY <1>2, ListsAssumption DEF Posts
<1>3. CASE r \in [op : {"watch", "unwatch"}, actor : Actors, thread : Threads]
  BY <1>3
<1>4. CASE r \in [op : {"catchup"}, actor : Actors]
  BY <1>4
<1> QED BY <1>1, <1>2, <1>3, <1>4 DEF Calls

\* A loop's head and what is left of it.
LEMMA HeadTail ==
  ASSUME NEW S, NEW s \in Seq(S), s # << >>
  PROVE  /\ Head(s) \in S /\ Tail(s) \in Seq(S)
         /\ ToSet(s) = {Head(s)} \cup ToSet(Tail(s))
<1>1. /\ Head(s) = s[1] /\ Head(s) \in S /\ Tail(s) \in Seq(S)
      /\ Len(s) \in Nat /\ Len(s) >= 1 /\ Len(Tail(s)) = Len(s) - 1
      /\ \A i \in 1 .. Len(s) - 1 : Tail(s)[i] = s[i + 1]
      /\ DOMAIN s = 1 .. Len(s) /\ DOMAIN Tail(s) = 1 .. Len(s) - 1
  OBVIOUS
<1>2. ASSUME NEW i \in 1 .. Len(s) PROVE s[i] \in {Head(s)} \cup ToSet(Tail(s))
  <2>1. CASE i = 1
    BY <2>1, <1>1
  <2>2. CASE i # 1
    <3>1. i - 1 \in 1 .. Len(s) - 1 /\ s[i] = Tail(s)[i - 1]
      BY <2>2, <1>1
    <3> QED BY <3>1, <1>1 DEF ToSet
  <2> QED BY <2>1, <2>2
<1>3. ASSUME NEW i \in 1 .. Len(s) - 1 PROVE Tail(s)[i] \in ToSet(s)
  <2>1. i + 1 \in DOMAIN s /\ Tail(s)[i] = s[i + 1]
    BY <1>1
  <2> QED BY <2>1 DEF ToSet
<1>4. Head(s) \in ToSet(s)
  BY <1>1 DEF ToSet
<1> QED BY <1>1, <1>2, <1>3, <1>4 DEF ToSet

\* The head of a list without repetitions does not come again.
LEMMA DistinctTail ==
  ASSUME NEW S, NEW s \in Seq(S), s # << >>, Distinct(s)
  PROVE  Head(s) \notin ToSet(Tail(s)) /\ Distinct(Tail(s))
<1>1. /\ Head(s) = s[1] /\ Tail(s) \in Seq(S)
      /\ Len(s) \in Nat /\ Len(s) >= 1 /\ Len(Tail(s)) = Len(s) - 1
      /\ \A i \in 1 .. Len(s) - 1 : Tail(s)[i] = s[i + 1]
      /\ DOMAIN Tail(s) = 1 .. Len(s) - 1
  OBVIOUS
<1>2. ASSUME NEW i \in 1 .. Len(s) - 1 PROVE Tail(s)[i] # Head(s)
  <2>1. i + 1 \in 1 .. Len(s) /\ 1 \in 1 .. Len(s) /\ i + 1 # 1
    BY <1>1
  <2> QED BY <2>1, <1>1 DEF Distinct
<1>3. ASSUME NEW i \in 1 .. Len(s) - 1, NEW j \in 1 .. Len(s) - 1, Tail(s)[i] = Tail(s)[j]
      PROVE  i = j
  <2>1. i + 1 \in 1 .. Len(s) /\ j + 1 \in 1 .. Len(s) /\ s[i + 1] = s[j + 1]
    BY <1>1, <1>3
  <2>2. i + 1 = j + 1
    BY <2>1 DEF Distinct
  <2> QED BY <2>2, <1>1
<1>4. Distinct(Tail(s))
  BY <1>1, <1>3 DEF Distinct
<1> QED BY <1>1, <1>2, <1>4 DEF ToSet

\* AddReply's append([]string{authorID}, extraWatcherIDs...).
LEMMA ConsSet ==
  ASSUME NEW S, NEW a \in S, NEW s \in Seq(S)
  PROVE  /\ <<a>> \o s \in Seq(S) /\ <<a>> \o s # << >>
         /\ ToSet(<<a>> \o s) = {a} \cup ToSet(s)
<1> DEFINE x == <<a>> \o s
<1>1. x \in Seq(S) /\ x # << >> /\ Head(x) = a /\ Tail(x) = s
  OBVIOUS
<1> HIDE DEF x
<1>2. ToSet(x) = {a} \cup ToSet(s)
  BY <1>1, HeadTail
<1> QED BY <1>1, <1>2 DEF x

LEMMA OneElement == ASSUME NEW a PROVE ToSet(<<a>>) = {a}
  BY DEF ToSet

LEMMA NoElement == ToSet(<< >>) = {}
  BY DEF ToSet

\* The rows of a query in some order: each once.
LEMMA InSomeOrder ==
  ASSUME NEW S, IsFiniteSet(S)
  PROVE  /\ SetToSeq(S) \in Seq(S) /\ Distinct(SetToSeq(S)) /\ ToSet(SetToSeq(S)) = S
         /\ SetToSeq(S) = << >> <=> S = {}
<1> DEFINE n == Cardinality(S)
<1>1. n \in Nat
  BY FS_CardinalityType
<1>2. PICK f : f \in Bijection(1 .. n, S)
  BY FS_CardinalityType DEF ExistsBijection
<1>3. f \in [1 .. n -> S] /\ IsInjective(f)
  BY <1>2 DEF Bijection, Injection
<1> DEFINE s == SetToSeq(S)
<1>4. s \in [1 .. n -> S] /\ IsInjective(s)
  BY <1>3 DEF SetToSeq
<1>5. s \in Seq(S) /\ Len(s) = n /\ DOMAIN s = 1 .. n
  BY <1>1, <1>4
<1>6. s \in Injection(1 .. n, S)
  BY <1>4 DEF Injection
<1>7. Cardinality(1 .. n) = n
  BY <1>1, FS_Interval
<1>8. s \in Surjection(1 .. n, S)
  <2> HIDE DEF s
  <2> QED BY <1>6, <1>7, FS_Injection
<1>9. ToSet(s) = S
  BY <1>4, <1>5, <1>8 DEF ToSet, Surjection
<1>10. Distinct(s)
  BY <1>4, <1>5 DEF Distinct, IsInjective
<1>11. s = << >> <=> S = {}
  <2>1. S = {} <=> n = 0
    BY FS_EmptySet
  <2> HIDE DEF s
  <2> QED BY <2>1, <1>1, <1>5
<1> QED BY <1>5, <1>9, <1>10, <1>11

-----------------------------------------------------------------------------
\* A post whose timestamp is still to come.
Stamping(t) == t.pc \in {"create", "read", "insert"} /\ t.req.op \in {"create", "reply"}

LEMMA UnstampedFinite == IsFiniteSet(Unstamped) /\ Cardinality(Unstamped) \in Nat
<1>1. Unstamped \in SUBSET Procs
  BY DEF Unstamped
<1> QED BY <1>1, FiniteAssumption, FS_Subset, FS_CardinalityType

\* A step of p that commits nothing keeps what is known of the clock.
LEMMA ClockStep ==
  ASSUME TablesOK, ClockOK, tx \in [Procs -> Txs], NEW p \in Procs,
         UNCHANGED db, tx' = [tx EXCEPT ![p] = tx'[p]], tx'[p].w.at <= clock',
         \/ clock' = clock /\ (Stamping(tx'[p]) => Stamping(tx[p]))
         \/ clock' = clock /\ clock + Cardinality(Unstamped) < MaxClock
         \/ clock' = clock + 1 /\ Stamping(tx[p]) /\ ~ Stamping(tx'[p])
  PROVE  ClockOK' /\ clock' \in Nat /\ clock' >= clock
<1>1. tx' \in [Procs -> {tx'[o] : o \in Procs}] /\ \A o \in Procs \ {p} : tx'[o] = tx[o]
  OBVIOUS
<1> DEFINE U == Unstamped
           V == {o \in Procs : Stamping(tx'[o])}
<1>2. U = {o \in Procs : Stamping(tx[o])}
  BY DEF Unstamped, Stamping, Op
<1>3. Unstamped' = V
  BY DEF Unstamped, Stamping, Op
<1>4. IsFiniteSet(U) /\ Cardinality(U) \in Nat /\ IsFiniteSet(V) /\ Cardinality(V) \in Nat
  <2>1. V \in SUBSET Procs
    OBVIOUS
  <2> QED BY <2>1, UnstampedFinite, FiniteAssumption, FS_Subset, FS_CardinalityType
<1>5. V \subseteq U \cup {p} /\ (~ Stamping(tx'[p]) => V \subseteq U \ {p})
      /\ (Stamping(tx[p]) => p \in U)
  BY <1>2, <1>1
<1>6. clock \in Nat /\ db.latest <= clock /\ clock + Cardinality(U) <= MaxClock
      /\ \A o \in Procs : tx[o].w.at <= clock
  BY DEF ClockOK
<1>7. clock' \in Nat /\ clock' >= clock /\ MaxClock \in Nat
  BY <1>6, MaxClockAssumption
<1>8. db'.latest <= clock'
  <2>1. db.latest \in Nat
    BY DEF TablesOK, Tables, Instants, ZeroTime
  <2> QED BY <1>6, <1>7, <2>1
<1>9. \A o \in Procs : tx'[o].w.at <= clock'
  <2>1. ASSUME NEW o \in Procs \ {p} PROVE tx'[o].w.at <= clock'
    <3>1. tx[o].w.at \in Nat
      BY DEF Txs, Pendings, Instants, ZeroTime
    <3> QED BY <3>1, <1>1, <1>6, <1>7
  <2> QED BY <2>1
<1>10. clock' + Cardinality(V) <= MaxClock
  <2> HIDE DEF U, V
  <2>1. CASE clock' = clock /\ (Stamping(tx'[p]) => Stamping(tx[p]))
    <3>1. V \in SUBSET U
      BY <2>1, <1>5
    <3>2. Cardinality(V) <= Cardinality(U)
      BY <3>1, <1>4, FS_Subset
    <3> QED BY <3>2, <2>1, <1>4, <1>6, <1>7
  <2>2. CASE clock' = clock /\ clock + Cardinality(Unstamped) < MaxClock
    <3>1. IsFiniteSet(U \cup {p}) /\ Cardinality(U \cup {p}) <= Cardinality(U) + 1
      <4>1. /\ IsFiniteSet(U \cup {p})
            /\ Cardinality(U \cup {p}) = IF p \in U THEN Cardinality(U) ELSE Cardinality(U) + 1
        BY <1>4, FS_AddElement
      <4> QED BY <4>1, <1>4
    <3>2. Cardinality(V) <= Cardinality(U \cup {p}) /\ Cardinality(U \cup {p}) \in Nat
      BY <3>1, <1>5, FS_Subset, FS_CardinalityType
    <3>3. clock + Cardinality(U) < MaxClock
      BY <2>2 DEF U
    <3> QED BY <3>1, <3>2, <3>3, <2>2, <1>4, <1>6, <1>7
  <2>3. CASE clock' = clock + 1 /\ Stamping(tx[p]) /\ ~ Stamping(tx'[p])
    <3>1. IsFiniteSet(U \ {p}) /\ Cardinality(U \ {p}) = Cardinality(U) - 1
      BY <2>3, <1>4, <1>5, FS_RemoveElement
    <3>2. Cardinality(V) <= Cardinality(U \ {p})
      BY <3>1, <2>3, <1>5, FS_Subset
    <3> QED BY <3>1, <3>2, <2>3, <1>4, <1>6, <1>7
  <2> QED BY <2>1, <2>2, <2>3
<1> QED BY <1>3, <1>6, <1>7, <1>8, <1>9, <1>10 DEF ClockOK

\* A timestamp is left for a post that has none yet.
LEMMA OneInstantLeft ==
  ASSUME TablesOK, ClockOK, NEW p \in Procs, tx[p].pc \in {"create", "read", "insert"},
         tx[p].req.op \in {"create", "reply"}
  PROVE  clock + 1 \in Instants /\ clock + 1 > db.latest /\ clock \in Nat
<1>1. p \in Unstamped
  BY DEF Unstamped, Op
<1>2. Cardinality(Unstamped) # 0
  BY <1>1, UnstampedFinite, FS_EmptySet
<1>3. clock + Cardinality(Unstamped) <= MaxClock /\ clock \in Nat /\ db.latest <= clock
  BY DEF ClockOK
<1>4. db.latest \in Nat
  BY DEF TablesOK, Tables, Instants, ZeroTime
<1> QED BY <1>2, <1>3, <1>4, UnstampedFinite, MaxClockAssumption DEF Instants

\* A step of p that commits nothing leaves the others' transactions as they
\* were: what is to be shown of it is about p alone.
LEMMA LocalStep ==
  ASSUME BoardTxInv, NEW p \in Procs,
         UNCHANGED <<db, got, told>>,
         tx' = [tx EXCEPT ![p] = tx'[p]],
         Sound(tx'[p], db),
         tx'[p].lock => tx[p].lock \/ ~ OthersLock(p),
         tx'[p].req.op = "create" =>
            \A o \in Procs \ {p} : tx[o].req.op = "create" => tx[o].req.thread # tx'[p].req.thread,
         tx'[p].w.at <= clock',
         \/ clock' = clock /\ (Stamping(tx'[p]) => Stamping(tx[p]))
         \/ clock' = clock /\ clock + Cardinality(Unstamped) < MaxClock
         \/ clock' = clock + 1 /\ Stamping(tx[p]) /\ ~ Stamping(tx'[p])
  PROVE  BoardTxInv'
<1>1. tx \in [Procs -> Txs] /\ tx'[p] \in Txs
  BY DEF BoardTxInv, TransactionsOK, Sound
<1>2. tx' \in [Procs -> Txs] /\ \A o \in Procs \ {p} : tx'[o] = tx[o]
  BY <1>1
<1>3. TablesOK'
  BY DEF BoardTxInv, TablesOK
<1>4. TransactionsOK'
  <2>1. \A o \in Procs : Sound(tx'[o], db')
    BY <1>2 DEF BoardTxInv, TransactionsOK
  <2>2. \A x, o \in Procs : tx'[x].lock /\ tx'[o].lock => x = o
    BY <1>2 DEF BoardTxInv, TransactionsOK, OthersLock
  <2>3. \A x, o \in Procs :
          tx'[x].req.op = "create" /\ tx'[o].req.op = "create"
          /\ tx'[x].req.thread = tx'[o].req.thread => x = o
    BY <1>2 DEF BoardTxInv, TransactionsOK, Thread
  <2> QED BY <1>2, <2>1, <2>2, <2>3 DEF TransactionsOK, Thread
<1>5. ClockOK'
  BY <1>1, ClockStep DEF BoardTxInv
<1> QED BY <1>3, <1>4, <1>5 DEF BoardTxInv

LEMMA IdleType == Idle \in Txs
<1>1. NoWrites \in Pendings
  BY DEF NoWrites, Pendings, ZeroTime
<1>2. NoView \in Views /\ NoCall \in Calls \cup {NoCall} /\ "idle" \in Pcs
  BY DEF Views, Pcs
<1>3. [t \in Threads |-> NoRow] \in [Threads -> Cursors] /\ << >> \in Seq(Actors) \cup Seq(Threads)
  BY DEF Cursors
<1> QED BY <1>1, <1>2, <1>3 DEF Idle, Txs

\* A request that ends without committing (not found, SQLITE_BUSY).
LEMMA AbortStep ==
  ASSUME BoardTxInv, NEW p \in Procs, Abort(p)
  PROVE  BoardTxInv'
<1>1. tx \in [Procs -> Txs] /\ tx[p] \in Txs
  BY DEF BoardTxInv, TransactionsOK
<1>2. tx'[p] = Idle
  BY <1>1 DEF Abort
<1>3. Sound(Idle, db)
  BY IdleType DEF Sound, Idle, OpSound, NoView, NoCall
<1>4. Idle.w.at <= clock
  BY DEF Idle, NoWrites, ZeroTime, BoardTxInv, ClockOK
<1>5. ~ Stamping(Idle) /\ ~ Idle.lock /\ Idle.req.op # "create"
  BY DEF Idle, NoCall, Stamping
<1> QED BY <1>1, <1>2, <1>3, <1>4, <1>5, LocalStep DEF Abort

\* A request arrives; a new thread's id is nobody else's.
LEMMA StartStep ==
  ASSUME BoardTxInv, NEW p \in Procs, NEW r \in Calls, Start(p, r)
  PROVE  BoardTxInv'
<1> DEFINE u == [Idle EXCEPT !.pc = FirstStatement(r.op), !.req = r]
<1>1. tx \in [Procs -> Txs] /\ tx[p] \in Txs /\ tx'[p] = u
  BY DEF BoardTxInv, TransactionsOK, Start
<1>2. /\ u.pc = FirstStatement(r.op) /\ u.req = r /\ u.view = NoView /\ u.lock = FALSE
      /\ u.stale = FALSE /\ u.w = NoWrites /\ u.res = {} /\ u.news = {}
  BY DEF Idle
<1>3. u \in Txs /\ u.pc # "idle"
  <2>1. FirstStatement(r.op) \in Pcs /\ FirstStatement(r.op) # "idle"
    BY DEF FirstStatement, Pcs, Writing
  <2> QED BY <2>1, <1>2, IdleType DEF Txs
<1>4. r.op = "create" =>
        /\ db.status[r.thread] = "absent"
        /\ \A o \in Procs \ {p} : tx[o].req.op = "create" => tx[o].req.thread # r.thread
  <2>1. ASSUME NEW o \in Procs, tx[o].req.op = "create" PROVE tx[o].pc # "idle"
    BY <2>1 DEF BoardTxInv, TransactionsOK, Sound, Idle, NoCall
  <2>2. ASSUME r.op = "create" PROVE tx[p].req.op # "create"
    BY DEF Start, Active, BoardTxInv, TransactionsOK, Sound, Idle, NoCall
  <2> QED BY <2>1, <2>2 DEF Start, Active, Op, Thread
<1>5. OpSound(u, db)
  <2>1. r.op = "create" => CreateSound(u, db)
    BY <1>2, <1>4 DEF CreateSound, FirstStatement, NoView
  <2>2. r.op \in {"reply", "watch"} => JoinSound(u, db)
    BY <1>2 DEF JoinSound, FirstStatement, NoView
  <2>3. r.op = "unwatch" => UnwatchSound(u, db)
    BY <1>2 DEF UnwatchSound, FirstStatement, NoView
  <2>4. r.op = "catchup" => CatchUpSound(u, db)
    BY <1>2 DEF CatchUpSound, FirstStatement, NoView
  <2> HIDE DEF u
  <2> QED BY <1>2, <2>1, <2>2, <2>3, <2>4 DEF OpSound
<1>6. Sound(u, db)
  <2> HIDE DEF u
  <2> QED BY <1>2, <1>3, <1>5 DEF Sound, ReadBy, NoView
<1>7. u.w.at <= clock
  BY <1>2 DEF NoWrites, ZeroTime, BoardTxInv, ClockOK
<1>8. /\ tx' = [tx EXCEPT ![p] = u] /\ UNCHANGED <<db, clock, got, told>>
      /\ Stamping(u) => clock + Cardinality(Unstamped) < MaxClock
  BY <1>2 DEF Start, Stamping
<1> HIDE DEF u
<1> QED BY <1>1, <1>2, <1>4, <1>6, <1>7, <1>8, LocalStep

-----------------------------------------------------------------------------
\* Who can write on SQLite reads what is committed.
LEMMA WriterReads ==
  ASSUME Backend = "sqlite", BoardTxInv, NEW p \in Procs, CanWrite(p)
  PROVE  ReadBy(tx[p], db) = db /\ ~ tx[p].stale /\ ~ OthersLock(p)
BY DEF CanWrite, BoardTxInv, TransactionsOK, Sound, ReadBy

\* What the statements of a transaction under way have in common: it is to be
\* shown that what they leave pending is right for the tables it reads.
LEMMA ContinueStep ==
  ASSUME BoardTxInv, NEW p \in Procs, NEW u, u \in Txs, tx[p].pc # "idle", u.pc # "idle",
         UNCHANGED <<db, got, told>>,
         tx' = [tx EXCEPT ![p] = u],
         u.req = tx[p].req, u.stale = tx[p].stale,
         u.view = tx[p].view \/ u.view = [taken |-> TRUE, db |-> db],
         IF u.lock THEN ~ tx[p].stale /\ (tx[p].lock \/ ~ OthersLock(p))
                   ELSE ~ tx[p].lock /\ u.w = tx[p].w,
         OpSound(u, ReadBy(u, db)),
         Stamping(u) => Stamping(tx[p]),
         \/ clock' = clock /\ u.w.at = tx[p].w.at
         \/ clock' = clock + 1 /\ u.w.at = clock' /\ Stamping(tx[p]) /\ ~ Stamping(u)
  PROVE  BoardTxInv'
<1>1. tx \in [Procs -> Txs] /\ tx'[p] = u /\ Sound(tx[p], db)
  BY DEF BoardTxInv, TransactionsOK
<1>2. Sound(u, db)
  <2>1. u.req \in Calls
    BY <1>1 DEF Sound
  <2>2. ~ u.lock => u.w = NoWrites
    BY <1>1 DEF Sound
  <2>3. u.view.taken /\ ~ u.stale => u.view.db = db
    BY <1>1 DEF Sound
  <2> QED BY <2>1, <2>2, <2>3 DEF Sound
<1>3. u.w.at <= clock'
  <2>1. tx[p].w.at <= clock /\ clock \in Nat
    BY DEF BoardTxInv, ClockOK
  <2> QED BY <2>1
<1>4. u.req.op = "create" =>
        \A o \in Procs \ {p} : tx[o].req.op = "create" => tx[o].req.thread # u.req.thread
  BY DEF BoardTxInv, TransactionsOK, Thread
<1>5. tx' = [tx EXCEPT ![p] = tx'[p]]
  BY <1>1
<1>6. u.lock => tx[p].lock \/ ~ OthersLock(p)
  OBVIOUS
<1> QED BY <1>1, <1>2, <1>3, <1>4, <1>5, <1>6, LocalStep

\* thread_repo.go CreateThread: all its rows are pending at once.
LEMMA CreateThreadStep ==
  ASSUME Backend = "sqlite", BoardTxInv, NEW p \in Procs, CreateThread(p)
  PROVE  BoardTxInv'
<1> DEFINE t == tx[p]
           w == Creating(t.req, clock + 1)
           u == [[t EXCEPT !.pc = "commit", !.w = w] EXCEPT !.lock = (Backend = "sqlite")]
<1>1. t \in Txs /\ t.pc = "create" /\ t.req \in Calls /\ OpSound(t, ReadBy(t, db))
  BY DEF CreateThread, BoardTxInv, TransactionsOK, Sound
<1>2. t.req.op = "create" /\ CreateSound(t, db)
  BY <1>1, CallTypes DEF OpSound, JoinSound, UnwatchSound, CatchUpSound, CreateSound, ReadBy
<1>3. ReadBy(t, db) = db /\ ~ t.stale /\ ~ OthersLock(p)
  BY WriterReads DEF CreateThread, Writes
<1>4. clock + 1 \in Instants /\ clock + 1 > db.latest /\ clock \in Nat
  BY <1>1, <1>2, OneInstantLeft DEF BoardTxInv
<1>5. w \in Pendings /\ w.at = clock + 1
  <2>1. t.req.actor \in Actors /\ t.req.thread \in Threads /\ t.req.mentioned \in SUBSET Actors
    BY <1>1, <1>2, CallTypes
  <2>2. MentionRows(t.req, clock + 1) \in SUBSET Serial!Mentions
    BY <2>1, <1>4 DEF MentionRows, Serial!Mentions
  <2>3. [q \in Pairs |-> IF q = <<t.req.actor, t.req.thread>> THEN clock + 1 ELSE Kept]
          \in [Pairs -> Cursors \cup {Kept}]
    BY <1>4 DEF Cursors
  <2> QED BY <2>1, <2>2, <2>3, <1>4 DEF Creating, Pendings, Pairs
<1>6. /\ u.pc = "commit" /\ u.req = t.req /\ u.view = t.view /\ u.stale = t.stale
      /\ u.lock = TRUE /\ u.w = w
  BY <1>1 DEF Txs
<1>7. u \in Txs
  BY <1>1, <1>5, <1>6 DEF Txs, Pcs
<1>8. OpSound(u, ReadBy(u, db))
  <2> HIDE DEF u, w
  <2>1. CreateSound(u, db)
    BY <1>2, <1>4, <1>5, <1>6 DEF CreateSound, Stamped, w
  <2>2. ReadBy(u, db) = db
    BY <1>3, <1>6 DEF ReadBy
  <2> QED BY <2>1, <2>2, <1>2, <1>6 DEF OpSound
<1>9. /\ tx' = [tx EXCEPT ![p] = u] /\ UNCHANGED <<db, got, told>> /\ clock' = clock + 1
      /\ Stamping(t) /\ ~ Stamping(u) /\ u.w.at = clock'
  BY <1>1, <1>2, <1>5, <1>6 DEF CreateThread, Writes, Stamping
<1> HIDE DEF u, w
<1> QED BY <1>1, <1>3, <1>6, <1>7, <1>8, <1>9, ContinueStep

\* A reply or a watch at one of its own statements.
LEMMA JoinAt ==
  ASSUME BoardTxInv, NEW p \in Procs,
         tx[p].pc \in {"read", "insert", "watcher", "cursor", "ensure", "mentions"}
  PROVE  /\ tx[p] \in Txs /\ tx[p].req \in Calls
         /\ tx[p].req.op \in {"reply", "watch"}
         /\ tx[p].req.actor \in Actors /\ tx[p].req.thread \in Threads
         /\ JoinSound(tx[p], ReadBy(tx[p], db))
         /\ ~ tx[p].lock => tx[p].w = NoWrites
<1>1. tx[p] \in Txs /\ tx[p].req \in Calls /\ OpSound(tx[p], ReadBy(tx[p], db))
      /\ (~ tx[p].lock => tx[p].w = NoWrites)
  BY DEF BoardTxInv, TransactionsOK, Sound
<1>2. tx[p].req.op \in {"reply", "watch"}
  BY <1>1, CallTypes DEF OpSound, CreateSound, UnwatchSound, CatchUpSound
<1> QED BY <1>1, <1>2, CallTypes DEF OpSound

\* thread_repo.go:125 and thread_watch.go:15, the thread is looked up first.
LEMMA FirstThreadStep ==
  ASSUME Backend = "sqlite", BoardTxInv, NEW p \in Procs, FirstThread(p)
  PROVE  BoardTxInv'
<1> DEFINE t == tx[p]
           v == [taken |-> TRUE, db |-> db]
           x == [t EXCEPT !.pc = "insert", !.view = TakenView]
           y == [t EXCEPT !.pc = "watcher", !.view = TakenView, !.todo = <<t.req.actor>>]
<1>1. /\ t \in Txs /\ t.pc = "read" /\ t.req \in Calls /\ t.req.op \in {"reply", "watch"}
      /\ t.req.actor \in Actors /\ t.req.thread \in Threads /\ ~ t.lock /\ t.w = NoWrites
  BY JoinAt DEF FirstThread, JoinSound
<1>2. TakenView = v /\ v \in Views /\ v.taken = TRUE /\ v.db = db
  BY DEF TakenView, Views, BoardTxInv, TablesOK
<1>3. CASE db.status[t.req.thread] = "absent"
  BY <1>3, AbortStep DEF FirstThread, Thread
<1>4. CASE db.status[t.req.thread] # "absent" /\ t.req.op = "reply"
  <2>1. /\ x.pc = "insert" /\ x.view = v /\ x.req = t.req /\ x.stale = t.stale
        /\ x.lock = t.lock /\ x.w = t.w
    BY <1>1, <1>2 DEF Txs
  <2>2. x \in Txs
    BY <1>1, <1>2 DEF Txs, Pcs, Writing
  <2>3. tx' = [tx EXCEPT ![p] = x] /\ UNCHANGED <<db, clock, got, told>>
    BY <1>4 DEF FirstThread, Reads, Thread, Op
  <2> HIDE DEF x, v
  <2>4. ReadBy(x, db) = db
    BY <1>2, <2>1 DEF ReadBy
  <2>5. OpSound(x, db)
    BY <1>1, <1>2, <1>4, <2>1 DEF OpSound, JoinSound
  <2> QED BY <1>1, <1>2, <1>4, <2>1, <2>2, <2>3, <2>4, <2>5, ContinueStep DEF v, Stamping
<1>5. CASE db.status[t.req.thread] # "absent" /\ t.req.op = "watch"
  <2>1. /\ y.pc = "watcher" /\ y.view = v /\ y.req = t.req /\ y.stale = t.stale
        /\ y.lock = t.lock /\ y.w = t.w /\ y.todo = <<t.req.actor>>
    BY <1>1, <1>2 DEF Txs
  <2>2. y \in Txs
    <3>1. <<t.req.actor>> \in Seq(Actors) /\ "watcher" \in Pcs /\ TakenView \in Views
      BY <1>1, <1>2 DEF Pcs, Writing
    <3> QED BY <3>1, <1>1 DEF Txs
  <2>3. tx' = [tx EXCEPT ![p] = y] /\ UNCHANGED <<db, clock, got, told>>
    BY <1>5 DEF FirstThread, Reads, Thread, Op, Actor
  <2> HIDE DEF y, v
  <2>4. ReadBy(y, db) = db
    BY <1>2, <2>1 DEF ReadBy
  <2>5. y.todo # << >> /\ y.todo \in Seq(Actors) /\ ToSet(y.todo) = {t.req.actor}
    BY <1>1, <2>1, OneElement
  <2>6. PendingJoin(y, db)
    <3>1. JoinedRows(y, db)
      BY <1>1, <1>5, <2>1, <2>5 DEF JoinedRows, Wanted, NoWrites
    <3>2. CursorRows(y, db)
      BY <1>1, <1>5, <2>1 DEF CursorRows, EnsuredRow, NoWrites
    <3> QED BY <1>1, <1>5, <2>1, <3>1, <3>2 DEF PendingJoin, PendingPost, NoWrites
  <2>7. OpSound(y, db)
    BY <1>1, <1>2, <1>5, <2>1, <2>5, <2>6 DEF OpSound, JoinSound, Wanted
  <2> QED BY <1>1, <1>2, <1>5, <2>1, <2>2, <2>3, <2>4, <2>7, ContinueStep DEF v, Stamping
<1> QED BY <1>1, <1>3, <1>4, <1>5

\* The reply itself takes its timestamp.
LEMMA InsertReplyStep ==
  ASSUME Backend = "sqlite", BoardTxInv, NEW p \in Procs, InsertReply(p)
  PROVE  BoardTxInv'
<1> DEFINE t == tx[p]
           w == Replying(t.req, clock + 1)
           s == <<t.req.actor>> \o t.req.extras
           u == [[t EXCEPT !.pc = "watcher", !.w = w, !.todo = s] EXCEPT !.lock = (Backend = "sqlite")]
<1>1. /\ t \in Txs /\ t.pc = "insert" /\ t.req \in Calls /\ t.req.op = "reply"
      /\ t.req.actor \in Actors /\ t.req.thread \in Threads /\ t.req.extras \in Seq(Actors)
      /\ JoinSound(t, ReadBy(t, db))
  <2>1. t.pc = "insert"
    BY DEF InsertReply
  <2> QED BY <2>1, JoinAt, CallTypes DEF JoinSound
<1>2. ReadBy(t, db) = db /\ ~ t.stale /\ ~ OthersLock(p) /\ t.view.taken
      /\ db.status[t.req.thread] # "absent"
  <2>1. ReadBy(t, db) = db /\ ~ t.stale /\ ~ OthersLock(p)
    BY WriterReads DEF InsertReply, Writes
  <2> QED BY <2>1, <1>1 DEF JoinSound
<1>3. clock + 1 \in Instants /\ clock + 1 > db.latest /\ clock \in Nat
  BY <1>1, OneInstantLeft DEF BoardTxInv
<1>4. /\ w.at = clock + 1 /\ w.opened = {} /\ w.joined = {} /\ w.left = {}
      /\ w.mentions = {} /\ w.seen = {} /\ w.lastRead = [q \in Pairs |-> Kept]
      /\ w.replies = {[thread |-> t.req.thread, author |-> t.req.actor, at |-> clock + 1]}
  BY DEF Replying, NoWrites
<1>5. w \in Pendings
  <2>1. {[thread |-> t.req.thread, author |-> t.req.actor, at |-> clock + 1]}
           \in SUBSET Serial!Replies
    BY <1>1, <1>3 DEF Serial!Replies
  <2>2. [q \in Pairs |-> Kept] \in [Pairs -> Cursors \cup {Kept}]
    OBVIOUS
  <2> QED BY <1>3, <2>1, <2>2 DEF Replying, NoWrites, Pendings
<1>6. s # << >> /\ s \in Seq(Actors) /\ ToSet(s) = Wanted(t.req)
  BY <1>1, ConsSet DEF Wanted
<1>7. /\ u.pc = "watcher" /\ u.req = t.req /\ u.view = t.view /\ u.stale = t.stale
      /\ u.lock = TRUE /\ u.w = w /\ u.todo = s
  BY <1>1 DEF Txs
<1>8. u \in Txs
  <2> HIDE DEF w, s
  <2> QED BY <1>1, <1>5, <1>6 DEF Txs, Pcs, Writing
<1>9. /\ tx' = [tx EXCEPT ![p] = u] /\ UNCHANGED <<db, got, told>> /\ clock' = clock + 1
      /\ Stamping(t) /\ ~ Stamping(u) /\ u.w.at = clock'
  BY <1>1, <1>4, <1>7 DEF InsertReply, Writes, Stamping, Actor
<1> HIDE DEF u, s
<1>10. PendingJoin(u, db)
  <2>1. JoinedRows(u, db)
    BY <1>4, <1>6, <1>7 DEF JoinedRows
  <2>2. CursorRows(u, db)
    BY <1>1, <1>4, <1>7 DEF CursorRows, EnsuredRow, UpsertedRow
  <2>3. PendingPost(u, db)
    BY <1>1, <1>3, <1>4, <1>7 DEF PendingPost, Stamped, w
  <2> HIDE DEF w
  <2> QED BY <1>4, <1>7, <2>1, <2>2, <2>3 DEF PendingJoin
<1> HIDE DEF w
<1>11. OpSound(u, ReadBy(u, db))
  <2>1. ReadBy(u, db) = db
    BY <1>2, <1>7 DEF ReadBy
  <2>2. JoinSound(u, db)
    BY <1>1, <1>2, <1>6, <1>7, <1>10 DEF JoinSound
  <2> QED BY <2>1, <2>2, <1>1, <1>7 DEF OpSound
<1> QED BY <1>1, <1>2, <1>7, <1>8, <1>9, <1>11, ContinueStep

\* The writing statements of a reply or a watch after its first.
LEMMA JoinWriteStep ==
  ASSUME Backend = "sqlite", BoardTxInv, NEW p \in Procs, CanWrite(p),
         tx[p].pc \in {"watcher", "cursor", "ensure", "mentions"},
         NEW u, u \in Txs, tx' = [tx EXCEPT ![p] = u], UNCHANGED <<db, clock, got, told>>,
         u.req = tx[p].req, u.view = tx[p].view, u.stale = tx[p].stale, u.lock = TRUE,
         u.w.at = tx[p].w.at,
         u.pc \in {"watcher", "cursor", "ensure", "mentions", "commit"},
         u.req.op = "watch" => u.pc \notin {"cursor", "mentions"},
         u.pc \in {"watcher", "ensure"} =>
            /\ u.todo # << >> /\ u.todo \in Seq(Actors)
            /\ ToSet(u.todo) \subseteq IF u.pc = "watcher" THEN Wanted(u.req) ELSE Ensured(u.req),
         PendingJoin(u, db)
  PROVE  BoardTxInv'
<1>1. /\ tx[p].req \in Calls /\ tx[p].req.op \in {"reply", "watch"}
      /\ JoinSound(tx[p], ReadBy(tx[p], db))
  BY JoinAt
<1>2. ReadBy(tx[p], db) = db /\ ~ tx[p].stale /\ ~ OthersLock(p)
  BY WriterReads
<1>3. u.view.taken /\ db.status[u.req.thread] # "absent"
  BY <1>1, <1>2 DEF JoinSound
<1>4. JoinSound(u, db)
  BY <1>1, <1>3 DEF JoinSound
<1>5. OpSound(u, ReadBy(u, db))
  <2>1. ReadBy(u, db) = db
    BY <1>2 DEF ReadBy
  <2> QED BY <2>1, <1>1, <1>4 DEF OpSound
<1> QED BY <1>2, <1>5, ContinueStep DEF Stamping

\* What a reply or a watch has pending at one of those.
LEMMA JoinPending ==
  ASSUME Backend = "sqlite", BoardTxInv, NEW p \in Procs, CanWrite(p),
         tx[p].pc \in {"watcher", "cursor", "ensure", "mentions"}
  PROVE  /\ tx[p] \in Txs /\ tx[p].w \in Pendings
         /\ tx[p].req.op \in {"reply", "watch"}
         /\ tx[p].req.actor \in Actors /\ tx[p].req.thread \in Threads
         /\ OwnOf(tx[p].req) \in Pairs
         /\ tx[p].req.op = "watch" => tx[p].pc \notin {"cursor", "mentions"}
         /\ tx[p].pc \in {"watcher", "ensure"} =>
              /\ tx[p].todo # << >> /\ tx[p].todo \in Seq(Actors)
              /\ Head(tx[p].todo) \in Actors /\ Tail(tx[p].todo) \in Seq(Actors)
              /\ ToSet(tx[p].todo) = {Head(tx[p].todo)} \cup ToSet(Tail(tx[p].todo))
              /\ ToSet(tx[p].todo) \subseteq IF tx[p].pc = "watcher" THEN Wanted(tx[p].req)
                                                                 ELSE Ensured(tx[p].req)
              /\ HeadPair(p) \in Pairs
         /\ PendingJoin(tx[p], db)
<1>1. /\ tx[p] \in Txs /\ tx[p].req \in Calls /\ tx[p].req.op \in {"reply", "watch"}
      /\ tx[p].req.actor \in Actors /\ tx[p].req.thread \in Threads
      /\ JoinSound(tx[p], ReadBy(tx[p], db))
  BY JoinAt
<1>2. JoinSound(tx[p], db)
  BY <1>1, WriterReads
<1>3. tx[p].w \in Pendings /\ OwnOf(tx[p].req) \in Pairs
  BY <1>1 DEF Txs, OwnOf, Pairs
<1>4. ASSUME tx[p].pc \in {"watcher", "ensure"}
      PROVE  /\ tx[p].todo # << >> /\ tx[p].todo \in Seq(Actors)
             /\ Head(tx[p].todo) \in Actors /\ Tail(tx[p].todo) \in Seq(Actors)
             /\ ToSet(tx[p].todo) = {Head(tx[p].todo)} \cup ToSet(Tail(tx[p].todo))
             /\ HeadPair(p) \in Pairs
  <2>1. tx[p].todo # << >> /\ tx[p].todo \in Seq(Actors)
    BY <1>2, <1>4 DEF JoinSound
  <2> QED BY <2>1, <1>1, HeadTail DEF HeadPair, Pairs, Thread
<1> QED BY <1>1, <1>2, <1>3, <1>4 DEF JoinSound

\* One more actor watches the thread.
LEMMA InsertWatcherStep ==
  ASSUME Backend = "sqlite", BoardTxInv, NEW p \in Procs, InsertWatcher(p)
  PROVE  BoardTxInv'
<1> DEFINE t == tx[p]
           q == HeadPair(p)
           rest == Tail(t.todo)
           w == IF q \in db.watcher THEN t.w ELSE Joining(t.w, q)
           pc == IF rest # << >> THEN "watcher"
                 ELSE IF t.req.op = "reply" THEN "cursor" ELSE "ensure"
           todo == IF rest # << >> THEN rest
                   ELSE IF t.req.op = "reply" THEN << >> ELSE <<t.req.actor>>
           u == [[t EXCEPT !.pc = pc, !.todo = todo, !.w = w] EXCEPT !.lock = TRUE]
<1>1. t.pc = "watcher" /\ CanWrite(p)
  BY DEF InsertWatcher, Writes
<1>2. /\ t \in Txs /\ t.w \in Pendings /\ t.req.op \in {"reply", "watch"}
      /\ t.req.actor \in Actors /\ t.req.thread \in Threads
      /\ t.todo # << >> /\ t.todo \in Seq(Actors)
      /\ Head(t.todo) \in Actors /\ rest \in Seq(Actors)
      /\ ToSet(t.todo) = {Head(t.todo)} \cup ToSet(rest)
      /\ ToSet(t.todo) \subseteq Wanted(t.req)
      /\ q \in Pairs /\ q = <<Head(t.todo), t.req.thread>>
      /\ PendingJoin(t, db)
  BY <1>1, JoinPending DEF HeadPair, Thread
<1>3. /\ w \in Pendings /\ w.joined \subseteq t.w.joined \cup {q}
      /\ t.w.joined \subseteq w.joined /\ q \in db.watcher \cup w.joined
      /\ w.opened = t.w.opened /\ w.replies = t.w.replies /\ w.left = t.w.left
      /\ w.lastRead = t.w.lastRead /\ w.mentions = t.w.mentions /\ w.seen = t.w.seen
      /\ w.at = t.w.at
  BY <1>2 DEF Joining, Pendings
<1>4. todo \in Seq(Actors) /\ pc \in Pcs
  BY <1>2 DEF Pcs, Writing
<1> HIDE DEF w
<1>5. /\ u.pc = pc /\ u.req = t.req /\ u.view = t.view /\ u.stale = t.stale
      /\ u.lock = TRUE /\ u.w = w /\ u.todo = todo /\ u \in Txs
  <2> HIDE DEF pc, todo
  <2> QED BY <1>2, <1>3, <1>4 DEF Txs
<1>6. tx' = [tx EXCEPT ![p] = u] /\ UNCHANGED <<db, clock, got, told>>
  <2>1. UNCHANGED <<db, clock, got, told>>
    BY DEF InsertWatcher, Writes
  <2>2. CASE rest # << >>
    <3>1. tx' = [tx EXCEPT ![p] = [[t EXCEPT !.todo = rest, !.w = w] EXCEPT !.lock = TRUE]]
      BY <2>2 DEF InsertWatcher, Writes, w, W
    <3>2. [[t EXCEPT !.todo = rest, !.w = w] EXCEPT !.lock = TRUE] = u
      BY <1>1, <1>2, <2>2 DEF Txs
    <3> QED BY <2>1, <3>1, <3>2
  <2>3. CASE rest = << >>
    BY <2>1, <2>3, <1>2 DEF InsertWatcher, Writes, w, W, Op, Actor
  <2> QED BY <2>2, <2>3
<1> HIDE DEF u
<1>7. JoinedRows(u, db)
  <2>1. w.joined \subseteq Wanted(t.req) \X {t.req.thread}
    BY <1>2, <1>3 DEF PendingJoin, JoinedRows
  <2>2. ASSUME NEW a \in Wanted(t.req), <<a, t.req.thread>> \notin db.watcher \cup w.joined
        PROVE  pc = "watcher" /\ a \in ToSet(todo)
    <3>1. a \in ToSet(t.todo) /\ a # Head(t.todo)
      BY <2>2, <1>2, <1>3 DEF PendingJoin, JoinedRows
    <3>2. a \in ToSet(rest) /\ rest # << >>
      BY <3>1, <1>2, NoElement
    <3> QED BY <3>2
  <2> QED BY <1>5, <2>1, <2>2 DEF JoinedRows
<1>8. CursorRows(u, db)
  <2>1. t.req.op = "watch" /\ pc = "ensure" => ToSet(todo) = {t.req.actor}
    BY OneElement
  <2>2. \A x \in Pairs : t.w.lastRead[x] = Kept
    BY <1>1, <1>2 DEF PendingJoin, CursorRows, EnsuredRow, UpsertedRow
  <2> QED BY <1>2, <1>3, <1>5, <2>1, <2>2 DEF CursorRows, EnsuredRow, UpsertedRow, Ensured
<1>9. PendingJoin(u, db)
  <2>1. PendingPost(u, db)
    BY <1>1, <1>2, <1>3, <1>5 DEF PendingJoin, PendingPost, Stamped
  <2> QED BY <1>2, <1>3, <1>5, <1>7, <1>8, <2>1 DEF PendingJoin
<1>10. u.pc \in {"watcher", "ensure"} =>
            /\ u.todo # << >> /\ u.todo \in Seq(Actors)
            /\ ToSet(u.todo) \subseteq IF u.pc = "watcher" THEN Wanted(u.req) ELSE Ensured(u.req)
  <2>1. CASE rest # << >>
    BY <1>2, <1>5, <2>1
  <2>2. CASE rest = << >> /\ t.req.op = "reply"
    BY <1>5, <2>2
  <2>3. CASE rest = << >> /\ t.req.op # "reply"
    <3>1. todo = <<t.req.actor>> /\ todo # << >> /\ pc = "ensure"
      BY <2>3
    <3>2. ToSet(todo) = Ensured(t.req)
      BY <2>3, <3>1, OneElement DEF Ensured
    <3> QED BY <1>4, <1>5, <3>1, <3>2
  <2> QED BY <2>1, <2>2, <2>3
<1>11. u.pc \in {"watcher", "cursor", "ensure"} /\ (u.req.op = "watch" => u.pc # "cursor")
       /\ u.w.at = t.w.at
  BY <1>3, <1>5
<1> HIDE DEF pc, todo, rest, q
<1> QED BY <1>1, <1>5, <1>6, <1>9, <1>10, <1>11, JoinWriteStep

\* upsertThreadWatch: the author has read what it posts.
LEMMA UpsertCursorStep ==
  ASSUME Backend = "sqlite", BoardTxInv, NEW p \in Procs, UpsertCursor(p)
  PROVE  BoardTxInv'
<1> DEFINE t == tx[p]
           w == SettingRead(t.w, OwnOf(t.req), t.w.at)
           extras == t.req.extras
           pc == IF extras = << >> THEN "mentions" ELSE "ensure"
           u == [[t EXCEPT !.pc = pc, !.todo = extras, !.w = w] EXCEPT !.lock = TRUE]
<1>1. t.pc = "cursor" /\ CanWrite(p)
  BY DEF UpsertCursor, Writes
<1>2. /\ t \in Txs /\ t.w \in Pendings /\ t.req.op = "reply"
      /\ t.req.actor \in Actors /\ t.req.thread \in Threads /\ OwnOf(t.req) \in Pairs
      /\ PendingJoin(t, db)
  BY <1>1, JoinPending
<1>3. t.req \in Calls /\ extras \in Seq(Actors)
  BY <1>1, <1>2, JoinAt, CallTypes
<1>4. t.w.at \in Instants
  BY <1>2 DEF PendingJoin, PendingPost, Stamped
<1>5. /\ w.opened = t.w.opened /\ w.replies = t.w.replies /\ w.left = t.w.left
      /\ w.joined = t.w.joined /\ w.mentions = t.w.mentions /\ w.seen = t.w.seen
      /\ w.at = t.w.at
      /\ w.lastRead = [t.w.lastRead EXCEPT ![OwnOf(t.req)] = t.w.at]
  BY <1>2 DEF SettingRead, Pendings
<1>6. w \in Pendings
  BY <1>2, <1>4 DEF SettingRead, Pendings, Cursors
<1>7. t.w.lastRead \in [Pairs -> Cursors \cup {Kept}]
  BY <1>2 DEF Pendings
<1> HIDE DEF w
<1>8. /\ u.pc = pc /\ u.req = t.req /\ u.view = t.view /\ u.stale = t.stale
      /\ u.lock = TRUE /\ u.w = w /\ u.todo = extras /\ u \in Txs
  <2>1. pc \in Pcs
    BY DEF Pcs, Writing
  <2> HIDE DEF pc, extras
  <2> QED BY <1>2, <1>3, <1>6, <2>1 DEF Txs
<1>9. tx' = [tx EXCEPT ![p] = u] /\ UNCHANGED <<db, clock, got, told>>
  BY DEF UpsertCursor, Writes, w, W, Own, OwnOf, Actor, Thread
<1> HIDE DEF u
<1>10. JoinedRows(u, db)
  BY <1>1, <1>2, <1>5, <1>8 DEF PendingJoin, JoinedRows
<1>11. CursorRows(u, db)
  <2>1. \A x \in Pairs \ {OwnOf(t.req)} : t.w.lastRead[x] = Kept
    BY <1>1, <1>2 DEF PendingJoin, CursorRows, EnsuredRow
  <2>2. \A x \in Pairs : w.lastRead[x] = IF x = OwnOf(t.req) THEN t.w.at ELSE Kept
    BY <2>1, <1>2, <1>5, <1>7
  <2>3. UpsertedRow(u)
    BY <2>2, <1>2, <1>5, <1>8 DEF UpsertedRow
  <2>4. ASSUME NEW x \in Pairs, x # OwnOf(t.req) PROVE EnsuredRow(u, db, x)
    <3>1. u.w.lastRead[x] = Kept
      BY <2>2, <2>4, <1>8
    <3>2. x[1] \in Ensured(t.req) => x[1] \in ToSet(extras) /\ extras # << >>
      BY <1>2, NoElement DEF Ensured
    <3> QED BY <3>1, <3>2, <1>8 DEF EnsuredRow
  <2> QED BY <2>3, <2>4, <1>2, <1>8 DEF CursorRows
<1>12. PendingJoin(u, db)
  <2>1. PendingPost(u, db)
    BY <1>1, <1>2, <1>5, <1>8 DEF PendingJoin, PendingPost, Stamped
  <2> QED BY <1>2, <1>5, <1>8, <1>10, <1>11, <2>1 DEF PendingJoin
<1>13. u.pc \in {"mentions", "ensure"} /\ u.w.at = t.w.at
       /\ (u.pc = "ensure" => u.todo # << >> /\ u.todo \in Seq(Actors)
                              /\ ToSet(u.todo) \subseteq Ensured(u.req))
  BY <1>2, <1>3, <1>5, <1>8 DEF Ensured
<1> HIDE DEF pc, extras
<1> QED BY <1>1, <1>2, <1>8, <1>9, <1>12, <1>13, JoinWriteStep

\* The mentions of a reply.
LEMMA InsertMentionsStep ==
  ASSUME Backend = "sqlite", BoardTxInv, NEW p \in Procs, InsertMentions(p)
  PROVE  BoardTxInv'
<1> DEFINE t == tx[p]
           rows == MentionRows(t.req, t.w.at)
           w == [t.w EXCEPT !.mentions = rows]
           u == [[t EXCEPT !.pc = "commit", !.w = w] EXCEPT !.lock = TRUE]
<1>1. t.pc = "mentions" /\ CanWrite(p)
  BY DEF InsertMentions, Writes
<1>2. /\ t \in Txs /\ t.w \in Pendings /\ t.req.op = "reply"
      /\ PendingJoin(t, db)
  BY <1>1, JoinPending
<1>3. rows \in SUBSET Serial!Mentions
  <2>1. t.req.mentioned \in SUBSET Actors
    BY <1>1, <1>2, JoinAt, CallTypes
  <2>2. t.w.at \in Instants
    BY <1>2 DEF PendingJoin, PendingPost, Stamped
  <2> QED BY <2>1, <2>2 DEF MentionRows, Serial!Mentions
<1> HIDE DEF rows
<1>4. /\ w \in Pendings /\ w.opened = t.w.opened /\ w.replies = t.w.replies
      /\ w.left = t.w.left /\ w.joined = t.w.joined /\ w.mentions = rows
      /\ w.seen = t.w.seen /\ w.at = t.w.at /\ w.lastRead = t.w.lastRead
  BY <1>2, <1>3 DEF Pendings
<1> HIDE DEF w
<1>5. /\ u.pc = "commit" /\ u.req = t.req /\ u.view = t.view /\ u.stale = t.stale
      /\ u.lock = TRUE /\ u.w = w /\ u \in Txs
  BY <1>2, <1>4 DEF Txs, Pcs
<1>6. tx' = [tx EXCEPT ![p] = u] /\ UNCHANGED <<db, clock, got, told>>
  BY DEF InsertMentions, Writes, w, W, rows
<1> HIDE DEF u
<1>7. PendingJoin(u, db)
  <2>1. JoinedRows(u, db)
    BY <1>1, <1>2, <1>4, <1>5 DEF PendingJoin, JoinedRows
  <2>2. CursorRows(u, db)
    BY <1>1, <1>2, <1>4, <1>5 DEF PendingJoin, CursorRows, UpsertedRow, EnsuredRow
  <2>3. PendingPost(u, db)
    BY <1>1, <1>2, <1>4, <1>5 DEF PendingJoin, PendingPost, Stamped, rows
  <2> QED BY <1>2, <1>4, <1>5, <2>1, <2>2, <2>3 DEF PendingJoin
<1> QED BY <1>1, <1>2, <1>4, <1>5, <1>6, <1>7, JoinWriteStep

\* The lock's holder can write.
LEMMA HolderWrites ==
  ASSUME Backend = "sqlite", BoardTxInv, NEW p \in Procs, tx[p].lock
  PROVE  CanWrite(p)
BY DEF CanWrite, OthersLock, BoardTxInv, TransactionsOK, Sound

\* ensureThreadWatch: a cursor where there is none.
LEMMA EnsureCursorStep ==
  ASSUME Backend = "sqlite", BoardTxInv, NEW p \in Procs, EnsureCursor(p)
  PROVE  BoardTxInv'
<1> DEFINE t == tx[p]
           q == HeadPair(p)
           rest == Tail(t.todo)
           own == OwnOf(t.req)
           pass == t.req.op = "reply" /\ q = own
           have == db.lastRead[q] # NoRow \/ t.w.lastRead[q] # Kept
           w == IF pass \/ have THEN t.w ELSE SettingRead(t.w, q, ZeroTime)
           pc == IF rest = << >> THEN AfterEnsure(p) ELSE "ensure"
           u == [[t EXCEPT !.pc = pc, !.todo = rest, !.w = w] EXCEPT !.lock = TRUE]
<1>1. t.pc = "ensure"
  BY DEF EnsureCursor
<1>2. t.lock /\ CanWrite(p)
  BY <1>1, JoinAt, HolderWrites DEF JoinSound, PendingJoin
<1>3. /\ t \in Txs /\ t.w \in Pendings /\ t.req.op \in {"reply", "watch"}
      /\ own \in Pairs
      /\ t.todo # << >> /\ t.todo \in Seq(Actors)
      /\ Head(t.todo) \in Actors /\ rest \in Seq(Actors)
      /\ ToSet(t.todo) = {Head(t.todo)} \cup ToSet(rest)
      /\ ToSet(t.todo) \subseteq Ensured(t.req)
      /\ q \in Pairs /\ q = <<Head(t.todo), t.req.thread>>
      /\ PendingJoin(t, db)
  BY <1>1, <1>2, JoinPending DEF HeadPair, Thread
<1>4. t.w.lastRead \in [Pairs -> Cursors \cup {Kept}]
  BY <1>3 DEF Pendings
<1>5. /\ w \in Pendings /\ w.opened = t.w.opened /\ w.replies = t.w.replies
      /\ w.left = t.w.left /\ w.joined = t.w.joined /\ w.mentions = t.w.mentions
      /\ w.seen = t.w.seen /\ w.at = t.w.at
  BY <1>3 DEF SettingRead, Pendings, Cursors
<1>6. \A x \in Pairs : w.lastRead[x] = IF x = q /\ ~ pass /\ ~ have THEN ZeroTime
                                       ELSE t.w.lastRead[x]
  BY <1>3, <1>4 DEF SettingRead, Pendings
<1> HIDE DEF w
<1>7. pc \in {"ensure", "mentions", "commit"} /\ pc \in Pcs
      /\ (t.req.op = "watch" => pc # "mentions") /\ (t.req.op = "reply" => pc # "commit")
      /\ (pc = "ensure" <=> rest # << >>)
  BY <1>3 DEF AfterEnsure, Op, Pcs, Writing
<1>8. /\ u.pc = pc /\ u.req = t.req /\ u.view = t.view /\ u.stale = t.stale
      /\ u.lock = TRUE /\ u.w = w /\ u.todo = rest /\ u \in Txs
  <2> HIDE DEF pc, rest
  <2> QED BY <1>3, <1>5, <1>7 DEF Txs
<1>9. tx' = [tx EXCEPT ![p] = u] /\ UNCHANGED <<db, clock, got, told>>
  <2>1. CASE pass
    <3>1. /\ tx' = [tx EXCEPT ![p] = [t EXCEPT !.pc = pc, !.todo = rest]]
          /\ UNCHANGED <<db, clock, got, told>>
      BY <2>1 DEF EnsureCursor, Reads, Op, Own, OwnOf, Actor, Thread
    <3>2. [t EXCEPT !.pc = pc, !.todo = rest] = u
      <4>1. w = t.w /\ t.lock = TRUE
        BY <2>1, <1>2, <1>3 DEF w, Txs
      <4> HIDE DEF pc, rest
      <4> QED BY <4>1, <1>3 DEF Txs
    <3> QED BY <3>1, <3>2
  <2>2. CASE ~ pass
    BY <2>2 DEF EnsureCursor, Writes, w, W, Op, Own, OwnOf, Actor, Thread
  <2> QED BY <2>1, <2>2
<1> HIDE DEF u
<1>10. JoinedRows(u, db)
  BY <1>1, <1>3, <1>5, <1>8 DEF PendingJoin, JoinedRows
<1>11. CursorRows(u, db)
  <2>1. ASSUME t.req.op = "reply" PROVE UpsertedRow(u)
    <3>1. t.w.lastRead[own] = t.w.at
      BY <2>1, <1>1, <1>3 DEF PendingJoin, CursorRows, UpsertedRow
    <3>2. w.lastRead[own] = t.w.at
      BY <3>1, <2>1, <1>3, <1>6
    <3> QED BY <3>2, <1>5, <1>7, <1>8 DEF UpsertedRow
  <2>2. ASSUME NEW x \in Pairs, ~ (t.req.op = "reply" /\ x = own) PROVE EnsuredRow(u, db, x)
    <3>1. EnsuredRow(t, db, x)
      BY <2>2, <1>3 DEF PendingJoin, CursorRows
    <3>2. ASSUME w.lastRead[x] # Kept
          PROVE  /\ w.lastRead[x] = ZeroTime /\ db.lastRead[x] = NoRow
                 /\ x[1] \in Ensured(t.req) /\ x[2] = t.req.thread
      <4>1. CASE x = q /\ ~ pass /\ ~ have
        <5>1. w.lastRead[x] = ZeroTime /\ db.lastRead[x] = NoRow
          BY <4>1, <1>6
        <5>2. q[1] = Head(t.todo) /\ q[2] = t.req.thread /\ Head(t.todo) \in Ensured(t.req)
          <6> HIDE DEF q
          <6> QED BY <1>3
        <5> QED BY <4>1, <5>1, <5>2
      <4>2. CASE ~ (x = q /\ ~ pass /\ ~ have)
        BY <4>2, <3>1, <3>2, <1>6 DEF EnsuredRow
      <4> QED BY <4>1, <4>2
    <3>3. ASSUME x[1] \in Ensured(t.req), x[2] = t.req.thread, db.lastRead[x] = NoRow
          PROVE  (pc = "ensure" /\ x[1] \in ToSet(rest)) \/ w.lastRead[x] = ZeroTime
      <4>1. x[1] \in ToSet(t.todo) \/ t.w.lastRead[x] = ZeroTime
        BY <3>1, <3>3, <1>1 DEF EnsuredRow
      <4>2. CASE t.w.lastRead[x] = ZeroTime
        BY <4>2, <1>6
      <4>3. CASE x[1] \in ToSet(rest)
        BY <4>3, <1>7, NoElement
      <4>4. CASE x[1] = Head(t.todo)
        <5>1. x = q
          BY <4>4, <3>3, <1>3 DEF Pairs
        <5>2. ~ pass
          BY <5>1, <2>2
        <5>3. CASE have
          <6>1. t.w.lastRead[x] # Kept
            BY <5>1, <5>3, <3>3
          <6> QED BY <6>1, <3>1, <1>6 DEF EnsuredRow
        <5>4. CASE ~ have
          BY <5>1, <5>2, <5>4, <1>6
        <5> QED BY <5>3, <5>4
      <4> QED BY <4>1, <4>2, <4>3, <4>4, <1>3
    <3> HIDE DEF pc
    <3> QED BY <3>2, <3>3, <1>7, <1>8 DEF EnsuredRow
  <2> QED BY <2>1, <2>2, <1>8 DEF CursorRows
<1>12. PendingJoin(u, db)
  <2>1. PendingPost(u, db)
    BY <1>1, <1>3, <1>5, <1>7, <1>8 DEF PendingJoin, PendingPost, Stamped
  <2> QED BY <1>3, <1>5, <1>8, <1>10, <1>11, <2>1 DEF PendingJoin
<1>13. u.pc \in {"ensure", "mentions", "commit"} /\ u.w.at = t.w.at
       /\ (u.req.op = "watch" => u.pc # "mentions")
       /\ (u.pc = "ensure" => u.todo # << >> /\ u.todo \in Seq(Actors)
                              /\ ToSet(u.todo) \subseteq Ensured(u.req))
  BY <1>3, <1>5, <1>7, <1>8
<1> HIDE DEF pc, rest, q, own
<1> QED BY <1>1, <1>2, <1>8, <1>9, <1>12, <1>13, JoinWriteStep

\* thread_watch.go UnwatchThread: the Watcher row goes, ...
LEMMA DeleteWatcherStep ==
  ASSUME Backend = "sqlite", BoardTxInv, NEW p \in Procs, DeleteWatcher(p)
  PROVE  BoardTxInv'
<1> DEFINE t == tx[p]
           gone == {OwnOf(t.req)} \cap db.watcher
           w == [t.w EXCEPT !.left = gone]
           u == [[t EXCEPT !.pc = "uncursor", !.w = w] EXCEPT !.lock = TRUE]
<1>1. t \in Txs /\ t.pc = "unwatch" /\ t.req \in Calls /\ OpSound(t, ReadBy(t, db))
      /\ (~ t.lock => t.w = NoWrites)
  BY DEF DeleteWatcher, BoardTxInv, TransactionsOK, Sound
<1>2. t.req.op = "unwatch" /\ UnwatchSound(t, ReadBy(t, db)) /\ t.w = NoWrites
  BY <1>1, CallTypes DEF OpSound, CreateSound, JoinSound, UnwatchSound, CatchUpSound
<1>3. ReadBy(t, db) = db /\ ~ t.stale /\ ~ OthersLock(p)
  BY WriterReads DEF DeleteWatcher, Writes
<1>4. gone \in SUBSET Pairs
  BY DEF BoardTxInv, TablesOK, Tables
<1> HIDE DEF gone
<1>5. /\ w \in Pendings /\ w.opened = {} /\ w.replies = {} /\ w.joined = {} /\ w.left = gone
      /\ w.mentions = {} /\ w.seen = {} /\ w.at = ZeroTime
      /\ \A q \in Pairs : w.lastRead[q] = Kept
  <2>1. t.w \in Pendings
    BY <1>1 DEF Txs
  <2>2. w \in Pendings
    BY <2>1, <1>4 DEF Pendings
  <2> QED BY <1>2, <2>2 DEF NoWrites
<1> HIDE DEF w
<1>6. /\ u.pc = "uncursor" /\ u.req = t.req /\ u.view = t.view /\ u.stale = t.stale
      /\ u.lock = TRUE /\ u.w = w /\ u \in Txs
  BY <1>1, <1>5 DEF Txs, Pcs, Writing
<1>7. tx' = [tx EXCEPT ![p] = u] /\ UNCHANGED <<db, clock, got, told>>
  BY DEF DeleteWatcher, Writes, w, W, Own, OwnOf, Actor, Thread, gone
<1> HIDE DEF u
<1>8. OpSound(u, ReadBy(u, db))
  <2>1. ReadBy(u, db) = db
    BY <1>3, <1>6 DEF ReadBy
  <2>2. UnwatchSound(u, db)
    BY <1>2, <1>5, <1>6 DEF UnwatchSound, gone
  <2> QED BY <2>1, <2>2, <1>2, <1>6 DEF OpSound
<1>9. ~ Stamping(u) /\ u.w.at = t.w.at
  BY <1>2, <1>5, <1>6 DEF Stamping, NoWrites
<1> QED BY <1>1, <1>3, <1>6, <1>7, <1>8, <1>9, ContinueStep

\* ... and the cursor with it.
LEMMA DeleteCursorStep ==
  ASSUME Backend = "sqlite", BoardTxInv, NEW p \in Procs, DeleteCursor(p)
  PROVE  BoardTxInv'
<1> DEFINE t == tx[p]
           own == OwnOf(t.req)
           w == IF db.lastRead[own] = NoRow THEN t.w ELSE SettingRead(t.w, own, NoRow)
           u == [[t EXCEPT !.pc = "commit", !.w = w] EXCEPT !.lock = TRUE]
<1>1. t \in Txs /\ t.pc = "uncursor" /\ t.req \in Calls /\ OpSound(t, ReadBy(t, db))
  BY DEF DeleteCursor, BoardTxInv, TransactionsOK, Sound
<1>2. ReadBy(t, db) = db /\ ~ t.stale /\ ~ OthersLock(p)
  BY WriterReads DEF DeleteCursor, Writes
<1>3. t.req.op = "unwatch" /\ UnwatchSound(t, db)
  BY <1>1, <1>2, CallTypes DEF OpSound, CreateSound, JoinSound, UnwatchSound, CatchUpSound
<1>4. own \in Pairs
  BY <1>1, <1>3, CallTypes DEF OwnOf, Pairs
<1>5. /\ t.w \in Pendings /\ t.w.lastRead \in [Pairs -> Cursors \cup {Kept}]
      /\ \A q \in Pairs : t.w.lastRead[q] = Kept
  BY <1>1, <1>3 DEF Txs, Pendings, UnwatchSound
<1>6. /\ w \in Pendings /\ w.opened = t.w.opened /\ w.replies = t.w.replies
      /\ w.left = t.w.left /\ w.joined = t.w.joined /\ w.mentions = t.w.mentions
      /\ w.seen = t.w.seen /\ w.at = t.w.at
  BY <1>5 DEF SettingRead, Pendings, Cursors
<1>7. \A q \in Pairs : w.lastRead[q] = IF q = own /\ db.lastRead[q] # NoRow THEN NoRow ELSE Kept
  BY <1>4, <1>5 DEF SettingRead, Pendings
<1> HIDE DEF w
<1>8. /\ u.pc = "commit" /\ u.req = t.req /\ u.view = t.view /\ u.stale = t.stale
      /\ u.lock = TRUE /\ u.w = w /\ u \in Txs
  BY <1>1, <1>6 DEF Txs, Pcs
<1>9. tx' = [tx EXCEPT ![p] = u] /\ UNCHANGED <<db, clock, got, told>>
  BY DEF DeleteCursor, Writes, w, W, Own, OwnOf, Actor, Thread
<1> HIDE DEF u
<1>10. OpSound(u, ReadBy(u, db))
  <2>1. ReadBy(u, db) = db
    BY <1>2, <1>8 DEF ReadBy
  <2>2. UnwatchSound(u, db)
    BY <1>1, <1>3, <1>6, <1>7, <1>8 DEF UnwatchSound
  <2> QED BY <2>1, <2>2, <1>3, <1>8 DEF OpSound
<1>11. ~ Stamping(u) /\ u.w.at = t.w.at
  BY <1>6, <1>8 DEF Stamping
<1> QED BY <1>1, <1>2, <1>8, <1>9, <1>10, <1>11, ContinueStep

-----------------------------------------------------------------------------
\* A catch_up at one of its statements.
LEMMA CatchUpAt ==
  ASSUME BoardTxInv, NEW p \in Procs,
         tx[p].pc \in {"watches", "replies", "update", "select", "mark"}
  PROVE  /\ tx[p] \in Txs /\ tx[p].w \in Pendings /\ tx[p].req \in Calls
         /\ tx[p].req.op = "catchup" /\ tx[p].req.actor \in Actors
         /\ ReadBy(tx[p], db) \in Tables
         /\ CatchUpSound(tx[p], ReadBy(tx[p], db))
         /\ ~ tx[p].lock => tx[p].w = NoWrites
         /\ tx[p].lock => ~ tx[p].stale
<1>1. tx[p] \in Txs /\ tx[p].req \in Calls /\ OpSound(tx[p], ReadBy(tx[p], db))
      /\ (~ tx[p].lock => tx[p].w = NoWrites) /\ (tx[p].lock => ~ tx[p].stale)
  BY DEF BoardTxInv, TransactionsOK, Sound
<1>2. tx[p].req.op = "catchup"
  BY <1>1, CallTypes DEF OpSound, CreateSound, UnwatchSound, JoinSound
<1>3. ReadBy(tx[p], db) \in Tables
  <2>1. db \in Tables
    BY DEF BoardTxInv, TablesOK
  <2>2. tx[p].view \in Views
    BY <1>1 DEF Txs
  <2>3. tx[p].view.taken => tx[p].view.db \in Tables
    <3>1. CASE tx[p].view = NoView
      BY <3>1 DEF NoView
    <3>2. CASE tx[p].view \in [taken : {TRUE}, db : Tables]
      BY <3>2
    <3> QED BY <2>2, <3>1, <3>2 DEF Views
  <2> QED BY <2>1, <2>3 DEF ReadBy
<1>4. tx[p].w \in Pendings
  BY <1>1 DEF Txs
<1> QED BY <1>1, <1>2, <1>3, <1>4, CallTypes DEF OpSound

\* The loop has one watch behind it more.
LEMMA PassedWatch ==
  ASSUME NEW t, NEW u, t.todo \in Seq(Threads), t.todo # << >>, Distinct(t.todo),
         ToSet(t.todo) \subseteq Watched(t), u.todo = Tail(t.todo), u.rows = t.rows
  PROVE  /\ u.todo \in Seq(Threads) /\ Distinct(u.todo) /\ ToSet(u.todo) \subseteq Watched(u)
         /\ Head(t.todo) \in Threads /\ Head(t.todo) \in Watched(t)
         /\ Head(t.todo) \notin Done(t)
         /\ Done(u) = Done(t) \cup {Head(t.todo)}
<1>1. /\ Head(t.todo) \in Threads /\ Tail(t.todo) \in Seq(Threads)
      /\ ToSet(t.todo) = {Head(t.todo)} \cup ToSet(Tail(t.todo))
      /\ Head(t.todo) \notin ToSet(Tail(t.todo)) /\ Distinct(Tail(t.todo))
  BY HeadTail, DistinctTail
<1>2. Watched(u) = Watched(t)
  BY DEF Watched
<1> QED BY <1>1, <1>2 DEF Done

\* catchup.go: the actor's watches, ...
LEMMA ReadWatchesStep ==
  ASSUME Backend = "sqlite", BoardTxInv, NEW p \in Procs, ReadWatches(p)
  PROVE  BoardTxInv'
<1> DEFINE t == tx[p]
           rows == [s \in Threads |-> db.lastRead[<<t.req.actor, s>>]]
           watched == {s \in Threads : rows[s] # NoRow}
           todo == SetToSeq(watched)
           pc == IF watched = {} THEN "select" ELSE "replies"
           v == [taken |-> TRUE, db |-> db]
           u == [t EXCEPT !.pc = pc, !.view = v, !.todo = todo, !.rows = rows]
<1>1. t.pc = "watches"
  BY DEF ReadWatches
<1>2. /\ t \in Txs /\ t.w \in Pendings /\ t.req \in Calls /\ t.req.op = "catchup"
      /\ t.req.actor \in Actors /\ ~ t.lock /\ t.w = NoWrites /\ t.res = {} /\ t.news = {}
  BY <1>1, CatchUpAt DEF CatchUpSound
<1>3. db \in Tables /\ v \in Views
  BY DEF BoardTxInv, TablesOK, Views
<1>4. rows \in [Threads -> Cursors]
  BY <1>2, <1>3 DEF Tables, Pairs
<1>5. todo \in Seq(Threads) /\ Distinct(todo) /\ ToSet(todo) = watched
      /\ (todo = << >> <=> watched = {})
  <2>1. IsFiniteSet(watched)
    <3>1. watched \in SUBSET Threads
      OBVIOUS
    <3> HIDE DEF watched
    <3> QED BY <3>1, FiniteAssumption, FS_Subset
  <2>2. watched \subseteq Threads
    OBVIOUS
  <2> HIDE DEF watched
  <2>3. todo \in Seq(watched) /\ Distinct(todo) /\ ToSet(todo) = watched
        /\ (todo = << >> <=> watched = {})
    BY <2>1, InSomeOrder
  <2> QED BY <2>2, <2>3
<1>6. /\ u.pc = pc /\ u.req = t.req /\ u.view = v /\ u.stale = t.stale /\ u.lock = t.lock
      /\ u.w = t.w /\ u.todo = todo /\ u.rows = rows /\ u.res = {} /\ u.news = {} /\ u \in Txs
  <2>1. pc \in Pcs
    BY DEF Pcs
  <2> HIDE DEF pc, todo, rows, v
  <2> QED BY <1>2, <1>3, <1>4, <1>5, <2>1 DEF Txs
<1>7. tx' = [tx EXCEPT ![p] = u] /\ UNCHANGED <<db, clock, got, told>>
  BY DEF ReadWatches, Reads, TakenView, Actor
<1>8. Watched(u) = watched /\ Done(u) = {} /\ ReadIn(u) = {}
  <2>1. Watched(u) = watched
    <3> HIDE DEF u
    <3> QED BY <1>6 DEF Watched
  <2> HIDE DEF u, watched
  <2>2. u.pc # "update"
    BY <1>6
  <2> QED BY <1>5, <1>6, <2>1, <2>2 DEF Done, ReadIn
<1>9. pc \in {"select", "replies"} /\ (todo = << >> <=> pc \notin {"replies", "update"})
  BY <1>5
<1>10. \A s \in Threads : rows[s] = db.lastRead[<<t.req.actor, s>>]
  OBVIOUS
<1> HIDE DEF u, watched, todo, rows, pc
<1>11. PendingCatchUp(u, db)
  BY <1>2, <1>5, <1>6, <1>8, <1>9, <1>10 DEF PendingCatchUp, NoWrites
<1>12. OpSound(u, ReadBy(u, db))
  <2>1. ReadBy(u, db) = db /\ u.view.taken
    BY <1>6 DEF ReadBy
  <2>2. CatchUpSound(u, db)
    BY <1>6, <1>9, <1>11, <2>1 DEF CatchUpSound
  <2> QED BY <2>1, <2>2, <1>2, <1>6 DEF OpSound
<1> QED BY <1>1, <1>2, <1>6, <1>7, <1>9, <1>12, ContinueStep DEF Stamping

\* The replies a catch_up found in the watches behind it, and now in one more.
LEMMA ReadMore ==
  ASSUME NEW t, NEW u, NEW d,
         Head(t.todo) \in Watched(t), Head(t.todo) \notin Done(t), t.pc # "update",
         t.res = {r \in d.replies : r.thread \in ReadIn(t) /\ r.at > t.rows[r.thread]},
         u.rows = t.rows, ReadIn(u) = Done(t) \cup {Head(t.todo)}
  PROVE  t.res \cup NewIn(t, d, Head(t.todo)) =
            {r \in d.replies : r.thread \in ReadIn(u) /\ r.at > u.rows[r.thread]}
BY DEF ReadIn, NewIn

\* ... per watch the replies past its cursor, ...
LEMMA ReadRepliesStep ==
  ASSUME Backend = "sqlite", BoardTxInv, NEW p \in Procs, ReadReplies(p)
  PROVE  BoardTxInv'
<1> DEFINE t == tx[p]
           d == ReadBy(t, db)
           h == Head(t.todo)
           x == PassingWatch(t)
           y == [t EXCEPT !.pc = "update", !.res = t.res \cup UnreadOf(p)]
<1>1. t.pc = "replies"
  BY DEF ReadReplies
<1>2. /\ t \in Txs /\ t.w \in Pendings /\ t.req \in Calls /\ t.req.op = "catchup"
      /\ t.req.actor \in Actors /\ d \in Tables /\ (t.lock => ~ t.stale)
      /\ t.view.taken /\ PendingCatchUp(t, d)
  BY <1>1, CatchUpAt DEF CatchUpSound
<1>3. /\ t.todo \in Seq(Threads) /\ t.todo # << >> /\ Distinct(t.todo)
      /\ ToSet(t.todo) \subseteq Watched(t)
      /\ t.res = {r \in d.replies : r.thread \in ReadIn(t) /\ r.at > t.rows[r.thread]}
      /\ ReadIn(t) = Done(t) /\ t.news = {}
  BY <1>1, <1>2 DEF PendingCatchUp, ReadIn
<1>4. UnreadOf(p) = NewIn(t, d, h)
  BY <1>2 DEF UnreadOf, NewIn, D, ReadBy
<1>5. CASE NewIn(t, d, h) = {}
  <2>1. /\ x.todo = Tail(t.todo) /\ x.req = t.req /\ x.view = t.view /\ x.stale = t.stale
        /\ x.lock = t.lock /\ x.w = t.w /\ x.rows = t.rows /\ x.res = t.res /\ x.news = t.news
        /\ x.pc = IF Tail(t.todo) = << >> THEN "select" ELSE "replies"
    BY <1>2 DEF PassingWatch, Txs
  <2>2. Tail(t.todo) \in Seq(Threads)
    BY <1>3, HeadTail
  <2>3. x \in Txs
    BY <1>2, <2>2 DEF PassingWatch, Txs, Pcs
  <2>4. tx' = [tx EXCEPT ![p] = x] /\ UNCHANGED <<db, clock, got, told>>
    BY <1>4, <1>5 DEF ReadReplies, Reads
  <2> HIDE DEF x
  <2>5. /\ Distinct(x.todo) /\ ToSet(x.todo) \subseteq Watched(x)
        /\ h \in Threads /\ h \in Watched(t) /\ h \notin Done(t)
        /\ Done(x) = Done(t) \cup {h}
    BY <1>3, <2>1, PassedWatch
  <2>6. ReadIn(x) = Done(x)
    BY <2>1 DEF ReadIn
  <2>7. x.res = {r \in d.replies : r.thread \in ReadIn(x) /\ r.at > x.rows[r.thread]}
    <3> HIDE DEF d, t
    <3>1. t.pc # "update" /\ Head(t.todo) \in Watched(t) /\ Head(t.todo) \notin Done(t)
      BY <1>1, <2>5
    <3>2. t.res = {r \in d.replies : r.thread \in ReadIn(t) /\ r.at > t.rows[r.thread]}
      BY <1>3
    <3>3. x.rows = t.rows /\ ReadIn(x) = Done(t) \cup {Head(t.todo)}
      BY <2>1, <2>5, <2>6
    <3>4. t.res \cup NewIn(t, d, h) =
            {r \in d.replies : r.thread \in ReadIn(x) /\ r.at > x.rows[r.thread]}
      BY <3>1, <3>2, <3>3, ReadMore
    <3> QED BY <3>4, <1>5, <2>1
  <2>8. \A s : NewIn(x, d, s) = NewIn(t, d, s)
    BY <2>1 DEF NewIn
  <2>9. \A q \in Pairs :
          x.w.lastRead[q] = IF q[1] = x.req.actor /\ q[2] \in Done(x) /\ NewIn(x, d, q[2]) # {}
                            THEN Serial!Latest(NewIn(x, d, q[2])) ELSE Kept
    <3>1. ASSUME NEW q \in Pairs
          PROVE  t.w.lastRead[q] = IF q[1] = t.req.actor /\ q[2] \in Done(t) /\ NewIn(t, d, q[2]) # {}
                                   THEN Serial!Latest(NewIn(t, d, q[2])) ELSE Kept
      BY <1>2 DEF PendingCatchUp
    <3>2. ASSUME NEW q \in Pairs
          PROVE  q[2] \in Done(x) /\ NewIn(x, d, q[2]) # {} <=>
                 q[2] \in Done(t) /\ NewIn(t, d, q[2]) # {}
      BY <1>5, <2>5, <2>8
    <3> QED BY <2>1, <2>8, <3>1, <3>2
  <2>10. PendingCatchUp(x, d)
    <3> HIDE DEF d, t
    <3>1. x.todo = << >> <=> x.pc \notin {"replies", "update"}
      BY <2>1
    <3>2. /\ x.w.opened = {} /\ x.w.replies = {} /\ x.w.joined = {} /\ x.w.left = {}
          /\ x.w.mentions = {} /\ x.w.at = ZeroTime /\ x.w.seen = {} /\ x.news = {}
          /\ \A s \in Threads : x.rows[s] = d.lastRead[<<x.req.actor, s>>]
      BY <1>1, <1>2, <1>3, <2>1 DEF PendingCatchUp
    <3>3. x.pc \notin {"update", "mark", "commit"} /\ x.todo \in Seq(Threads)
      BY <2>1, <2>2
    <3> QED BY <2>5, <2>7, <2>9, <3>1, <3>2, <3>3 DEF PendingCatchUp
  <2>11. ReadBy(x, db) = d
    BY <2>1 DEF ReadBy
  <2>12. OpSound(x, d)
    BY <1>2, <2>1, <2>10 DEF OpSound, CatchUpSound
  <2> QED BY <1>1, <1>2, <2>1, <2>3, <2>4, <2>11, <2>12, ContinueStep DEF Stamping
<1>6. CASE NewIn(t, d, h) # {}
  <2>1. /\ y.todo = t.todo /\ y.req = t.req /\ y.view = t.view /\ y.stale = t.stale
        /\ y.lock = t.lock /\ y.w = t.w /\ y.rows = t.rows /\ y.news = t.news
        /\ y.res = t.res \cup NewIn(t, d, h) /\ y.pc = "update"
    BY <1>2, <1>4 DEF Txs
  <2>2. y \in Txs
    <3>1. NewIn(t, d, h) \in SUBSET Serial!Replies /\ "update" \in Pcs
      BY <1>2 DEF NewIn, Tables, Pcs, Writing
    <3> HIDE DEF d
    <3> QED BY <1>2, <1>4, <3>1 DEF Txs
  <2>3. tx' = [tx EXCEPT ![p] = y] /\ UNCHANGED <<db, clock, got, told>>
    BY <1>4, <1>6 DEF ReadReplies, Reads
  <2> HIDE DEF y
  <2>4. /\ h \in Threads /\ h \in Watched(t) /\ h \notin Done(t)
    <3>1. h \in Threads /\ h \in ToSet(t.todo)
      BY <1>3, HeadTail
    <3> QED BY <1>3, <3>1 DEF Done
  <2>5. Watched(y) = Watched(t) /\ Done(y) = Done(t) /\ ReadIn(y) = Done(t) \cup {h}
    BY <2>1 DEF Watched, Done, ReadIn
  <2>6. y.res = {r \in d.replies : r.thread \in ReadIn(y) /\ r.at > y.rows[r.thread]}
    BY <1>1, <1>3, <2>1, <2>4, <2>5, ReadMore
  <2>7. \A s : NewIn(y, d, s) = NewIn(t, d, s)
    BY <2>1 DEF NewIn
  <2>8. \A q \in Pairs :
          y.w.lastRead[q] = IF q[1] = y.req.actor /\ q[2] \in Done(y) /\ NewIn(y, d, q[2]) # {}
                            THEN Serial!Latest(NewIn(y, d, q[2])) ELSE Kept
    BY <1>2, <2>1, <2>5, <2>7 DEF PendingCatchUp
  <2>9. PendingCatchUp(y, d)
    <3> HIDE DEF d, t
    <3> QED BY <1>1, <1>2, <1>3, <1>6, <2>1, <2>5, <2>6, <2>7, <2>8, SMTT(30) DEF PendingCatchUp
  <2>10. ReadBy(y, db) = d
    BY <2>1 DEF ReadBy
  <2>11. OpSound(y, d)
    BY <1>2, <2>1, <2>9 DEF OpSound, CatchUpSound
  <2> QED BY <1>1, <1>2, <2>1, <2>2, <2>3, <2>10, <2>11, ContinueStep DEF Stamping
<1> QED BY <1>5, <1>6

\* The newest of some replies is one of their timestamps and none is later.
LEMMA LatestIs ==
  ASSUME NEW S \in SUBSET Serial!Replies, S # {}
  PROVE  /\ Serial!Latest(S) \in Instants
         /\ \A r \in S : r.at <= Serial!Latest(S)
         /\ \E r \in S : r.at = Serial!Latest(S)
<1> DEFINE T == {r.at : r \in S}
           U == {u \in Nat : \A x \in T : x <= u}
           Less == {q \in Nat \X Nat : q[1] < q[2]}
<1>1. T \subseteq Instants /\ T # {}
  BY DEF Serial!Replies
<1>2. T \subseteq Nat /\ U \subseteq Nat /\ U # {}
  <2>1. MaxClock \in U
    BY <1>1, MaxClockAssumption DEF Instants
  <2> QED BY <1>1, <2>1 DEF Instants
<1>3. IsWellFoundedOn(Less, Nat)
  BY NatLessThanWellFounded DEF OpToRel
<1>9. (\A r \in S : r.at \in T) /\ \A x \in T : \E r \in S : r.at = x
  OBVIOUS
<1> HIDE DEF U, T
<1>4. PICK u \in U : \A v \in U : ~ (<<v, u>> \in Less)
  <2> HIDE DEF Less
  <2> QED BY <1>2, <1>3, WFMin
<1>5. u \in Nat /\ (\A x \in T : x <= u) /\ \A v \in Nat : v < u => \E x \in T : ~ (x <= v)
  BY <1>2, <1>4 DEF U
<1>6. u \in T
  <2>1. CASE u = 0
    <3>1. PICK x \in T : x \in Nat /\ x <= u
      BY <1>1, <1>2, <1>5
    <3> QED BY <2>1, <3>1
  <2>2. CASE u # 0
    <3>1. u - 1 \in Nat /\ u - 1 < u
      BY <2>2, <1>5
    <3>2. PICK x \in T : ~ (x <= u - 1)
      BY <3>1, <1>5
    <3> QED BY <3>2, <1>2, <1>5
  <2> QED BY <2>1, <2>2
<1>7. Max(T) \in T /\ \A x \in T : x <= Max(T)
  <2>1. \E m \in T : \A x \in T : m >= x
    BY <1>2, <1>5, <1>6
  <2>2. Max(T) \in T /\ \A x \in T : Max(T) >= x
    BY <2>1 DEF Max
  <2> QED BY <1>2, <2>2
<1>8. Serial!Latest(S) = Max(T)
  BY DEF Serial!Latest, Serial!Max, Max, T
<1> QED BY <1>1, <1>7, <1>8, <1>9

\* ... the cursor set to the newest of those, ...
LEMMA UpdateCursorStep ==
  ASSUME Backend = "sqlite", BoardTxInv, NEW p \in Procs, UpdateCursor(p)
  PROVE  BoardTxInv'
<1> DEFINE t == tx[p]
           h == Head(t.todo)
           q0 == <<t.req.actor, h>>
           w == SettingRead(t.w, q0, Serial!Latest(NewIn(t, db, h)))
           pc == IF Tail(t.todo) = << >> THEN "select" ELSE "replies"
           u == [[PassingWatch(t) EXCEPT !.w = w] EXCEPT !.lock = TRUE]
<1>1. t.pc = "update" /\ CanWrite(p)
  BY DEF UpdateCursor, Writes
<1>2. ReadBy(t, db) = db /\ ~ t.stale /\ ~ OthersLock(p)
  BY <1>1, WriterReads
<1>3. /\ t \in Txs /\ t.w \in Pendings /\ t.req \in Calls /\ t.req.op = "catchup"
      /\ t.req.actor \in Actors /\ db \in Tables
      /\ t.view.taken /\ PendingCatchUp(t, db)
  BY <1>1, <1>2, CatchUpAt DEF CatchUpSound
<1>4. /\ t.todo \in Seq(Threads) /\ t.todo # << >> /\ Distinct(t.todo)
      /\ ToSet(t.todo) \subseteq Watched(t)
      /\ t.res = {r \in db.replies : r.thread \in ReadIn(t) /\ r.at > t.rows[r.thread]}
      /\ ReadIn(t) = Done(t) \cup {h} /\ t.news = {} /\ NewIn(t, db, h) # {}
      /\ t.w.seen = {}
  BY <1>1, <1>3 DEF PendingCatchUp, ReadIn
<1>5. h \in Threads /\ h \in Watched(t) /\ h \notin Done(t) /\ Tail(t.todo) \in Seq(Threads)
  <2>1. h \in Threads /\ h \in ToSet(t.todo) /\ Tail(t.todo) \in Seq(Threads)
    BY <1>4, HeadTail
  <2> QED BY <1>4, <2>1 DEF Done
<1>6. q0 \in Pairs /\ db.lastRead[q0] # NoRow
  <2>1. db.lastRead[q0] = t.rows[h]
    BY <1>3, <1>5 DEF PendingCatchUp
  <2> QED BY <2>1, <1>3, <1>5 DEF Pairs, Watched
<1>7. Newest(p) = Serial!Latest(NewIn(t, db, h))
  <2>1. {x \in t.res : x.thread = h} = NewIn(t, db, h)
    BY <1>4 DEF NewIn
  <2> QED BY <2>1 DEF Newest, Serial!Latest, Serial!Max, Max
<1>8. Serial!Latest(NewIn(t, db, h)) \in Instants
  <2>1. NewIn(t, db, h) \in SUBSET Serial!Replies
    BY <1>3 DEF NewIn, Tables
  <2> QED BY <2>1, <1>4, LatestIs
<1>9. /\ w \in Pendings /\ w.opened = t.w.opened /\ w.replies = t.w.replies
      /\ w.left = t.w.left /\ w.joined = t.w.joined /\ w.mentions = t.w.mentions
      /\ w.seen = t.w.seen /\ w.at = t.w.at
      /\ w.lastRead = [t.w.lastRead EXCEPT ![q0] = Serial!Latest(NewIn(t, db, h))]
  BY <1>3, <1>8 DEF SettingRead, Pendings, Cursors
<1>10. t.w.lastRead \in [Pairs -> Cursors \cup {Kept}]
  BY <1>3 DEF Pendings
<1>11. tx' = [tx EXCEPT ![p] = u] /\ UNCHANGED <<db, clock, got, told>>
  BY <1>6, <1>7 DEF UpdateCursor, Writes, W, HeadWatch, Actor
<1> HIDE DEF w
<1>12. /\ u.pc = pc /\ u.req = t.req /\ u.view = t.view /\ u.stale = t.stale
       /\ u.lock = TRUE /\ u.w = w /\ u.todo = Tail(t.todo) /\ u.rows = t.rows
       /\ u.res = t.res /\ u.news = t.news
  BY <1>3 DEF PassingWatch, Txs
<1>13. u \in Txs
  <2>1. PassingWatch(t) \in Txs
    BY <1>3, <1>5 DEF PassingWatch, Txs, Pcs
  <2> QED BY <2>1, <1>9 DEF Txs
<1> HIDE DEF u
<1>14. /\ Distinct(u.todo) /\ ToSet(u.todo) \subseteq Watched(u)
       /\ Done(u) = Done(t) \cup {h}
  BY <1>4, <1>12, PassedWatch
<1>15. ReadIn(u) = ReadIn(t)
  BY <1>4, <1>12, <1>14 DEF ReadIn
<1>16. \A s : NewIn(u, db, s) = NewIn(t, db, s)
  BY <1>12 DEF NewIn
<1>17. ASSUME NEW q \in Pairs
       PROVE  u.w.lastRead[q] = IF q[1] = u.req.actor /\ q[2] \in Done(u) /\ NewIn(u, db, q[2]) # {}
                                THEN Serial!Latest(NewIn(u, db, q[2])) ELSE Kept
  <2>1. t.w.lastRead[q] = IF q[1] = t.req.actor /\ q[2] \in Done(t) /\ NewIn(t, db, q[2]) # {}
                          THEN Serial!Latest(NewIn(t, db, q[2])) ELSE Kept
    BY <1>3 DEF PendingCatchUp
  <2>2. CASE q = q0
    <3>1. u.w.lastRead[q] = Serial!Latest(NewIn(t, db, h)) /\ q[1] = t.req.actor /\ q[2] = h
      BY <2>2, <1>6, <1>9, <1>10, <1>12
    <3> QED BY <3>1, <1>4, <1>12, <1>14, <1>16
  <2>3. CASE q # q0
    <3>1. u.w.lastRead[q] = t.w.lastRead[q]
      BY <2>3, <1>9, <1>10, <1>12
    <3>2. q[1] = t.req.actor => q[2] # h
      BY <2>3 DEF Pairs
    <3> QED BY <3>1, <3>2, <2>1, <1>12, <1>14, <1>16
  <2> QED BY <2>2, <2>3
<1>18. PendingCatchUp(u, db)
  <2>1. u.todo = << >> <=> u.pc \notin {"replies", "update"}
    BY <1>12
  <2>2. /\ u.w.opened = {} /\ u.w.replies = {} /\ u.w.joined = {} /\ u.w.left = {}
        /\ u.w.mentions = {} /\ u.w.at = ZeroTime /\ u.w.seen = {} /\ u.news = {}
        /\ \A s \in Threads : u.rows[s] = db.lastRead[<<u.req.actor, s>>]
    <3> HIDE DEF t
    <3> QED BY <1>3, <1>4, <1>9, <1>12 DEF PendingCatchUp
  <2>3. u.pc \notin {"update", "mark", "commit"} /\ u.todo \in Seq(Threads)
    BY <1>5, <1>12
  <2>4. u.res = {r \in db.replies : r.thread \in ReadIn(u) /\ r.at > u.rows[r.thread]}
    BY <1>4, <1>12, <1>15
  <2> QED BY <1>14, <1>17, <2>1, <2>2, <2>3, <2>4 DEF PendingCatchUp
<1>19. OpSound(u, ReadBy(u, db))
  <2>1. ReadBy(u, db) = db
    BY <1>2, <1>12 DEF ReadBy
  <2> QED BY <2>1, <1>3, <1>12, <1>18 DEF OpSound, CatchUpSound
<1>20. ~ Stamping(u) /\ u.w.at = t.w.at /\ u.pc # "idle"
  BY <1>9, <1>12 DEF Stamping
<1> HIDE DEF pc
<1> QED BY <1>1, <1>2, <1>11, <1>12, <1>13, <1>19, <1>20, ContinueStep

\* ... the unseen mentions, ...
LEMMA ReadMentionsStep ==
  ASSUME Backend = "sqlite", BoardTxInv, NEW p \in Procs, ReadMentions(p)
  PROVE  BoardTxInv'
<1> DEFINE t == tx[p]
           d == ReadBy(t, db)
           news == NewsIn(t, d)
           pc == IF news = {} THEN "commit" ELSE "mark"
           u == [t EXCEPT !.pc = pc, !.news = news]
<1>1. t.pc = "select"
  BY DEF ReadMentions
<1>2. /\ t \in Txs /\ t.w \in Pendings /\ t.req \in Calls /\ t.req.op = "catchup"
      /\ t.req.actor \in Actors /\ d \in Tables /\ (t.lock => ~ t.stale)
      /\ t.view.taken /\ PendingCatchUp(t, d)
  BY <1>1, CatchUpAt DEF CatchUpSound
<1>3. news \in SUBSET Serial!Mentions
  BY <1>2 DEF NewsIn, Tables
<1>4. tx' = [tx EXCEPT ![p] = u] /\ UNCHANGED <<db, clock, got, told>>
  BY <1>2 DEF ReadMentions, Reads, NewsIn, D, ReadBy, Actor
<1>5. pc \in {"commit", "mark"} /\ pc \in Pcs /\ (pc = "commit" => news = {})
  BY DEF Pcs, Writing
<1>6. /\ u.pc = pc /\ u.req = t.req /\ u.view = t.view /\ u.stale = t.stale /\ u.lock = t.lock
      /\ u.w = t.w /\ u.todo = t.todo /\ u.rows = t.rows /\ u.res = t.res /\ u.news = news
      /\ u \in Txs
  <2> HIDE DEF pc, news
  <2> QED BY <1>2, <1>3, <1>5 DEF Txs
<1> HIDE DEF u
<1>7. PendingCatchUp(u, d)
  <2> HIDE DEF t, d, pc
  <2>1. Watched(u) = Watched(t) /\ Done(u) = Done(t) /\ ReadIn(u) = ReadIn(t)
    BY <1>1, <1>5, <1>6 DEF Watched, Done, ReadIn
  <2>2. \A s : NewIn(u, d, s) = NewIn(t, d, s)
    BY <1>6 DEF NewIn
  <2>3. NewsIn(u, d) = news
    BY <1>6 DEF NewsIn
  <2> HIDE DEF news
  <2>4. u.pc \notin {"replies", "update"} /\ t.pc \notin {"replies", "update"} /\ t.pc # "commit"
    BY <1>1, <1>5, <1>6
  <2>5. \A q \in Pairs :
          u.w.lastRead[q] = IF q[1] = u.req.actor /\ q[2] \in Done(u) /\ NewIn(u, d, q[2]) # {}
                            THEN Serial!Latest(NewIn(u, d, q[2])) ELSE Kept
    BY <1>2, <1>6, <2>1, <2>2 DEF PendingCatchUp
  <2>6. u.res = {r \in d.replies : r.thread \in ReadIn(u) /\ r.at > u.rows[r.thread]}
    BY <1>2, <1>6, <2>1 DEF PendingCatchUp
  <2>7. /\ u.w.opened = {} /\ u.w.replies = {} /\ u.w.joined = {} /\ u.w.left = {}
        /\ u.w.mentions = {} /\ u.w.at = ZeroTime /\ u.w.seen = {}
        /\ \A s \in Threads : u.rows[s] = d.lastRead[<<u.req.actor, s>>]
    BY <1>2, <1>6, <2>4 DEF PendingCatchUp
  <2>8. /\ u.todo \in Seq(Threads) /\ Distinct(u.todo) /\ ToSet(u.todo) \subseteq Watched(u)
        /\ u.todo = << >>
    BY <1>2, <1>6, <2>1, <2>4 DEF PendingCatchUp
  <2>9. /\ u.news = IF u.pc \in {"mark", "commit"} THEN NewsIn(u, d) ELSE {}
        /\ u.w.seen = IF u.pc = "commit" THEN u.news ELSE {}
    BY <1>5, <1>6, <2>3, <2>7
  <2> QED BY <2>4, <2>5, <2>6, <2>7, <2>8, <2>9 DEF PendingCatchUp
<1>8. ReadBy(u, db) = d
  BY <1>6 DEF ReadBy
<1>9. OpSound(u, d)
  BY <1>2, <1>5, <1>6, <1>7 DEF OpSound, CatchUpSound
<1>10. ~ Stamping(u) /\ u.pc # "idle"
  BY <1>5, <1>6 DEF Stamping
<1> HIDE DEF pc, news
<1> QED BY <1>1, <1>2, <1>4, <1>6, <1>8, <1>9, <1>10, ContinueStep

\* ... and all of them marked.
LEMMA MarkMentionsStep ==
  ASSUME Backend = "sqlite", BoardTxInv, NEW p \in Procs, MarkMentions(p)
  PROVE  BoardTxInv'
<1> DEFINE t == tx[p]
           news == NewsIn(t, db)
           w == [t.w EXCEPT !.seen = news]
           u == [[t EXCEPT !.pc = "commit", !.w = w] EXCEPT !.lock = TRUE]
<1>1. t.pc = "mark" /\ CanWrite(p)
  BY DEF MarkMentions, Writes
<1>2. ReadBy(t, db) = db /\ ~ t.stale /\ ~ OthersLock(p)
  BY <1>1, WriterReads
<1>3. /\ t \in Txs /\ t.w \in Pendings /\ t.req \in Calls /\ t.req.op = "catchup"
      /\ t.req.actor \in Actors /\ db \in Tables
      /\ t.view.taken /\ PendingCatchUp(t, db)
  BY <1>1, <1>2, CatchUpAt DEF CatchUpSound
<1>4. news \in SUBSET Serial!Mentions /\ t.news = news
  BY <1>1, <1>3 DEF NewsIn, Tables, PendingCatchUp
<1>5. tx' = [tx EXCEPT ![p] = u] /\ UNCHANGED <<db, clock, got, told>>
  BY DEF MarkMentions, Writes, W, UnseenOf, NewsIn, Actor
<1> HIDE DEF news
<1>6. /\ w \in Pendings /\ w.opened = t.w.opened /\ w.replies = t.w.replies
      /\ w.left = t.w.left /\ w.joined = t.w.joined /\ w.mentions = t.w.mentions
      /\ w.seen = news /\ w.at = t.w.at /\ w.lastRead = t.w.lastRead
  BY <1>3, <1>4 DEF Pendings
<1> HIDE DEF w
<1>7. /\ u.pc = "commit" /\ u.req = t.req /\ u.view = t.view /\ u.stale = t.stale
      /\ u.lock = TRUE /\ u.w = w /\ u.todo = t.todo /\ u.rows = t.rows /\ u.res = t.res
      /\ u.news = t.news /\ u \in Txs
  BY <1>3, <1>6 DEF Txs, Pcs
<1> HIDE DEF u
<1>8. PendingCatchUp(u, db)
  <2> HIDE DEF t
  <2>1. Watched(u) = Watched(t) /\ Done(u) = Done(t) /\ ReadIn(u) = ReadIn(t)
    BY <1>1, <1>7 DEF Watched, Done, ReadIn
  <2>2. \A s : NewIn(u, db, s) = NewIn(t, db, s)
    BY <1>7 DEF NewIn
  <2>3. NewsIn(u, db) = news
    BY <1>7 DEF NewsIn, news
  <2>4. u.pc \notin {"replies", "update"} /\ t.pc \notin {"replies", "update"}
    BY <1>1, <1>7
  <2>5. \A q \in Pairs :
          u.w.lastRead[q] = IF q[1] = u.req.actor /\ q[2] \in Done(u) /\ NewIn(u, db, q[2]) # {}
                            THEN Serial!Latest(NewIn(u, db, q[2])) ELSE Kept
    <3>1. \A q \in Pairs :
            t.w.lastRead[q] = IF q[1] = t.req.actor /\ q[2] \in Done(t) /\ NewIn(t, db, q[2]) # {}
                              THEN Serial!Latest(NewIn(t, db, q[2])) ELSE Kept
      BY <1>3 DEF PendingCatchUp
    <3>2. u.w.lastRead = t.w.lastRead /\ u.req = t.req
      BY <1>6, <1>7
    <3> QED BY <3>1, <3>2, <2>1, <2>2
  <2>6. u.res = {r \in db.replies : r.thread \in ReadIn(u) /\ r.at > u.rows[r.thread]}
    BY <1>3, <1>7, <2>1 DEF PendingCatchUp
  <2>7. /\ u.w.opened = {} /\ u.w.replies = {} /\ u.w.joined = {} /\ u.w.left = {}
        /\ u.w.mentions = {} /\ u.w.at = ZeroTime
        /\ \A s \in Threads : u.rows[s] = db.lastRead[<<u.req.actor, s>>]
    BY <1>3, <1>6, <1>7 DEF PendingCatchUp
  <2>8. /\ u.todo \in Seq(Threads) /\ Distinct(u.todo) /\ ToSet(u.todo) \subseteq Watched(u)
        /\ u.todo = << >>
    BY <1>3, <1>7, <2>1, <2>4 DEF PendingCatchUp
  <2>9. /\ u.news = IF u.pc \in {"mark", "commit"} THEN NewsIn(u, db) ELSE {}
        /\ u.w.seen = IF u.pc = "commit" THEN u.news ELSE {}
    BY <1>4, <1>6, <1>7, <2>3
  <2> QED BY <2>4, <2>5, <2>6, <2>7, <2>8, <2>9 DEF PendingCatchUp
<1>9. OpSound(u, ReadBy(u, db))
  <2>1. ReadBy(u, db) = db
    BY <1>2, <1>7 DEF ReadBy
  <2> QED BY <2>1, <1>3, <1>7, <1>8 DEF OpSound, CatchUpSound
<1>10. ~ Stamping(u) /\ u.w.at = t.w.at
  BY <1>6, <1>7 DEF Stamping
<1> QED BY <1>1, <1>2, <1>5, <1>7, <1>9, <1>10, ContinueStep

-----------------------------------------------------------------------------
\* The tables after a commit, one by one.
LEMMA AppliedTables ==
  ASSUME NEW d, NEW w
  PROVE  /\ Applied(d, w).status = [t \in Threads |-> IF t \in w.opened THEN "open" ELSE d.status[t]]
         /\ Applied(d, w).replies = d.replies \cup w.replies
         /\ Applied(d, w).watcher = (d.watcher \cup w.joined) \ w.left
         /\ Applied(d, w).lastRead = [q \in Pairs |-> IF w.lastRead[q] = Kept THEN d.lastRead[q]
                                                                             ELSE w.lastRead[q]]
         /\ Applied(d, w).mentions = d.mentions \cup w.mentions
         /\ Applied(d, w).seen = d.seen \cup w.seen
         /\ Applied(d, w).latest = IF w.at > d.latest THEN w.at ELSE d.latest
BY DEF Applied

\* What Commit finds.
LEMMA CommitAt ==
  ASSUME Backend = "sqlite", BoardTxInv, NEW p \in Procs, Commit(p)
  PROVE  /\ tx[p] \in Txs /\ tx[p].w \in Pendings /\ tx[p].req \in Calls
         /\ tx[p].pc = "commit" /\ db' = Applied(db, tx[p].w) /\ clock' = clock
         /\ db \in Tables /\ ReadBy(tx[p], db) \in Tables
         /\ tx[p].req.op = "create" => CreateSound(tx[p], ReadBy(tx[p], db))
         /\ tx[p].req.op \in {"reply", "watch"} => PendingJoin(tx[p], ReadBy(tx[p], db))
                                                    /\ ReadBy(tx[p], db).status[tx[p].req.thread] # "absent"
         /\ tx[p].req.op = "unwatch" => UnwatchSound(tx[p], ReadBy(tx[p], db))
         /\ tx[p].req.op = "catchup" => PendingCatchUp(tx[p], ReadBy(tx[p], db))
         /\ tx[p].lock => ReadBy(tx[p], db) = db
         /\ ~ tx[p].lock => tx[p].w = NoWrites /\ tx[p].req.op = "catchup"
<1> DEFINE t == tx[p]
           d == ReadBy(t, db)
<1>1. t \in Txs /\ t.pc = "commit" /\ t.req \in Calls /\ OpSound(t, d)
      /\ (~ t.lock => t.w = NoWrites) /\ (t.lock => d = db)
  BY DEF Commit, BoardTxInv, TransactionsOK, Sound, ReadBy
<1>2. t.w \in Pendings
  BY <1>1 DEF Txs
<1>3. db' = Applied(db, t.w) /\ clock' = clock
  BY DEF Commit, W
<1>4. db \in Tables /\ d \in Tables
  <2>1. db \in Tables
    BY DEF BoardTxInv, TablesOK
  <2>2. t.view \in Views
    BY <1>1 DEF Txs
  <2>3. t.view.taken => t.view.db \in Tables
    <3>1. CASE t.view = NoView
      BY <3>1 DEF NoView
    <3>2. CASE t.view \in [taken : {TRUE}, db : Tables]
      BY <3>2
    <3> QED BY <2>2, <3>1, <3>2 DEF Views
  <2> QED BY <2>1, <2>3 DEF ReadBy
<1> HIDE DEF t, d
<1>5. t.req.op = "create" => CreateSound(t, d) /\ t.lock
  BY <1>1 DEF OpSound, CreateSound
<1>6. t.req.op \in {"reply", "watch"} =>
         PendingJoin(t, d) /\ d.status[t.req.thread] # "absent" /\ t.lock
  BY <1>1 DEF OpSound, JoinSound, PendingJoin
<1>7. t.req.op = "unwatch" => UnwatchSound(t, d) /\ t.lock
  BY <1>1 DEF OpSound, UnwatchSound
<1>8. t.req.op = "catchup" => PendingCatchUp(t, d)
  BY <1>1 DEF OpSound, CatchUpSound
<1>9. t.req.op \in {"create", "reply", "watch", "unwatch", "catchup"}
  BY <1>1, CallTypes
<1> QED BY <1>1, <1>2, <1>3, <1>4, <1>5, <1>6, <1>7, <1>8, <1>9 DEF t, d

\* A catch_up that found nothing has nothing to commit.
LEMMA NothingFound ==
  ASSUME NEW t \in Txs, NEW d \in Tables, t.req.actor \in Actors, PendingCatchUp(t, d),
         t.pc = "commit", t.w = NoWrites
  PROVE  t.res = {} /\ t.news = {}
<1>1. t.news = {}
  BY DEF PendingCatchUp, NoWrites
<1>2. ASSUME NEW r \in t.res PROVE FALSE
  <2>1. r \in d.replies /\ r.thread \in Done(t) /\ r.at > t.rows[r.thread]
    BY <1>2 DEF PendingCatchUp, ReadIn
  <2>2. r \in NewIn(t, d, r.thread) /\ r.thread \in Threads
    BY <2>1 DEF NewIn, Done, Watched
  <2>3. NewIn(t, d, r.thread) \in SUBSET Serial!Replies
    BY DEF NewIn, Tables
  <2>4. Serial!Latest(NewIn(t, d, r.thread)) \in Instants
    BY <2>2, <2>3, LatestIs
  <2> DEFINE q == <<t.req.actor, r.thread>>
  <2>5. q \in Pairs /\ q[1] = t.req.actor /\ q[2] = r.thread
    BY <2>2 DEF Pairs
  <2>6. t.w.lastRead[q] = Serial!Latest(NewIn(t, d, r.thread))
    <3> HIDE DEF q
    <3> QED BY <2>1, <2>2, <2>5 DEF PendingCatchUp
  <2>7. t.w.lastRead[q] = Kept
    BY <2>5 DEF NoWrites
  <2> QED BY <2>4, <2>6, <2>7 DEF Instants, Kept
<1> QED BY <1>1, <1>2

\* A commit without writes leaves the tables alone.
LEMMA NothingApplied ==
  ASSUME NEW d \in Tables
  PROVE  Applied(d, NoWrites) = d
<1> DEFINE e == Applied(d, NoWrites)
<1>1. /\ d.status \in [Threads -> {"absent", "open"}] /\ d.lastRead \in [Pairs -> Cursors]
      /\ d.latest \in Nat
  BY DEF Tables, Instants, ZeroTime
<1>2. /\ e.status = d.status /\ e.replies = d.replies /\ e.watcher = d.watcher
      /\ e.lastRead = d.lastRead /\ e.mentions = d.mentions /\ e.seen = d.seen
      /\ e.latest = d.latest
  <2>1. /\ NoWrites.opened = {} /\ NoWrites.replies = {} /\ NoWrites.joined = {}
        /\ NoWrites.left = {} /\ NoWrites.mentions = {} /\ NoWrites.seen = {}
        /\ NoWrites.at = 0 /\ \A q \in Pairs : NoWrites.lastRead[q] = Kept
    BY DEF NoWrites, ZeroTime
  <2>2. /\ e.status = [t \in Threads |-> d.status[t]] /\ e.replies = d.replies
        /\ e.watcher = d.watcher /\ e.lastRead = [q \in Pairs |-> d.lastRead[q]]
        /\ e.mentions = d.mentions /\ e.seen = d.seen
        /\ e.latest = IF 0 > d.latest THEN 0 ELSE d.latest
    <3>1. e.status = [t \in Threads |-> d.status[t]]
      BY <2>1 DEF Applied
    <3>2. e.lastRead = [q \in Pairs |-> d.lastRead[q]]
      BY <2>1 DEF Applied
    <3>3. /\ e.replies = d.replies /\ e.watcher = d.watcher
          /\ e.mentions = d.mentions /\ e.seen = d.seen
          /\ e.latest = IF 0 > d.latest THEN 0 ELSE d.latest
      BY <2>1 DEF Applied
    <3> QED BY <3>1, <3>2, <3>3
  <2> QED BY <1>1, <2>2
<1>3. e = [status |-> e.status, replies |-> e.replies, watcher |-> e.watcher,
           lastRead |-> e.lastRead, mentions |-> e.mentions, seen |-> e.seen,
           latest |-> e.latest]
  BY DEF Applied
<1>4. d = [status |-> d.status, replies |-> d.replies, watcher |-> d.watcher,
           lastRead |-> d.lastRead, mentions |-> d.mentions, seen |-> d.seen,
           latest |-> d.latest]
  BY DEF Tables
<1> HIDE DEF e
<1>5. e = d
  BY <1>2, <1>3, <1>4
<1> QED BY <1>5 DEF e

\* The unlocked commit: a catch_up with nothing new.
LEMMA UnlockedCommit ==
  ASSUME Backend = "sqlite", BoardTxInv, NEW p \in Procs, Commit(p), ~ tx[p].lock
  PROVE  UNCHANGED <<db, got, told>> /\ tx[p].w = NoWrites
<1> DEFINE t == tx[p]
           d == ReadBy(t, db)
<1>1. /\ t \in Txs /\ t.req \in Calls /\ t.pc = "commit" /\ db' = Applied(db, NoWrites)
      /\ db \in Tables /\ d \in Tables /\ t.w = NoWrites /\ t.req.op = "catchup"
      /\ PendingCatchUp(t, d)
  BY CommitAt
<1>2. t.res = {} /\ t.news = {}
  <2> HIDE DEF t, d
  <2> QED BY <1>1, NothingFound, CallTypes
<1>3. db' = db
  BY <1>1, NothingApplied
<1>4. got' = got
  <2>1. got' = [got EXCEPT ![t.req.actor] = @ \cup {}]
    BY <1>1, <1>2 DEF Commit, Op, Actor
  <2>2. got \in [Actors -> SUBSET db.replies]
    BY DEF BoardTxInv, TablesOK
  <2> QED BY <2>1, <2>2
<1>5. told' = told
  BY <1>1, <1>2 DEF Commit, Op
<1> QED BY <1>1, <1>3, <1>4, <1>5

\* What a locked catch_up commits.
LEMMA CatchUpCommits ==
  ASSUME Backend = "sqlite", BoardTxInv, NEW p \in Procs, Commit(p),
         tx[p].lock, tx[p].req.op = "catchup"
  PROVE  /\ PendingCatchUp(tx[p], db) /\ tx[p].req.actor \in Actors
         /\ tx[p].w.seen = NewsIn(tx[p], db) /\ tx[p].news = NewsIn(tx[p], db)
         /\ tx[p].res = {r \in db.replies : r.thread \in Watched(tx[p]) /\ r.at > tx[p].rows[r.thread]}
         /\ Done(tx[p]) = Watched(tx[p])
<1>1. PendingCatchUp(tx[p], db) /\ tx[p].pc = "commit" /\ tx[p].req.actor \in Actors
  BY CommitAt, CallTypes
<1>2. tx[p].todo = << >>
  BY <1>1 DEF PendingCatchUp
<1>3. Done(tx[p]) = Watched(tx[p]) /\ ReadIn(tx[p]) = Watched(tx[p])
  BY <1>1, <1>2, NoElement DEF Done, ReadIn
<1> QED BY <1>1, <1>3 DEF PendingCatchUp

\* The histories follow the tables.
LEMMA CommitTablesOK ==
  ASSUME Backend = "sqlite", BoardTxInv, NEW p \in Procs, Commit(p)
  PROVE  TablesOK'
<1> DEFINE t == tx[p]
           w == t.w
<1>1. /\ t \in Txs /\ w \in Pendings /\ t.req \in Calls /\ db \in Tables
      /\ db' = Applied(db, w)
  BY CommitAt
<1>2. /\ db.seen \subseteq db.mentions /\ got \in [Actors -> SUBSET db.replies]
      /\ told \subseteq db.mentions
  BY DEF BoardTxInv, TablesOK
<1>3. CASE ~ t.lock
  <2>1. UNCHANGED <<db, got, told>>
    BY <1>3, UnlockedCommit
  <2> QED BY <1>1, <1>2, <2>1 DEF TablesOK
<1>4. CASE t.lock
  <2>1. /\ db'.status = [s \in Threads |-> IF s \in w.opened THEN "open" ELSE db.status[s]]
        /\ db'.replies = db.replies \cup w.replies
        /\ db'.watcher = (db.watcher \cup w.joined) \ w.left
        /\ db'.lastRead = [q \in Pairs |-> IF w.lastRead[q] = Kept THEN db.lastRead[q]
                                                                  ELSE w.lastRead[q]]
        /\ db'.mentions = db.mentions \cup w.mentions
        /\ db'.seen = db.seen \cup w.seen
        /\ db'.latest = IF w.at > db.latest THEN w.at ELSE db.latest
        /\ db' = [status |-> db'.status, replies |-> db'.replies, watcher |-> db'.watcher,
                  lastRead |-> db'.lastRead, mentions |-> db'.mentions, seen |-> db'.seen,
                  latest |-> db'.latest]
    <3>1. db' = Applied(db, w)
      BY <1>1
    <3> HIDE DEF w
    <3> QED BY <3>1, AppliedTables DEF Applied
  <2>2. db' \in Tables
    <3>1. db'.status \in [Threads -> {"absent", "open"}]
      BY <1>1, <2>1 DEF Tables
    <3>2. db'.lastRead \in [Pairs -> Cursors]
      BY <1>1, <2>1 DEF Tables, Pendings
    <3>3. db'.latest \in Instants \cup {ZeroTime}
      BY <1>1, <2>1 DEF Tables, Pendings
    <3>4. /\ db'.replies \in SUBSET Serial!Replies /\ db'.watcher \in SUBSET Pairs
          /\ db'.mentions \in SUBSET Serial!Mentions /\ db'.seen \in SUBSET Serial!Mentions
      BY <1>1, <2>1 DEF Tables, Pendings
    <3> QED BY <2>1, <3>1, <3>2, <3>3, <3>4 DEF Tables
  <2>3. CASE t.req.op = "catchup"
    <3>1. /\ t.req.actor \in Actors /\ w.seen \subseteq db.mentions /\ t.news \subseteq db.mentions
          /\ t.res \subseteq db.replies
      BY <1>4, <2>3, CatchUpCommits DEF NewsIn
    <3>2. got' = [got EXCEPT ![t.req.actor] = @ \cup t.res] /\ told' = told \cup t.news
      BY <2>3 DEF Commit, Op, Actor
    <3>3. got' \in [Actors -> SUBSET db'.replies]
      BY <1>2, <2>1, <3>1, <3>2
    <3> QED BY <1>2, <2>1, <2>2, <3>1, <3>2, <3>3 DEF TablesOK
  <2>4. CASE t.req.op # "catchup"
    <3>1. w.seen = {}
      <4>1. t.req.op \in {"create", "reply", "watch", "unwatch"}
        BY <2>4, <1>1, CallTypes
      <4>2. CASE t.req.op = "create"
        <5>1. CreateSound(t, ReadBy(t, db)) /\ t.pc = "commit"
          BY <4>2, CommitAt
        <5> QED BY <5>1 DEF CreateSound, Creating
      <4>3. CASE t.req.op \in {"reply", "watch"}
        BY <4>3, CommitAt DEF PendingJoin
      <4>4. CASE t.req.op = "unwatch"
        BY <4>4, CommitAt DEF UnwatchSound
      <4> QED BY <4>1, <4>2, <4>3, <4>4
    <3>2. told' = told
      BY <2>4 DEF Commit, Op
    <3>3. got' \in [Actors -> SUBSET db'.replies]
      <4>1. got' = got \/ got' = [got EXCEPT ![t.req.actor] = {r \in @ : r.thread # t.req.thread}]
        BY <2>4 DEF Commit, Op, Actor, Thread
      <4>2. db.replies \subseteq db'.replies
        BY <2>1
      <4> HIDE DEF t
      <4> QED BY <1>2, <4>1, <4>2
    <3> QED BY <1>2, <2>1, <2>2, <3>1, <3>2, <3>3 DEF TablesOK
  <2> QED BY <2>3, <2>4
<1> QED BY <1>3, <1>4

\* Whether a snapshot is out of date does not show in what is pending.
LEMMA OpSoundWhenStale ==
  ASSUME NEW t \in Txs, NEW b \in BOOLEAN, NEW d, OpSound(t, d)
  PROVE  OpSound([t EXCEPT !.stale = b], d)
<1> DEFINE u == [t EXCEPT !.stale = b]
<1>1. /\ u.pc = t.pc /\ u.req = t.req /\ u.view = t.view /\ u.lock = t.lock /\ u.w = t.w
      /\ u.todo = t.todo /\ u.rows = t.rows /\ u.res = t.res /\ u.news = t.news
  BY DEF Txs
<1> HIDE DEF u
<1>2. CreateSound(t, d) => CreateSound(u, d)
  BY <1>1 DEF CreateSound, Stamped
<1>3. PendingJoin(t, d) => PendingJoin(u, d)
  <2>1. JoinedRows(t, d) => JoinedRows(u, d)
    BY <1>1 DEF JoinedRows
  <2>2. CursorRows(t, d) => CursorRows(u, d)
    BY <1>1 DEF CursorRows, UpsertedRow, EnsuredRow
  <2>3. PendingPost(t, d) => PendingPost(u, d)
    BY <1>1 DEF PendingPost, Stamped
  <2> QED BY <1>1, <2>1, <2>2, <2>3 DEF PendingJoin
<1>4. JoinSound(t, d) => JoinSound(u, d)
  BY <1>1, <1>3 DEF JoinSound
<1>5. UnwatchSound(t, d) => UnwatchSound(u, d)
  BY <1>1 DEF UnwatchSound
<1>6. CatchUpSound(t, d) => CatchUpSound(u, d)
  <2>1. Watched(u) = Watched(t) /\ Done(u) = Done(t) /\ ReadIn(u) = ReadIn(t)
    BY <1>1 DEF Watched, Done, ReadIn
  <2>2. \A s : NewIn(u, d, s) = NewIn(t, d, s)
    BY <1>1 DEF NewIn
  <2>3. NewsIn(u, d) = NewsIn(t, d)
    BY <1>1 DEF NewsIn
  <2>4. PendingCatchUp(t, d) => PendingCatchUp(u, d)
    BY <1>1, <2>1, <2>2, <2>3 DEF PendingCatchUp
  <2> QED BY <1>1, <2>4 DEF CatchUpSound
<1> QED BY <1>1, <1>2, <1>4, <1>5, <1>6 DEF OpSound, u

\* What a commit means to another request: nothing, or its snapshot is out of
\* date and it holds no lock.
LEMMA CommitBesides ==
  ASSUME Backend = "sqlite", BoardTxInv, NEW p \in Procs, Commit(p), NEW o \in Procs, o # p
  PROVE  /\ Sound(tx'[o], db')
         /\ tx'[o].pc = tx[o].pc /\ tx'[o].req = tx[o].req /\ tx'[o].lock = tx[o].lock
         /\ tx'[o].w = tx[o].w
<1> DEFINE s == tx[o]
           b == s.stale \/ (s.view.taken /\ tx[p].w # NoWrites)
           u == [s EXCEPT !.stale = b]
<1>1. s \in Txs /\ Sound(s, db)
  BY DEF BoardTxInv, TransactionsOK
<1>2. b \in BOOLEAN /\ s.stale \in BOOLEAN
  BY <1>1 DEF Txs
<1>3. tx'[o] = u
  BY DEF Commit, W
<1>4. /\ u.pc = s.pc /\ u.req = s.req /\ u.view = s.view /\ u.lock = s.lock /\ u.w = s.w
      /\ u.stale = b /\ u \in Txs
  BY <1>1, <1>2 DEF Txs
<1>5. CASE tx[p].w = NoWrites
  <2>1. db' = db
    BY <1>5, CommitAt, NothingApplied
  <2>2. u = s
    <3>1. b = s.stale
      BY <1>2, <1>5
    <3> HIDE DEF s, b
    <3> QED BY <1>1, <3>1 DEF Txs
  <2> QED BY <1>1, <1>3, <1>4, <2>1, <2>2
<1>6. CASE tx[p].w # NoWrites
  <2>1. ~ s.lock /\ s.w = NoWrites
    <3>1. tx[p].lock
      BY <1>6, CommitAt
    <3> QED BY <1>1, <3>1 DEF BoardTxInv, TransactionsOK, Sound
  <2>2. s.view.taken => b
    BY <1>6
  <2>3. CASE s.pc = "idle"
    <3>1. s = Idle
      BY <2>3, <1>1 DEF Sound
    <3>2. ~ s.view.taken /\ s.stale = FALSE
      BY <3>1 DEF Idle, NoView
    <3>3. u = Idle
      BY <3>1, <3>2 DEF Idle
    <3>4. Sound(Idle, db')
      BY IdleType DEF Sound, Idle, OpSound, NoView, NoCall
    <3> QED BY <1>3, <1>4, <3>3, <3>4
  <2>4. CASE s.pc # "idle"
    <3>1. s.req \in Calls /\ OpSound(s, ReadBy(s, db))
      BY <1>1, <2>4 DEF Sound
    <3>2. OpSound(u, ReadBy(s, db))
      BY <1>1, <1>2, <3>1, OpSoundWhenStale
    <3> HIDE DEF u, b
    <3>3. OpSound(u, ReadBy(u, db'))
      <4>1. CASE s.view.taken
        BY <3>2, <4>1, <1>4 DEF ReadBy
      <4>2. CASE ~ s.view.taken
        <5>1. OpSound(u, db) /\ ReadBy(u, db') = db'
          BY <3>2, <4>2, <1>4 DEF ReadBy
        <5>2. u.req.op = "create" => CreateSound(u, db')
          <6> SUFFICES ASSUME u.req.op = "create" PROVE CreateSound(u, db')
            OBVIOUS
          <6>1. CreateSound(u, db) /\ u.req.thread \in Threads /\ u.pc = "create"
            BY <5>1, <1>4, <3>1, <2>1, CallTypes DEF OpSound, CreateSound
          <6>2. u.req.thread \notin tx[p].w.opened
            <7>1. CASE tx[p].req.op = "create"
              <8>1. tx[p].w.opened = {tx[p].req.thread}
                <9>1. CreateSound(tx[p], ReadBy(tx[p], db)) /\ tx[p].pc = "commit"
                  BY <7>1, CommitAt
                <9> QED BY <9>1 DEF CreateSound, Creating
              <8>2. tx[p].req.thread # u.req.thread
                BY <7>1, <1>4 DEF BoardTxInv, TransactionsOK, Thread
              <8> QED BY <8>1, <8>2
            <7>2. CASE tx[p].req.op # "create"
              <8>1. tx[p].req.op \in {"reply", "watch", "unwatch", "catchup"}
                BY <7>2, CommitAt, CallTypes
              <8>2. tx[p].w.opened = {}
                <9>1. CASE tx[p].req.op \in {"reply", "watch"}
                  BY <9>1, CommitAt DEF PendingJoin
                <9>2. CASE tx[p].req.op = "unwatch"
                  BY <9>2, CommitAt DEF UnwatchSound
                <9>3. CASE tx[p].req.op = "catchup"
                  BY <9>3, CommitAt DEF PendingCatchUp
                <9> QED BY <8>1, <9>1, <9>2, <9>3
              <8> QED BY <8>2
            <7> QED BY <7>1, <7>2
          <6>3. db'.status[u.req.thread] = db.status[u.req.thread]
            <7>1. db' = Applied(db, tx[p].w)
              BY CommitAt
            <7> QED BY <7>1, <6>1, <6>2 DEF Applied
          <6> QED BY <6>1, <6>3 DEF CreateSound
        <5>3. u.req.op \in {"reply", "watch"} => JoinSound(u, db')
          BY <5>1, <1>4, <4>2 DEF OpSound, JoinSound
        <5>4. u.req.op = "unwatch" => UnwatchSound(u, db')
          BY <5>1, <1>4, <2>1 DEF OpSound, UnwatchSound
        <5>5. u.req.op = "catchup" => CatchUpSound(u, db')
          BY <5>1, <1>4, <4>2 DEF OpSound, CatchUpSound
        <5> QED BY <5>1, <5>2, <5>3, <5>4, <5>5 DEF OpSound
      <4> QED BY <4>1, <4>2
    <3>4. Sound(u, db')
      BY <1>4, <2>1, <2>2, <2>4, <3>1, <3>3 DEF Sound
    <3> QED BY <1>3, <1>4, <3>4
  <2> QED BY <2>3, <2>4
<1> QED BY <1>5, <1>6

\* A commit leaves every transaction sound.
LEMMA CommitStep ==
  ASSUME Backend = "sqlite", BoardTxInv, NEW p \in Procs, Commit(p)
  PROVE  BoardTxInv'
<1>1. tx'[p] = Idle /\ DOMAIN tx' = Procs /\ clock' = clock
  BY DEF Commit
<1>2. tx' = [o \in Procs |-> tx'[o]]
  BY DEF Commit
<1>3. /\ ~ Idle.lock /\ Idle.req.op # "create" /\ Idle.pc = "idle" /\ Idle.w = NoWrites
      /\ NoWrites.at = 0
  BY DEF Idle, NoCall, NoWrites, ZeroTime
<1>4. Sound(Idle, db')
  BY IdleType DEF Sound, Idle, OpSound, NoView, NoCall
<1>5. ASSUME NEW o \in Procs PROVE Sound(tx'[o], db') /\ tx'[o] \in Txs
  BY <1>1, <1>4, CommitBesides DEF Sound
<1>6. TransactionsOK'
  <2>1. tx' \in [Procs -> Txs]
    BY <1>2, <1>5
  <2>2. \A x, o \in Procs : tx'[x].lock /\ tx'[o].lock => x = o
    <3>1. ASSUME NEW x \in Procs, tx'[x].lock PROVE x # p /\ tx[x].lock
      BY <3>1, <1>1, <1>3, CommitBesides
    <3> QED BY <3>1 DEF BoardTxInv, TransactionsOK
  <2>3. \A x, o \in Procs :
          tx'[x].req.op = "create" /\ tx'[o].req.op = "create"
          /\ tx'[x].req.thread = tx'[o].req.thread => x = o
    <3>1. ASSUME NEW x \in Procs, tx'[x].req.op = "create"
          PROVE  tx[x].req.op = "create" /\ tx'[x].req = tx[x].req
      BY <3>1, <1>1, <1>3, CommitBesides
    <3> QED BY <3>1 DEF BoardTxInv, TransactionsOK, Thread
  <2> QED BY <1>5, <2>1, <2>2, <2>3 DEF TransactionsOK, Thread
<1>7. ClockOK'
  <2>1. /\ clock \in Nat /\ db.latest <= clock /\ \A o \in Procs : tx[o].w.at <= clock
        /\ clock + Cardinality(Unstamped) <= MaxClock
    BY DEF BoardTxInv, ClockOK
  <2>2. db'.latest <= clock
    <3>1. db' = Applied(db, tx[p].w)
      BY CommitAt
    <3> QED BY <2>1, <3>1 DEF Applied
  <2>3. \A o \in Procs : tx'[o].w.at <= clock
    BY <2>1, <1>1, <1>3, CommitBesides
  <2>4. Unstamped' = Unstamped
    <3>1. ASSUME NEW o \in Procs
          PROVE  tx'[o].pc \in {"create", "read", "insert"} /\ tx'[o].req.op \in {"create", "reply"}
                 <=> tx[o].pc \in {"create", "read", "insert"} /\ tx[o].req.op \in {"create", "reply"}
      <4>1. CASE o = p
        <5>1. tx[o].pc = "commit" /\ tx'[o].pc = "idle"
          BY <4>1, <1>1, <1>3, CommitAt
        <5> QED BY <5>1
      <4>2. CASE o # p
        BY <4>2, CommitBesides
      <4> QED BY <4>1, <4>2
    <3> QED BY <3>1 DEF Unstamped, Op
  <2> QED BY <1>1, <2>1, <2>2, <2>3, <2>4 DEF ClockOK
<1> QED BY <1>6, <1>7, CommitTablesOK DEF BoardTxInv

\* The server stops and comes back with nothing pending.
LEMMA CrashStep ==
  ASSUME BoardTxInv, Crash
  PROVE  BoardTxInv'
<1>1. tx' = [p \in Procs |-> Idle] /\ UNCHANGED <<db, clock, got, told>>
  BY DEF Crash
<1>2. Sound(Idle, db)
  BY IdleType DEF Sound, Idle, OpSound, NoView, NoCall
<1>3. /\ ~ Idle.lock /\ Idle.req.op # "create" /\ Idle.pc = "idle" /\ Idle.w.at = 0
  BY DEF Idle, NoCall, NoWrites, ZeroTime
<1>4. TransactionsOK'
  <2> HIDE DEF TransactionsOK
  <2>1. \A p \in Procs : tx'[p] = Idle
    BY <1>1
  <2>2. tx' \in [Procs -> Txs]
    BY <1>1, IdleType
  <2> QED BY <1>1, <1>2, <1>3, <2>1, <2>2 DEF TransactionsOK, Thread
<1>5. ClockOK'
  <2>1. clock \in Nat /\ db.latest <= clock /\ clock + Cardinality(Unstamped) <= MaxClock
    BY DEF BoardTxInv, ClockOK
  <2>2. Unstamped' = {}
    BY <1>1, <1>3 DEF Unstamped
  <2>3. Cardinality({}) = 0
    BY FS_EmptySet
  <2>4. clock + 0 <= MaxClock
    BY <2>1, UnstampedFinite, MaxClockAssumption
  <2> QED BY <1>1, <1>3, <2>1, <2>2, <2>3, <2>4 DEF ClockOK
<1>6. TablesOK'
  BY <1>1 DEF BoardTxInv, TablesOK
<1> QED BY <1>4, <1>5, <1>6 DEF BoardTxInv

LEMMA InitEstablishes == Init => BoardTxInv
<1> SUFFICES ASSUME Init PROVE BoardTxInv
  OBVIOUS
<1>1. TablesOK
  <2>1. [t \in Threads |-> "absent"] \in [Threads -> {"absent", "open"}]
    OBVIOUS
  <2>2. [q \in Pairs |-> NoRow] \in [Pairs -> Cursors]
    BY DEF Cursors
  <2>3. db \in Tables
    BY <2>1, <2>2 DEF Init, Tables
  <2>4. db.seen = {} /\ db.mentions = {} /\ db.replies = {}
    BY DEF Init
  <2> QED BY <2>3, <2>4 DEF Init, TablesOK
<1>2. Sound(Idle, db)
  BY IdleType DEF Sound, Idle, OpSound, NoView, NoCall
<1>3. /\ ~ Idle.lock /\ Idle.req.op # "create" /\ Idle.pc = "idle" /\ Idle.w.at = 0
  BY DEF Idle, NoCall, NoWrites, ZeroTime
<1>4. TransactionsOK
  <2>1. tx \in [Procs -> Txs] /\ \A p \in Procs : tx[p] = Idle
    BY IdleType DEF Init
  <2> QED BY <1>2, <1>3, <2>1 DEF TransactionsOK
<1>5. ClockOK
  <2>1. clock = 0 /\ db.latest = 0 /\ \A p \in Procs : tx[p] = Idle
    BY DEF Init, ZeroTime
  <2>2. Unstamped = {}
    BY <1>3, <2>1 DEF Unstamped
  <2>3. Cardinality({}) = 0
    BY FS_EmptySet
  <2> QED BY <1>3, <2>1, <2>2, <2>3, MaxClockAssumption DEF ClockOK
<1> QED BY <1>1, <1>4, <1>5 DEF BoardTxInv

LEMMA NextPreserves == Backend = "sqlite" /\ BoardTxInv /\ [Next]_vars => BoardTxInv'
<1> SUFFICES ASSUME Backend = "sqlite", BoardTxInv, [Next]_vars PROVE BoardTxInv'
  OBVIOUS
<1>1. CASE \E p \in Procs, r \in Calls : Start(p, r)
  BY <1>1, StartStep
<1>2. ASSUME NEW p \in Procs, Statement(p) PROVE BoardTxInv'
  <2>1. CASE CreateThread(p)
    BY <2>1, CreateThreadStep
  <2>2. CASE FirstThread(p)
    BY <2>2, FirstThreadStep
  <2>3. CASE InsertReply(p)
    BY <2>3, InsertReplyStep
  <2>4. CASE InsertWatcher(p)
    BY <2>4, InsertWatcherStep
  <2>5. CASE UpsertCursor(p)
    BY <2>5, UpsertCursorStep
  <2>6. CASE EnsureCursor(p)
    BY <2>6, EnsureCursorStep
  <2>7. CASE InsertMentions(p)
    BY <2>7, InsertMentionsStep
  <2>8. CASE DeleteWatcher(p)
    BY <2>8, DeleteWatcherStep
  <2>9. CASE DeleteCursor(p)
    BY <2>9, DeleteCursorStep
  <2>10. CASE ReadWatches(p)
    BY <2>10, ReadWatchesStep
  <2>11. CASE ReadReplies(p)
    BY <2>11, ReadRepliesStep
  <2>12. CASE UpdateCursor(p)
    BY <2>12, UpdateCursorStep
  <2>13. CASE ReadMentions(p)
    BY <2>13, ReadMentionsStep
  <2>14. CASE MarkMentions(p)
    BY <2>14, MarkMentionsStep
  <2>15. CASE Commit(p)
    BY <2>15, CommitStep
  <2>16. CASE Busy(p)
    BY <2>16, AbortStep DEF Busy
  <2>17. CASE DeadlockDetected(p)
    BY <2>17 DEF DeadlockDetected
  <2> QED BY <1>2, <2>1, <2>2, <2>3, <2>4, <2>5, <2>6, <2>7, <2>8, <2>9, <2>10, <2>11,
             <2>12, <2>13, <2>14, <2>15, <2>16, <2>17 DEF Statement
<1>3. CASE Crash
  BY <1>3, CrashStep
<1>4. CASE UNCHANGED vars
  BY <1>4 DEF vars, BoardTxInv, TablesOK, TransactionsOK, ClockOK, Unstamped, Op, Thread
<1> QED BY <1>1, <1>2, <1>3, <1>4 DEF Next

LEMMA AlwaysBoardTxInv == Backend = "sqlite" => (Spec => []BoardTxInv)
<1>1. ASSUME Backend = "sqlite" PROVE Spec => []BoardTxInv
  <2>1. BoardTxInv /\ [Next]_vars => BoardTxInv'
    BY <1>1, NextPreserves
  <2> QED BY <2>1, InitEstablishes, PTL DEF Spec
<1> QED BY <1>1

-----------------------------------------------------------------------------
\* The tables a locked commit leaves, over the committed ones.
LEMMA LockedCommit ==
  ASSUME Backend = "sqlite", BoardTxInv, NEW p \in Procs, Commit(p), tx[p].lock
  PROVE  /\ ReadBy(tx[p], db) = db
         /\ db.status \in [Threads -> {"absent", "open"}] /\ db.lastRead \in [Pairs -> Cursors]
         /\ db'.status = [s \in Threads |-> IF s \in tx[p].w.opened THEN "open" ELSE db.status[s]]
         /\ db'.replies = db.replies \cup tx[p].w.replies
         /\ db'.watcher = (db.watcher \cup tx[p].w.joined) \ tx[p].w.left
         /\ db'.lastRead = [q \in Pairs |-> IF tx[p].w.lastRead[q] = Kept THEN db.lastRead[q]
                                            ELSE tx[p].w.lastRead[q]]
         /\ db'.mentions = db.mentions \cup tx[p].w.mentions
         /\ db'.seen = db.seen \cup tx[p].w.seen
         /\ db'.latest = IF tx[p].w.at > db.latest THEN tx[p].w.at ELSE db.latest
         /\ db.latest \in Nat
<1>1. db' = Applied(db, tx[p].w) /\ db \in Tables /\ ReadBy(tx[p], db) = db
  BY CommitAt
<1>2. db.latest \in Nat
  BY <1>1 DEF Tables, Instants, ZeroTime
<1> QED BY <1>1, <1>2, AppliedTables DEF Tables

\* A committed CreateThread is the board's.
LEMMA CommittedCreate ==
  ASSUME Backend = "sqlite", BoardTxInv, NEW p \in Procs, Commit(p), tx[p].req.op = "create"
  PROVE  Serial!Next
<1> DEFINE r == tx[p].req
           w == tx[p].w
<1>1. /\ tx[p].pc = "commit" /\ CreateSound(tx[p], ReadBy(tx[p], db))
      /\ r.actor \in Actors /\ r.thread \in Threads /\ r.mentioned \in SUBSET Actors
  BY CommitAt, CallTypes
<1>2. tx[p].lock
  BY <1>1 DEF CreateSound
<1>3. /\ db.status[r.thread] = "absent" /\ w.at \in Instants /\ w.at > db.latest
      /\ w = Creating(r, w.at)
  BY <1>1, <1>2, LockedCommit DEF CreateSound, Stamped
<1>4. /\ w.opened = {r.thread} /\ w.replies = {} /\ w.joined = {<<r.actor, r.thread>>}
      /\ w.left = {} /\ w.seen = {} /\ w.mentions = Serial!MentionRows(r.actor, r.mentioned, w.at)
      /\ w.lastRead = [q \in Pairs |-> IF q = <<r.actor, r.thread>> THEN w.at ELSE Kept]
  BY <1>3 DEF Creating, MentionRows, Serial!MentionRows
<1>5. w.at # Kept
  BY <1>3 DEF Instants, Kept
<1>0. /\ db'.status = [s \in Threads |-> IF s \in w.opened THEN "open" ELSE db.status[s]]
      /\ db'.replies = db.replies \cup w.replies
      /\ db'.watcher = (db.watcher \cup w.joined) \ w.left
      /\ db'.lastRead = [q \in Pairs |-> IF w.lastRead[q] = Kept THEN db.lastRead[q]
                                         ELSE w.lastRead[q]]
      /\ db'.mentions = db.mentions \cup w.mentions
      /\ db'.seen = db.seen \cup w.seen
      /\ db'.latest = IF w.at > db.latest THEN w.at ELSE db.latest
      /\ db.latest \in Nat
      /\ db.status \in [Threads -> {"absent", "open"}] /\ db.lastRead \in [Pairs -> Cursors]
  BY <1>2, LockedCommit
<1> HIDE DEF r, w
<1>6. db'.status = [db.status EXCEPT ![r.thread] = "open"]
  BY <1>0, <1>1, <1>4
<1>7. db'.lastRead = [db.lastRead EXCEPT ![<<r.actor, r.thread>>] = w.at]
  BY <1>0, <1>1, <1>4, <1>5
<1>8. /\ db'.watcher = db.watcher \cup {<<r.actor, r.thread>>}
      /\ db'.mentions = db.mentions \cup Serial!MentionRows(r.actor, r.mentioned, w.at)
      /\ db'.latest = w.at /\ db'.replies = db.replies /\ db'.seen = db.seen
  BY <1>0, <1>3, <1>4
<1>9. got' = got /\ told' = told
  BY DEF Commit, Op
<1>10. Serial!CreateThread(r.actor, r.thread, r.mentioned, w.at)
  BY <1>3, <1>6, <1>7, <1>8, <1>9 DEF Serial!CreateThread, Serial!Exists
<1> QED BY <1>1, <1>3, <1>10 DEF Serial!Next

\* A committed AddReply is the board's.
LEMMA CommittedReply ==
  ASSUME Backend = "sqlite", BoardTxInv, NEW p \in Procs, Commit(p), tx[p].req.op = "reply"
  PROVE  Serial!Next
<1> DEFINE t == tx[p]
           r == t.req
           w == t.w
           own == <<r.actor, r.thread>>
           es == ToSet(r.extras)
<1>1. /\ t.pc = "commit" /\ PendingJoin(t, ReadBy(t, db))
      /\ ReadBy(t, db).status[r.thread] # "absent"
      /\ r.actor \in Actors /\ r.thread \in Threads /\ r.mentioned \in SUBSET Actors
      /\ r.extras \in Seq(Actors)
  BY CommitAt, CallTypes
<1>2. t.lock
  BY <1>1 DEF PendingJoin
<1>3. PendingJoin(t, db) /\ db.status[r.thread] # "absent"
  BY <1>1, <1>2, LockedCommit
<1>0. /\ db'.status = [s \in Threads |-> IF s \in w.opened THEN "open" ELSE db.status[s]]
      /\ db'.replies = db.replies \cup w.replies
      /\ db'.watcher = (db.watcher \cup w.joined) \ w.left
      /\ db'.lastRead = [q \in Pairs |-> IF w.lastRead[q] = Kept THEN db.lastRead[q]
                                         ELSE w.lastRead[q]]
      /\ db'.mentions = db.mentions \cup w.mentions
      /\ db'.seen = db.seen \cup w.seen
      /\ db'.latest = IF w.at > db.latest THEN w.at ELSE db.latest
      /\ db.latest \in Nat
      /\ db.status \in [Threads -> {"absent", "open"}] /\ db.lastRead \in [Pairs -> Cursors]
  BY <1>2, LockedCommit
<1>4. es \in SUBSET Actors
  BY <1>1 DEF ToSet
<1>5. /\ w.at \in Instants /\ w.at > db.latest /\ w.opened = {} /\ w.left = {} /\ w.seen = {}
      /\ w.replies = {[thread |-> r.thread, author |-> r.actor, at |-> w.at]}
      /\ w.mentions = Serial!MentionRows(r.actor, r.mentioned, w.at)
  BY <1>1, <1>3 DEF PendingJoin, PendingPost, Stamped, Replying, MentionRows, Serial!MentionRows
<1>6. db'.watcher = db.watcher \cup ((es \cup {r.actor}) \X {r.thread})
  <2>1. /\ w.joined \subseteq (es \cup {r.actor}) \X {r.thread}
        /\ \A a \in es \cup {r.actor} : <<a, r.thread>> \in db.watcher \cup w.joined
    BY <1>1, <1>3 DEF PendingJoin, JoinedRows, Wanted
  <2>2. db'.watcher = db.watcher \cup w.joined
    BY <1>2, <1>5, LockedCommit
  <2> HIDE DEF es, w, r
  <2> QED BY <2>1, <2>2
<1>7. db'.lastRead = Serial!CursorsAfterReply(r.actor, r.thread, es, w.at)
  <2>1. ASSUME NEW q \in Pairs
        PROVE  db'.lastRead[q] = IF q = own THEN w.at
                                 ELSE IF q[2] = r.thread /\ q[1] \in es /\ db.lastRead[q] = NoRow
                                 THEN ZeroTime ELSE db.lastRead[q]
    <3>1. db'.lastRead[q] = IF w.lastRead[q] = Kept THEN db.lastRead[q] ELSE w.lastRead[q]
      <4> HIDE DEF w, t
      <4> QED BY <1>0
    <3>2. CASE q = own
      <4>1. w.lastRead[q] = w.at
        BY <1>1, <1>3, <3>2 DEF PendingJoin, CursorRows, UpsertedRow, OwnOf
      <4> QED BY <3>1, <3>2, <4>1, <1>5 DEF Instants, Kept
    <3>3. CASE q # own
      <4>1. EnsuredRow(t, db, q)
        BY <1>3, <3>3 DEF PendingJoin, CursorRows, OwnOf
      <4>2. /\ w.lastRead[q] # Kept =>
                 w.lastRead[q] = ZeroTime /\ db.lastRead[q] = NoRow /\ q[1] \in es /\ q[2] = r.thread
            /\ q[1] \in es /\ q[2] = r.thread /\ db.lastRead[q] = NoRow => w.lastRead[q] = ZeroTime
        BY <1>1, <4>1 DEF EnsuredRow, Ensured
      <4> HIDE DEF es, w, r, own
      <4> QED BY <3>1, <3>3, <4>2 DEF ZeroTime, Kept
    <3> QED BY <3>2, <3>3
  <2>2. db'.lastRead = [q \in Pairs |-> db'.lastRead[q]]
    BY <1>2, LockedCommit
  <2>3. Serial!Pairs = Pairs /\ Serial!ZeroTime = ZeroTime /\ Serial!NoRow = NoRow
    BY DEF Serial!Pairs, Pairs, Serial!ZeroTime, ZeroTime, Serial!NoRow, NoRow
  <2> HIDE DEF es, w, r
  <2>4. Serial!CursorsAfterReply(r.actor, r.thread, es, w.at) =
          [q \in Pairs |-> IF q = own THEN w.at
                           ELSE IF q[2] = r.thread /\ q[1] \in es /\ db.lastRead[q] = NoRow
                           THEN ZeroTime ELSE db.lastRead[q]]
    BY <2>3 DEF Serial!CursorsAfterReply, Serial!HasRow
  <2> QED BY <2>1, <2>2, <2>4
<1>8. /\ db'.mentions = db.mentions \cup Serial!MentionRows(r.actor, r.mentioned, w.at)
      /\ db'.replies = db.replies \cup {[thread |-> r.thread, author |-> r.actor, at |-> w.at]}
      /\ db'.latest = w.at /\ db'.seen = db.seen
  BY <1>2, <1>5, LockedCommit
<1>9. db'.status = db.status
  <2> HIDE DEF w, t, r, es
  <2> QED BY <1>0, <1>5
<1>10. got' = got /\ told' = told
  BY DEF Commit, Op
<1> HIDE DEF es, w, r
<1>11. Serial!AddReply(r.actor, r.thread, es, r.mentioned, w.at)
  BY <1>3, <1>5, <1>6, <1>7, <1>8, <1>9, <1>10 DEF Serial!AddReply, Serial!Exists
<1> QED BY <1>1, <1>4, <1>5, <1>11 DEF Serial!Next

\* A committed WatchThread is the board's.
LEMMA CommittedWatch ==
  ASSUME Backend = "sqlite", BoardTxInv, NEW p \in Procs, Commit(p), tx[p].req.op = "watch",
         tx[p].lock
  PROVE  Serial!Next
<1> DEFINE t == tx[p]
           r == t.req
           w == t.w
           own == <<r.actor, r.thread>>
<1>1. /\ t.pc = "commit" /\ r.actor \in Actors /\ r.thread \in Threads
      /\ PendingJoin(t, db) /\ db.status[r.thread] # "absent"
  BY CommitAt, CallTypes, LockedCommit
<1>2. own \in Pairs /\ Wanted(r) = {r.actor} /\ Ensured(r) = {r.actor}
  BY <1>1 DEF Pairs, Wanted, Ensured
<1>3. /\ w.opened = {} /\ w.left = {} /\ w.seen = {} /\ w.at = 0 /\ w.replies = {}
      /\ w.mentions = {}
  BY <1>1 DEF PendingJoin, PendingPost, ZeroTime
<1>4. w.joined \subseteq {own} /\ own \in db.watcher \cup w.joined
  BY <1>1, <1>2 DEF PendingJoin, JoinedRows
<1>5. \A q \in Pairs : w.lastRead[q] = IF q = own /\ db.lastRead[q] = NoRow THEN ZeroTime ELSE Kept
  <2>1. ASSUME NEW q \in Pairs PROVE EnsuredRow(t, db, q)
    BY <1>1 DEF PendingJoin, CursorRows
  <2>2. ASSUME NEW q \in Pairs PROVE q = own <=> q[1] = r.actor /\ q[2] = r.thread
    BY DEF Pairs
  <2> HIDE DEF own, w, t, r
  <2> QED BY <2>1, <2>2, <1>1, <1>2 DEF EnsuredRow, t, r, w
<1>0. /\ db'.status = [s \in Threads |-> IF s \in w.opened THEN "open" ELSE db.status[s]]
      /\ db'.replies = db.replies \cup w.replies
      /\ db'.watcher = (db.watcher \cup w.joined) \ w.left
      /\ db'.lastRead = [q \in Pairs |-> IF w.lastRead[q] = Kept THEN db.lastRead[q]
                                         ELSE w.lastRead[q]]
      /\ db'.mentions = db.mentions \cup w.mentions
      /\ db'.seen = db.seen \cup w.seen
      /\ db'.latest = IF w.at > db.latest THEN w.at ELSE db.latest
      /\ db.latest \in Nat
      /\ db.status \in [Threads -> {"absent", "open"}] /\ db.lastRead \in [Pairs -> Cursors]
  BY LockedCommit
<1>6. got' = got /\ told' = told
  BY DEF Commit, Op
<1> HIDE DEF t, r, w, own
<1>7. /\ db'.status = db.status /\ db'.replies = db.replies /\ db'.mentions = db.mentions
      /\ db'.seen = db.seen /\ db'.latest = db.latest /\ db'.watcher = db.watcher \cup {own}
  BY <1>0, <1>3, <1>4
<1>8. db'.lastRead = IF db.lastRead[own] # NoRow THEN db.lastRead
                     ELSE [db.lastRead EXCEPT ![own] = ZeroTime]
  BY <1>0, <1>2, <1>5 DEF ZeroTime, Kept
<1>9. Serial!WatchThread(r.actor, r.thread)
  BY <1>1, <1>6, <1>7, <1>8
     DEF own, Serial!WatchThread, Serial!Exists, Serial!HasRow, Serial!ZeroTime, ZeroTime,
         Serial!NoRow, NoRow
<1> QED BY <1>1, <1>9 DEF Serial!Next

\* A committed UnwatchThread is the board's.
LEMMA CommittedUnwatch ==
  ASSUME Backend = "sqlite", BoardTxInv, NEW p \in Procs, Commit(p), tx[p].req.op = "unwatch"
  PROVE  Serial!Next
<1> DEFINE t == tx[p]
           r == t.req
           w == t.w
           own == <<r.actor, r.thread>>
<1>1. /\ t.pc = "commit" /\ r.actor \in Actors /\ r.thread \in Threads
      /\ UnwatchSound(t, ReadBy(t, db))
  BY CommitAt, CallTypes
<1>2. t.lock /\ own \in Pairs
  BY <1>1 DEF UnwatchSound, Pairs
<1>3. UnwatchSound(t, db)
  BY <1>1, <1>2, LockedCommit
<1>4. /\ w.opened = {} /\ w.replies = {} /\ w.joined = {} /\ w.mentions = {} /\ w.seen = {}
      /\ w.at = 0 /\ w.left = {own} \cap db.watcher
      /\ \A q \in Pairs : w.lastRead[q] = IF q = own /\ db.lastRead[q] # NoRow THEN NoRow ELSE Kept
  BY <1>1, <1>3 DEF UnwatchSound, OwnOf, ZeroTime
<1>0. /\ db'.status = [s \in Threads |-> IF s \in w.opened THEN "open" ELSE db.status[s]]
      /\ db'.replies = db.replies \cup w.replies
      /\ db'.watcher = (db.watcher \cup w.joined) \ w.left
      /\ db'.lastRead = [q \in Pairs |-> IF w.lastRead[q] = Kept THEN db.lastRead[q]
                                         ELSE w.lastRead[q]]
      /\ db'.mentions = db.mentions \cup w.mentions
      /\ db'.seen = db.seen \cup w.seen
      /\ db'.latest = IF w.at > db.latest THEN w.at ELSE db.latest
      /\ db.latest \in Nat
      /\ db.status \in [Threads -> {"absent", "open"}] /\ db.lastRead \in [Pairs -> Cursors]
  BY <1>2, LockedCommit
<1>5. got' = [got EXCEPT ![r.actor] = {x \in got[r.actor] : x.thread # r.thread}] /\ told' = told
  <2>1. got' = [got EXCEPT ![r.actor] = {x \in @ : x.thread # r.thread}] /\ told' = told
    BY DEF Commit, Op, Actor, Thread
  <2>2. got \in [Actors -> SUBSET db.replies]
    BY DEF BoardTxInv, TablesOK
  <2> HIDE DEF r
  <2> QED BY <2>1, <2>2, <1>1
<1> HIDE DEF t, r, w, own
<1>6. /\ db'.status = db.status /\ db'.replies = db.replies /\ db'.mentions = db.mentions
      /\ db'.seen = db.seen /\ db'.latest = db.latest /\ db'.watcher = db.watcher \ {own}
  BY <1>0, <1>4
<1>7. db'.lastRead = [db.lastRead EXCEPT ![own] = NoRow]
  BY <1>0, <1>2, <1>4 DEF NoRow, Kept
<1>8. Serial!UnwatchThread(r.actor, r.thread)
  BY <1>5, <1>6, <1>7 DEF own, Serial!UnwatchThread, Serial!NoRow, NoRow
<1> QED BY <1>1, <1>8 DEF Serial!Next

\* What the board finds unread in a watch is what the transaction read of it.
LEMMA UnreadIsNew ==
  ASSUME NEW t, NEW d \in Tables, d = db, PendingCatchUp(t, d), NEW q \in Pairs,
         q[1] = t.req.actor
  PROVE  /\ q[2] \in Watched(t) <=> d.lastRead[q] # NoRow
         /\ Serial!Unread(q) = IF q[2] \in Watched(t) THEN NewIn(t, d, q[2]) ELSE {}
<1>1. q[2] \in Threads /\ q = <<t.req.actor, q[2]>>
  BY DEF Pairs
<1>2. \A u \in Threads : t.rows[u] = d.lastRead[<<t.req.actor, u>>]
  BY DEF PendingCatchUp
<1>3. t.rows[q[2]] = d.lastRead[q]
  BY <1>1, <1>2
<1> QED BY <1>1, <1>3 DEF Watched, NewIn, Serial!Unread, Serial!HasRow, Serial!NoRow, NoRow

\* A committed CatchUp is the board's.
LEMMA CommittedCatchUp ==
  ASSUME Backend = "sqlite", BoardTxInv, NEW p \in Procs, Commit(p), tx[p].req.op = "catchup",
         tx[p].lock
  PROVE  Serial!Next
<1> DEFINE t == tx[p]
           a == t.req.actor
           w == t.w
<1>1. /\ PendingCatchUp(t, db) /\ a \in Actors /\ w.seen = NewsIn(t, db) /\ t.news = NewsIn(t, db)
      /\ t.res = {r \in db.replies : r.thread \in Watched(t) /\ r.at > t.rows[r.thread]}
      /\ Done(t) = Watched(t)
  BY CatchUpCommits
<1>2. /\ w.opened = {} /\ w.replies = {} /\ w.joined = {} /\ w.left = {} /\ w.mentions = {}
      /\ w.at = 0
      /\ \A q \in Pairs :
            w.lastRead[q] = IF q[1] = a /\ q[2] \in Watched(t) /\ NewIn(t, db, q[2]) # {}
                            THEN Serial!Latest(NewIn(t, db, q[2])) ELSE Kept
  BY <1>1 DEF PendingCatchUp, ZeroTime
<1>0. /\ db'.status = [s \in Threads |-> IF s \in w.opened THEN "open" ELSE db.status[s]]
      /\ db'.replies = db.replies \cup w.replies
      /\ db'.watcher = (db.watcher \cup w.joined) \ w.left
      /\ db'.lastRead = [q \in Pairs |-> IF w.lastRead[q] = Kept THEN db.lastRead[q]
                                         ELSE w.lastRead[q]]
      /\ db'.mentions = db.mentions \cup w.mentions
      /\ db'.seen = db.seen \cup w.seen
      /\ db'.latest = IF w.at > db.latest THEN w.at ELSE db.latest
      /\ db.latest \in Nat
      /\ db.status \in [Threads -> {"absent", "open"}] /\ db.lastRead \in [Pairs -> Cursors]
  BY LockedCommit
<1>3. got' = [got EXCEPT ![a] = @ \cup t.res] /\ told' = told \cup t.news
  BY DEF Commit, Op, Actor
<1>4. db \in Tables
  BY CommitAt
<1>5. ASSUME NEW q \in Pairs, q[1] = a
      PROVE  Serial!Unread(q) = IF q[2] \in Watched(t) THEN NewIn(t, db, q[2]) ELSE {}
  BY <1>1, <1>4, <1>5, UnreadIsNew
<1> HIDE DEF t, a, w
<1>6. /\ db'.status = db.status /\ db'.replies = db.replies /\ db'.mentions = db.mentions
      /\ db'.latest = db.latest /\ db'.watcher = db.watcher /\ db'.seen = db.seen \cup w.seen
  BY <1>0, <1>2
<1>7. db'.lastRead = Serial!CursorsAfterCatchUp(a)
  <2>1. ASSUME NEW q \in Pairs
        PROVE  db'.lastRead[q] = IF q[1] = a /\ Serial!Unread(q) # {} THEN Serial!Latest(Serial!Unread(q))
                                 ELSE db.lastRead[q]
    <3>1. db'.lastRead[q] = IF w.lastRead[q] = Kept THEN db.lastRead[q] ELSE w.lastRead[q]
      BY <1>0
    <3>2. CASE q[1] = a /\ Serial!Unread(q) # {}
      <4>1. q[2] \in Watched(t) /\ Serial!Unread(q) = NewIn(t, db, q[2]) /\ NewIn(t, db, q[2]) # {}
        BY <3>2, <1>5
      <4>2. NewIn(t, db, q[2]) \in SUBSET Serial!Replies
        BY <1>4 DEF NewIn, Tables
      <4>3. Serial!Latest(NewIn(t, db, q[2])) # Kept
        <5>1. Serial!Latest(NewIn(t, db, q[2])) \in Instants
          BY <4>1, <4>2, LatestIs
        <5> QED BY <5>1 DEF Instants, Kept
      <4> QED BY <3>1, <3>2, <4>1, <4>3, <1>2
    <3>3. CASE ~ (q[1] = a /\ Serial!Unread(q) # {})
      <4>1. ~ (q[1] = a /\ q[2] \in Watched(t) /\ NewIn(t, db, q[2]) # {})
        BY <3>3, <1>5
      <4> QED BY <3>1, <3>3, <4>1, <1>2
    <3> QED BY <3>2, <3>3
  <2>2. db'.lastRead = [q \in Pairs |-> db'.lastRead[q]] /\ Serial!Pairs = Pairs
    BY <1>0 DEF Serial!Pairs, Pairs
  <2> QED BY <2>1, <2>2 DEF Serial!CursorsAfterCatchUp
<1>8. Serial!AllUnread(a) = t.res
  <2>1. ASSUME NEW u \in Threads
        PROVE  Serial!Unread(<<a, u>>) = IF u \in Watched(t) THEN NewIn(t, db, u) ELSE {}
    <3>1. <<a, u>> \in Pairs
      BY <1>1 DEF Pairs
    <3> QED BY <3>1, <1>5
  <2>2. ASSUME NEW x PROVE x \in Serial!AllUnread(a) <=> x \in t.res
    <3>1. x \in Serial!AllUnread(a) <=> \E u \in Threads : x \in Serial!Unread(<<a, u>>)
      BY DEF Serial!AllUnread
    <3>2. x \in t.res <=> \E u \in Threads : u \in Watched(t) /\ x \in NewIn(t, db, u)
      BY <1>1 DEF NewIn, Watched
    <3> QED BY <2>1, <3>1, <3>2
  <2> QED BY <2>2
<1>9. Serial!MarkedSeen(a) = NewsIn(t, db) /\ Serial!UnseenMentions(a) = NewsIn(t, db)
  BY DEF NewsIn, Serial!MarkedSeen, Serial!UnseenMentions, a
<1>10. Serial!CatchUp(a)
  BY <1>1, <1>3, <1>6, <1>7, <1>8, <1>9 DEF Serial!CatchUp
<1> QED BY <1>1, <1>10 DEF Serial!Next

\* Only a commit changes the tables or what catch_up has returned.
LEMMA OnlyCommits ==
  ASSUME [Next]_vars, \A p \in Procs : ~ Commit(p)
  PROVE  UNCHANGED <<db, got, told>>
<1>1. ASSUME NEW p \in Procs, Statement(p) PROVE UNCHANGED <<db, got, told>>
  BY <1>1 DEF Statement, CreateThread, FirstThread, InsertReply, InsertWatcher, UpsertCursor,
              EnsureCursor, InsertMentions, DeleteWatcher, DeleteCursor, ReadWatches,
              ReadReplies, UpdateCursor, ReadMentions, MarkMentions, Busy, DeadlockDetected,
              Reads, Writes, Abort
<1>2. ASSUME NEW p \in Procs, NEW r \in Calls, Start(p, r) PROVE UNCHANGED <<db, got, told>>
  BY <1>2 DEF Start
<1>3. CASE Crash
  BY <1>3 DEF Crash
<1>4. CASE UNCHANGED vars
  BY <1>4 DEF vars
<1> QED BY <1>1, <1>2, <1>3, <1>4 DEF Next

-----------------------------------------------------------------------------
\* Every step is one of the board's or none of its business.
LEMMA StepMaps ==
  ASSUME Backend = "sqlite", BoardTxInv, [Next]_vars
  PROVE  [Serial!Next]_(Serial!vars)
<1>1. ASSUME NEW p \in Procs, Commit(p), tx[p].lock PROVE Serial!Next
  <2>1. tx[p].req.op \in {"create", "reply", "watch", "unwatch", "catchup"}
    BY <1>1, CommitAt, CallTypes
  <2> QED BY <1>1, <2>1, CommittedCreate, CommittedReply, CommittedWatch, CommittedUnwatch,
             CommittedCatchUp
<1>2. ASSUME NEW p \in Procs, Commit(p), ~ tx[p].lock PROVE UNCHANGED <<db, got, told>>
  BY <1>2, UnlockedCommit
<1>3. CASE \A p \in Procs : ~ Commit(p)
  BY <1>3, OnlyCommits DEF Serial!vars
<1> QED BY <1>1, <1>2, <1>3 DEF Serial!vars

LEMMA InitMaps == Init => Serial!Init
  BY DEF Init, Serial!Init, Serial!Pairs, Pairs, Serial!NoRow, NoRow, Serial!ZeroTime, ZeroTime

\* On SQLite the board's transactions take effect one at a time, in the order
\* of their commits: whatever statements of however many concurrent requests
\* are interleaved, whichever of them fail on SQLITE_BUSY or in a crash, the
\* tables and the answers of catch_up are those of a run of Board.
THEOREM SerialOnSqlite == Backend = "sqlite" => (Spec => SerialSpec)
<1>1. ASSUME Backend = "sqlite" PROVE Spec => SerialSpec
  <2>1. Spec => []BoardTxInv
    BY <1>1, AlwaysBoardTxInv
  <2>2. BoardTxInv /\ [Next]_vars => [Serial!Next]_(Serial!vars)
    BY <1>1, StepMaps
  <2> QED BY <2>1, <2>2, InitMaps, PTL DEF Spec, SerialSpec, Serial!Spec
<1> QED BY <1>1

\* What holds of the tables, by the types of what the transactions keep.
LEMMA InvTypes == Backend = "sqlite" /\ BoardTxInv => TypeOK
<1> SUFFICES ASSUME Backend = "sqlite", BoardTxInv PROVE TypeOK
  OBVIOUS
<1>1. Serial!TypeOK
  BY DEF BoardTxInv, TablesOK, Tables, Serial!TypeOK, Cursors, Serial!Pairs, Pairs,
         Serial!NoRow, NoRow, Serial!ZeroTime, ZeroTime
<1>2. clock \in 0 .. MaxClock
  BY UnstampedFinite, MaxClockAssumption DEF BoardTxInv, ClockOK
<1>3. ASSUME NEW p \in Procs
      PROVE  /\ ~ Active(p) => tx[p] = Idle
             /\ Active(p) => tx[p].req \in Calls
             /\ tx[p].pc \in Writing \cup {"idle", "read", "watches", "replies", "select", "commit"}
  BY DEF BoardTxInv, TransactionsOK, Sound, Active, Txs, Pcs
<1>4. \A p, o \in Procs : tx[p].lock /\ tx[o].lock => p = o
  BY DEF BoardTxInv, TransactionsOK
<1> QED BY <1>1, <1>2, <1>3, <1>4 DEF TypeOK

-----------------------------------------------------------------------------
(***************************************************************************)
(* Postgres.  A transaction reads what others commit while it runs, so its *)
(* pending writes cannot be told from the tables alone.  PostgresTypes     *)
(* holds of any requests.  PostgresOrder holds when an actor has one call  *)
(* at a time: nobody else then writes its cursors, so a cursor a           *)
(* transaction sets is later than the committed one until it commits.      *)
(***************************************************************************)
\* The statements of each operation.
PcsOf(op) ==
    CASE op = "create"  -> {"create", "commit"}
      [] op = "reply"   -> {"read", "insert", "watcher", "cursor", "ensure", "mentions", "commit"}
      [] op = "watch"   -> {"read", "watcher", "ensure", "commit"}
      [] op = "unwatch" -> {"unwatch", "uncursor", "commit"}
      [] OTHER          -> {"watches", "replies", "update", "select", "mark", "commit"}

\* The replies of thread u a catch_up has read.
ResIn(t, u) == {r \in t.res : r.thread = u}

LoopSound(t) ==
    /\ t.pc \in {"watcher", "ensure"} => t.todo \in Seq(Actors) /\ t.todo # << >>
    /\ t.pc \in {"replies", "update"} => t.todo \in Seq(Threads) /\ t.todo # << >>
    /\ t.pc = "update" => ResIn(t, Head(t.todo)) # {}

\* What holds of a transaction on Postgres with the tables d committed: it
\* reads the committed tables and holds rows, not the database.
Typed(t, d) ==
    /\ t \in Txs
    /\ t.view = NoView /\ ~ t.lock /\ ~ t.stale
    /\ IF t.pc = "idle" THEN t = Idle ELSE t.req \in Calls /\ t.pc \in PcsOf(t.req.op)
    /\ LoopSound(t)
    /\ t.req.op = "reply" /\ t.pc \notin {"read", "insert"} => t.w.at \in Instants
    /\ t.w.opened \subseteq IF t.req.op = "create" THEN {t.req.thread} ELSE {}
    /\ t.res \subseteq d.replies /\ t.news \subseteq d.mentions /\ t.w.seen \subseteq d.mentions

PostgresTypes ==
    /\ TablesOK
    /\ tx \in [Procs -> Txs]
    /\ \A p \in Procs : Typed(tx[p], db)
    /\ ClockOK

-----------------------------------------------------------------------------
\* A pending cursor is later than the committed one; only an unwatch takes
\* a row away, its own; a row of somebody else's is a new one.
PendingCursors(t, d) ==
    \A q \in Pairs : t.w.lastRead[q] # Kept =>
        /\ IF t.w.lastRead[q] = NoRow THEN t.req.op = "unwatch" /\ q = OwnOf(t.req)
                                      ELSE t.w.lastRead[q] > d.lastRead[q]
        /\ q[1] # t.req.actor =>
              /\ t.w.lastRead[q] = ZeroTime
              /\ t.req.op \in {"reply", "watch"} /\ t.pc # "read" /\ q[2] = t.req.thread

\* A reply or a watch has found its thread; a reply will be later than its
\* author's cursor.
JoinAhead(t, d) ==
    /\ t.pc # "read" => d.status[t.req.thread] # "absent"
    /\ t.req.op = "reply" /\ t.pc \in {"watcher", "cursor"} => t.w.at > d.lastRead[OwnOf(t.req)]

\* The rows of a catch_up's watches are as it read them; what it returns is
\* past them and covered by the cursors it has set so far.
CatchUpAhead(t, d) ==
    /\ t.pc # "watches" =>
        \A u \in Threads : t.rows[u] # NoRow => d.lastRead[<<t.req.actor, u>>] = t.rows[u]
    /\ t.pc \in {"replies", "update"} => ToSet(t.todo) \subseteq Watched(t)
    /\ t.pc = "watches" => t.res = {}
    /\ \A r \in t.res :
          /\ t.rows[r.thread] # NoRow /\ r.at > t.rows[r.thread]
          /\ \/ r.at <= t.w.lastRead[<<t.req.actor, r.thread>>]
             \/ t.pc = "update" /\ r.thread = Head(t.todo)
    /\ \A m \in t.news : m.actor = t.req.actor
    /\ t.pc = "commit" => t.news \subseteq d.seen \cup t.w.seen

Ahead(t, d) ==
    /\ PendingCursors(t, d)
    /\ t.req.op = "create" => d.status[t.req.thread] = "absent"
    /\ t.req.op \in {"reply", "watch"} => JoinAhead(t, d)
    /\ t.req.op = "catchup" => CatchUpAhead(t, d)

\* What catch_up returned is at or below the cursor, and marked seen.
Returned ==
    /\ \A a \in Actors : \A r \in got[a] :
          db.lastRead[<<a, r.thread>>] # NoRow /\ r.at <= db.lastRead[<<a, r.thread>>]
    /\ told \subseteq db.seen

\* No timestamp is ahead of the application's clock.
TimesOK ==
    /\ \A q \in Pairs : db.lastRead[q] <= clock
    /\ \A r \in db.replies : r.at <= clock
    /\ \A p \in Procs :
          /\ \A q \in Pairs : tx[p].w.lastRead[q] <= clock
          /\ \A r \in tx[p].w.replies : r.at <= clock

\* Two requests are of different actors, write different cursors and create
\* different threads.
Apart(t, u) ==
    /\ t.pc # "idle" /\ u.pc # "idle" => t.req.actor # u.req.actor
    /\ \A q \in Pairs : t.w.lastRead[q] # Kept => u.w.lastRead[q] = Kept
    /\ t.req.op = "create" /\ u.req.op = "create" => t.req.thread # u.req.thread

PostgresOrder ==
    /\ Returned
    /\ TimesOK
    /\ \A p \in Procs : Ahead(tx[p], db)
    /\ \A p, o \in Procs : p # o => Apart(tx[p], tx[o])

PostgresInv == PostgresTypes /\ (OneCallPerActor => PostgresOrder)

\* Two timestamps and a clock that only moves forward.
LEMMA Later ==
  ASSUME NEW x \in Int, NEW c \in Nat, NEW e \in Nat, x <= c, c <= e
  PROVE  x <= e
  OBVIOUS

\* A step of p that commits nothing is about p's transaction alone.
LEMMA PostgresLocal ==
  ASSUME PostgresInv, NEW p \in Procs,
         UNCHANGED <<db, got, told>>,
         tx' = [tx EXCEPT ![p] = tx'[p]],
         Typed(tx'[p], db),
         tx'[p].w.at <= clock',
         \/ clock' = clock /\ (Stamping(tx'[p]) => Stamping(tx[p]))
         \/ clock' = clock /\ clock + Cardinality(Unstamped) < MaxClock
         \/ clock' = clock + 1 /\ Stamping(tx[p]) /\ ~ Stamping(tx'[p]),
         OneCallPerActor =>
            /\ Ahead(tx'[p], db)
            /\ \A o \in Procs \ {p} : Apart(tx'[p], tx[o])
            /\ \A q \in Pairs : tx'[p].w.lastRead[q] <= clock'
            /\ \A r \in tx'[p].w.replies : r.at <= clock'
  PROVE  PostgresInv'
<1>1. TablesOK /\ ClockOK /\ tx \in [Procs -> Txs] /\ \A o \in Procs : Typed(tx[o], db)
  BY DEF PostgresInv, PostgresTypes
<1>2. tx'[p] \in Txs
  BY DEF Typed
<1>3. tx' \in [Procs -> Txs] /\ \A o \in Procs \ {p} : tx'[o] = tx[o]
  BY <1>1, <1>2
<1>4. ClockOK' /\ clock' \in Nat /\ clock' >= clock
  BY <1>1, ClockStep
<1>5. TablesOK'
  BY <1>1 DEF TablesOK
<1>6. \A o \in Procs : Typed(tx'[o], db')
  BY <1>1, <1>3
<1>7. PostgresTypes'
  BY <1>3, <1>4, <1>5, <1>6 DEF PostgresTypes
<1>8. ASSUME OneCallPerActor PROVE PostgresOrder'
  <2>1. Returned /\ TimesOK /\ (\A o \in Procs : Ahead(tx[o], db))
        /\ \A x, o \in Procs : x # o => Apart(tx[x], tx[o])
    BY <1>8 DEF PostgresInv, PostgresOrder
  <2>2. Returned'
    BY <2>1 DEF Returned
  <2>3. \A o \in Procs : Ahead(tx'[o], db')
    BY <1>3, <1>8, <2>1
  <2>4. ASSUME NEW x \in Procs, NEW o \in Procs, x # o PROVE Apart(tx'[x], tx'[o])
    <3>1. CASE x = p
      BY <3>1, <1>3, <1>8, <2>4
    <3>2. CASE o = p
      <4>1. Apart(tx'[p], tx[x]) /\ tx'[x] = tx[x]
        BY <3>2, <1>3, <1>8, <2>4
      <4> QED BY <3>2, <4>1 DEF Apart
    <3>3. CASE x # p /\ o # p
      BY <3>3, <1>3, <2>1, <2>4
    <3> QED BY <3>1, <3>2, <3>3
  <2>5. TimesOK'
    <3>1. clock \in Nat
      BY <1>1 DEF ClockOK
    <3>2. ASSUME NEW q \in Pairs PROVE db'.lastRead[q] <= clock'
      <4>1. db.lastRead[q] \in Int /\ db.lastRead[q] <= clock
        BY <1>1, <2>1 DEF TablesOK, Tables, Cursors, Instants, ZeroTime, NoRow, TimesOK
      <4> QED BY <4>1, <3>1, <1>4, Later
    <3>3. ASSUME NEW r \in db.replies PROVE r.at <= clock'
      <4>1. r.at \in Int /\ r.at <= clock
        BY <1>1, <2>1 DEF TablesOK, Tables, Serial!Replies, Instants, TimesOK
      <4> QED BY <4>1, <3>1, <1>4, Later
    <3>4. ASSUME NEW o \in Procs \ {p}, NEW q \in Pairs PROVE tx'[o].w.lastRead[q] <= clock'
      <4>1. tx[o].w.lastRead[q] \in Int /\ tx[o].w.lastRead[q] <= clock
        BY <1>1, <2>1 DEF Txs, Pendings, Cursors, Instants, ZeroTime, NoRow, Kept, TimesOK
      <4> QED BY <4>1, <3>1, <1>3, <1>4, Later
    <3>5. ASSUME NEW o \in Procs \ {p}, NEW r \in tx[o].w.replies PROVE r.at <= clock'
      <4>1. r \in Serial!Replies
        BY <1>1 DEF Txs, Pendings
      <4>2. r.at \in Int /\ r.at <= clock
        BY <4>1, <2>1 DEF Serial!Replies, Instants, TimesOK
      <4> QED BY <4>2, <3>1, <1>4, Later
    <3> QED BY <1>3, <1>8, <3>2, <3>3, <3>4, <3>5 DEF TimesOK
  <2> QED BY <2>2, <2>3, <2>4, <2>5 DEF PostgresOrder
<1> QED BY <1>7, <1>8 DEF PostgresInv

\* A transaction with nothing pending, as before its first statement.
LEMMA NothingPending ==
  ASSUME PostgresInv, NEW u, u.w = NoWrites
  PROVE  /\ \A q \in Pairs : u.w.lastRead[q] = Kept
         /\ u.w.at = ZeroTime /\ u.w.replies = {} /\ u.w.seen = {} /\ u.w.opened = {}
         /\ clock \in Nat
         /\ \A q \in Pairs : u.w.lastRead[q] <= clock
         /\ PendingCursors(u, db)
<1>1. (\A q \in Pairs : u.w.lastRead[q] = Kept) /\ u.w.at = ZeroTime /\ u.w.replies = {}
      /\ u.w.seen = {} /\ u.w.opened = {}
  BY DEF NoWrites
<1>2. clock \in Nat
  BY DEF PostgresInv, PostgresTypes, ClockOK
<1> QED BY <1>1, <1>2 DEF PendingCursors, Kept

LEMMA IdleTyped ==
  /\ Typed(Idle, db)
  /\ ~ Stamping(Idle) /\ Idle.w = NoWrites /\ Idle.pc = "idle" /\ Idle.req = NoCall
<1>1. /\ Idle.pc = "idle" /\ Idle.req = NoCall /\ Idle.view = NoView /\ Idle.lock = FALSE
      /\ Idle.stale = FALSE /\ Idle.w = NoWrites /\ Idle.res = {} /\ Idle.news = {}
  BY DEF Idle
<1>2. Idle.w.seen = {} /\ Idle.w.opened = {} /\ Idle.req.op = "none"
  BY <1>1 DEF NoWrites, NoCall
<1> HIDE DEF Idle
<1> QED BY <1>1, <1>2, IdleType DEF Typed, LoopSound, Stamping

LEMMA IdleAhead ==
  ASSUME PostgresInv
  PROVE  Ahead(Idle, db) /\ \A u : Apart(Idle, u)
<1>1. Idle.w = NoWrites /\ Idle.pc = "idle" /\ Idle.req.op = "none"
  BY DEF Idle, NoCall
<1> HIDE DEF Idle
<1>2. PendingCursors(Idle, db) /\ \A q \in Pairs : Idle.w.lastRead[q] = Kept
  BY <1>1, NothingPending
<1> QED BY <1>1, <1>2 DEF Ahead, Apart

\* A request that ends without committing: not found, or failed in a deadlock.
LEMMA PostgresAbort ==
  ASSUME PostgresInv, NEW p \in Procs, Abort(p)
  PROVE  PostgresInv'
<1>1. tx \in [Procs -> Txs] /\ UNCHANGED <<db, got, told, clock>>
  BY DEF PostgresInv, PostgresTypes, Abort
<1>2. tx'[p] = Idle /\ tx' = [tx EXCEPT ![p] = tx'[p]]
  BY <1>1 DEF Abort
<1>3. /\ Typed(Idle, db) /\ ~ Stamping(Idle) /\ Idle.w = NoWrites
      /\ Idle.pc = "idle" /\ Idle.req.op = "none"
  BY IdleTyped DEF NoCall
<1> HIDE DEF Idle
<1>4. /\ \A q \in Pairs : Idle.w.lastRead[q] = Kept
      /\ Idle.w.at <= clock /\ Idle.w.replies = {}
      /\ \A q \in Pairs : Idle.w.lastRead[q] <= clock
  BY <1>3, NothingPending DEF ZeroTime
<1>5. Ahead(Idle, db) /\ \A o \in Procs : Apart(Idle, tx[o])
  BY <1>3, <1>4, IdleAhead DEF Apart
<1> QED BY <1>1, <1>2, <1>3, <1>4, <1>5, PostgresLocal

\* A request arrives: its actor has none under way, its thread, if it makes
\* one, is nobody else's.
LEMMA PostgresStart ==
  ASSUME PostgresInv, NEW p \in Procs, NEW r \in Calls, Start(p, r)
  PROVE  PostgresInv'
<1> DEFINE u == [Idle EXCEPT !.pc = FirstStatement(r.op), !.req = r]
<1>1. tx \in [Procs -> Txs] /\ \A o \in Procs : Typed(tx[o], db)
  BY DEF PostgresInv, PostgresTypes
<1>2. /\ u.pc = FirstStatement(r.op) /\ u.req = r /\ u.view = NoView /\ u.lock = FALSE
      /\ u.stale = FALSE /\ u.w = NoWrites /\ u.res = {} /\ u.news = {}
  BY DEF Idle
<1>3. /\ r.op \in {"create", "reply", "watch", "unwatch", "catchup"}
      /\ u.pc \in PcsOf(r.op) /\ u.pc \in {"create", "read", "unwatch", "watches"}
      /\ (u.pc = "create" => r.op = "create") /\ (u.pc = "watches" <=> r.op = "catchup")
      /\ (r.op \in {"reply", "watch"} => u.pc = "read")
  BY <1>2, CallTypes DEF FirstStatement, PcsOf
<1>4. u \in Txs
  <2>1. u.pc \in Pcs
    BY <1>3 DEF Pcs, Writing
  <2> QED BY <2>1, <1>2, IdleType DEF Txs
<1>5. /\ tx'[p] = u /\ tx' = [tx EXCEPT ![p] = tx'[p]] /\ UNCHANGED <<db, clock, got, told>>
      /\ Stamping(u) => clock + Cardinality(Unstamped) < MaxClock
  BY <1>1, <1>2 DEF Start, Stamping
<1>6. \A o \in Procs : Active(o) => tx[o].req \in Calls
  BY <1>1 DEF Typed, Active
<1>7. \A o \in Procs : ~ Active(o) => tx[o].req.op # "create" /\ tx[o].pc = "idle"
  BY <1>1 DEF Typed, Active, Idle, NoCall
<1>8. r.op = "create" => /\ db.status[r.thread] = "absent"
                         /\ \A o \in Procs \ {p} : tx[o].req.op = "create" => tx[o].req.thread # r.thread
  BY <1>7 DEF Start, Op, Thread
<1>9. ASSUME OneCallPerActor, NEW o \in Procs \ {p}, tx[o].pc # "idle" PROVE tx[o].req.actor # r.actor
  BY <1>9 DEF Start, Active, Actor
<1> HIDE DEF u
<1>10. /\ \A q \in Pairs : u.w.lastRead[q] = Kept /\ u.w.lastRead[q] <= clock
       /\ u.w.at <= clock /\ u.w.replies = {} /\ u.w.seen = {} /\ u.w.opened = {}
       /\ PendingCursors(u, db)
  BY <1>2, NothingPending DEF ZeroTime
<1>11. Typed(u, db)
  BY <1>2, <1>3, <1>4, <1>10 DEF Typed, LoopSound
<1>12. Ahead(u, db)
  <2>1. CatchUpAhead(u, db) \/ r.op # "catchup"
    BY <1>2, <1>3 DEF CatchUpAhead
  <2>2. JoinAhead(u, db) \/ r.op \notin {"reply", "watch"}
    BY <1>2, <1>3 DEF JoinAhead
  <2> QED BY <1>2, <1>8, <1>10, <2>1, <2>2 DEF Ahead
<1>13. ASSUME OneCallPerActor, NEW o \in Procs \ {p} PROVE Apart(u, tx[o])
  BY <1>2, <1>8, <1>9, <1>10, <1>13 DEF Apart
<1>14. \/ clock' = clock /\ (Stamping(u) => Stamping(tx[p]))
       \/ clock' = clock /\ clock + Cardinality(Unstamped) < MaxClock
  BY <1>5
<1> QED BY <1>5, <1>10, <1>11, <1>12, <1>13, <1>14, PostgresLocal

-----------------------------------------------------------------------------
\* A statement of a request under way: what is to be shown of it.
LEMMA PostgresContinue ==
  ASSUME PostgresInv, NEW p \in Procs, NEW u, tx[p].pc # "idle", u.pc # "idle",
         UNCHANGED <<db, got, told>>,
         tx' = [tx EXCEPT ![p] = u],
         u.req = tx[p].req,
         Typed(u, db),
         Stamping(u) => Stamping(tx[p]),
         \/ clock' = clock /\ u.w.at = tx[p].w.at /\ u.w.replies = tx[p].w.replies
         \/ /\ clock' = clock + 1 /\ u.w.at = clock' /\ Stamping(tx[p]) /\ ~ Stamping(u)
            /\ \A r \in u.w.replies : r.at = clock',
         OneCallPerActor =>
            \A q \in Pairs : \/ u.w.lastRead[q] \in {Kept, tx[p].w.lastRead[q]}
                             \/ /\ u.w.lastRead[q] <= clock'
                                /\ \A o \in Procs \ {p} : tx[o].w.lastRead[q] = Kept,
         OneCallPerActor => Ahead(u, db)
  PROVE  PostgresInv'
<1>1. tx \in [Procs -> Txs] /\ tx[p] \in Txs /\ clock \in Nat /\ tx[p].w.at <= clock
  BY DEF PostgresInv, PostgresTypes, ClockOK
<1>2. tx'[p] = u /\ tx' = [tx EXCEPT ![p] = tx'[p]]
  BY <1>1
<1>3. u.w.at <= clock' /\ clock' \in Nat /\ clock <= clock'
  BY <1>1
<1>4. ASSUME OneCallPerActor
      PROVE  /\ \A o \in Procs \ {p} : Apart(u, tx[o])
             /\ \A q \in Pairs : u.w.lastRead[q] <= clock'
             /\ \A r \in u.w.replies : r.at <= clock'
  <2>1. TimesOK /\ \A o \in Procs \ {p} : Apart(tx[p], tx[o])
    BY <1>4 DEF PostgresInv, PostgresOrder
  <2>2. \A o \in Procs \ {p} : Apart(u, tx[o])
    BY <1>4, <2>1 DEF Apart
  <2>3. ASSUME NEW q \in Pairs PROVE u.w.lastRead[q] <= clock'
    <3>1. tx[p].w.lastRead[q] \in Int /\ tx[p].w.lastRead[q] <= clock
      BY <1>1, <2>1 DEF Txs, Pendings, Cursors, Instants, ZeroTime, NoRow, Kept, TimesOK
    <3>2. tx[p].w.lastRead[q] <= clock' /\ Kept <= clock'
      BY <3>1, <1>1, <1>3, Later DEF Kept
    <3> QED BY <3>2, <1>4
  <2>4. ASSUME NEW r \in u.w.replies PROVE r.at <= clock'
    <3>1. CASE clock' = clock /\ u.w.replies = tx[p].w.replies
      BY <3>1, <2>1 DEF TimesOK
    <3>2. CASE r.at = clock'
      BY <3>2, <1>3
    <3> QED BY <3>1, <3>2
  <2> QED BY <2>2, <2>3, <2>4
<1>5. \/ clock' = clock /\ (Stamping(u) => Stamping(tx[p]))
      \/ clock' = clock + 1 /\ Stamping(tx[p]) /\ ~ Stamping(u)
  OBVIOUS
<1> QED BY <1>2, <1>3, <1>4, <1>5, PostgresLocal

\* A writing statement waits until nobody else has the row pending.
LEMMA PostgresWrites ==
  ASSUME Backend = "postgres", PostgresInv, NEW p \in Procs, NEW u,
         u = [u EXCEPT !.lock = FALSE], Writes(p, u)
  PROVE  /\ tx' = [tx EXCEPT ![p] = u] /\ UNCHANGED <<db, got, told>>
         /\ \A q \in Pairs : <<"lastRead", q>> \in Needs(p) =>
               \A o \in Procs \ {p} : tx[o].w.lastRead[q] = Kept
<1>1. tx' = [tx EXCEPT ![p] = u] /\ UNCHANGED <<db, got, told>>
  BY DEF Writes
<1>2. ASSUME NEW q \in Pairs, <<"lastRead", q>> \in Needs(p), NEW o \in Procs \ {p}
      PROVE  tx[o].w.lastRead[q] = Kept
  <2>1. Needs(p) \cap Holds(o) = {}
    BY DEF Writes, CanWrite, Waits
  <2>2. tx[o].w.lastRead[q] # Kept => <<"lastRead", q>> \in Holds(o)
    BY DEF Holds
  <2> QED BY <2>1, <2>2, <1>2
<1> QED BY <1>1, <1>2

\* What is known of a transaction under way.
LEMMA PostgresAt ==
  ASSUME PostgresInv, NEW p \in Procs, tx[p].pc # "idle"
  PROVE  /\ tx[p] \in Txs /\ tx[p].req \in Calls /\ Typed(tx[p], db)
         /\ tx[p].pc \in PcsOf(tx[p].req.op) /\ tx[p].req.actor \in Actors
         /\ tx[p].req.op \in {"create", "reply", "watch", "unwatch", "catchup"}
         /\ tx[p].req.op # "catchup" => tx[p].req.thread \in Threads /\ OwnOf(tx[p].req) \in Pairs
         /\ tx[p].w \in Pendings
         /\ OneCallPerActor => Ahead(tx[p], db) /\ PendingCursors(tx[p], db)
<1>1. Typed(tx[p], db)
  BY DEF PostgresInv, PostgresTypes
<1>2. tx[p] \in Txs /\ tx[p].req \in Calls /\ tx[p].pc \in PcsOf(tx[p].req.op)
  BY <1>1 DEF Typed
<1>3. tx[p].w \in Pendings
  BY <1>2 DEF Txs
<1>4. OneCallPerActor => Ahead(tx[p], db) /\ PendingCursors(tx[p], db)
  BY DEF PostgresInv, PostgresOrder, Ahead
<1>5. tx[p].req.op # "catchup" => OwnOf(tx[p].req) \in Pairs
  BY <1>2, CallTypes DEF OwnOf, Pairs
<1> QED BY <1>1, <1>2, <1>3, <1>4, <1>5, CallTypes

\* CreateThread's rows in their types.
LEMMA CreatingTypes ==
  ASSUME NEW r \in Calls, r.op = "create", NEW at \in Instants
  PROVE  /\ Creating(r, at) \in Pendings
         /\ \A q \in Pairs : Creating(r, at).lastRead[q] = IF q = OwnOf(r) THEN at ELSE Kept
         /\ Creating(r, at).at = at /\ Creating(r, at).replies = {} /\ Creating(r, at).seen = {}
         /\ Creating(r, at).opened = {r.thread}
<1>1. r.actor \in Actors /\ r.thread \in Threads /\ r.mentioned \in SUBSET Actors
  BY CallTypes
<1>2. MentionRows(r, at) \in SUBSET Serial!Mentions
  BY <1>1 DEF MentionRows, Serial!Mentions
<1>3. [q \in Pairs |-> IF q = <<r.actor, r.thread>> THEN at ELSE Kept] \in [Pairs -> Cursors \cup {Kept}]
  BY DEF Cursors
<1>4. Creating(r, at) \in Pendings
  BY <1>1, <1>2, <1>3 DEF Creating, Pendings, Pairs
<1> QED BY <1>4 DEF Creating, OwnOf

\* thread_repo.go CreateThread.
LEMMA PostgresCreateThread ==
  ASSUME Backend = "postgres", PostgresInv, NEW p \in Procs, CreateThread(p)
  PROVE  PostgresInv'
<1> DEFINE t == tx[p]
           w == Creating(t.req, clock + 1)
           u == [t EXCEPT !.pc = "commit", !.w = w]
<1>1. t.pc = "create" /\ clock' = clock + 1 /\ Writes(p, u)
  BY DEF CreateThread
<1>2. /\ t \in Txs /\ t.req \in Calls /\ Typed(t, db) /\ t.pc \in PcsOf(t.req.op)
      /\ t.req.op \in {"create", "reply", "watch", "unwatch", "catchup"}
      /\ OneCallPerActor => Ahead(t, db)
  BY <1>1, PostgresAt
<1>3. t.req.op = "create" /\ OwnOf(t.req) \in Pairs
  BY <1>1, <1>2, PostgresAt DEF PcsOf
<1>4. clock + 1 \in Instants /\ clock \in Nat
  <2>1. TablesOK /\ ClockOK
    BY DEF PostgresInv, PostgresTypes
  <2> QED BY <2>1, <1>1, <1>3, OneInstantLeft
<1>5. /\ w \in Pendings /\ w.at = clock + 1 /\ w.replies = {} /\ w.seen = {} /\ w.opened = {t.req.thread}
      /\ \A q \in Pairs : w.lastRead[q] = IF q = OwnOf(t.req) THEN clock + 1 ELSE Kept
  BY <1>2, <1>3, <1>4, CreatingTypes
<1> HIDE DEF w
<1>6. /\ u \in Txs /\ u.pc = "commit" /\ u.req = t.req /\ u.w = w /\ u.view = t.view /\ u.lock = t.lock
      /\ u.stale = t.stale /\ u.res = t.res /\ u.news = t.news
  BY <1>2, <1>5 DEF Txs, Pcs
<1>7. u = [u EXCEPT !.lock = FALSE]
  BY <1>2 DEF Typed, Txs
<1>8. tx' = [tx EXCEPT ![p] = u] /\ UNCHANGED <<db, got, told>>
  BY <1>1, <1>7, PostgresWrites
<1> HIDE DEF u
<1>9. Typed(u, db)
  BY <1>2, <1>3, <1>5, <1>6 DEF Typed, LoopSound, PcsOf
<1>10. ASSUME OneCallPerActor
       PROVE  /\ Ahead(u, db)
              /\ \A o \in Procs \ {p} : tx[o].w.lastRead[OwnOf(t.req)] = Kept
  <2>1. /\ TimesOK /\ db.status[t.req.thread] = "absent"
        /\ \A o \in Procs \ {p} : Apart(t, tx[o]) /\ Apart(tx[o], t) /\ Ahead(tx[o], db)
    BY <1>2, <1>3, <1>10 DEF PostgresInv, PostgresOrder, Ahead
  <2>2. clock + 1 > db.lastRead[OwnOf(t.req)]
    <3>1. db.lastRead[OwnOf(t.req)] <= clock /\ db.lastRead[OwnOf(t.req)] \in Int
      BY <1>3, <2>1 DEF TimesOK, PostgresInv, PostgresTypes, TablesOK, Tables, Cursors,
                        Instants, ZeroTime, NoRow
    <3> QED BY <3>1, <1>4
  <2>3. PendingCursors(u, db)
    <3>1. OwnOf(t.req)[1] = t.req.actor /\ clock + 1 # NoRow
      BY <1>4 DEF OwnOf, NoRow
    <3> QED BY <1>5, <1>6, <2>2, <3>1 DEF PendingCursors
  <2>4. ASSUME NEW o \in Procs \ {p}, tx[o].w.lastRead[OwnOf(t.req)] # Kept PROVE FALSE
    <3>1. tx[o].pc # "idle"
      BY <2>4, <1>3 DEF PostgresInv, PostgresTypes, Typed, Idle, NoWrites
    <3>2. tx[o].req.actor # t.req.actor
      BY <1>1, <2>1, <3>1 DEF Apart
    <3>3. tx[o].req.op \in {"reply", "watch"} /\ tx[o].req.thread = t.req.thread
      BY <1>3, <2>1, <2>4, <3>2 DEF Ahead, PendingCursors, OwnOf
    <3>4. tx[o].pc # "read"
      BY <1>3, <2>1, <2>4, <3>2 DEF Ahead, PendingCursors, OwnOf
    <3> QED BY <3>4,  <2>1, <3>3, <2>4 DEF Ahead, JoinAhead
  <2> QED BY <1>3, <1>6, <2>1, <2>3, <2>4 DEF Ahead
<1>11. \A r \in u.w.replies : r.at = clock'
  BY <1>5, <1>6
<1>12. ASSUME OneCallPerActor, NEW q \in Pairs
       PROVE  \/ u.w.lastRead[q] \in {Kept, t.w.lastRead[q]}
              \/ /\ u.w.lastRead[q] <= clock'
                 /\ \A o \in Procs \ {p} : tx[o].w.lastRead[q] = Kept
  BY <1>1, <1>4, <1>5, <1>6, <1>10, <1>12
<1>13. Stamping(t) /\ ~ Stamping(u) /\ u.w.at = clock' /\ u.pc # "idle"
  BY <1>1, <1>3, <1>5, <1>6 DEF Stamping
<1> QED BY <1>1, <1>6, <1>8, <1>9, <1>10, <1>11, <1>12, <1>13, PostgresContinue

-----------------------------------------------------------------------------
\* The writes of w with one cursor more.
LEMMA SettingReadIs ==
  ASSUME NEW w \in Pendings, NEW q0 \in Pairs, NEW x \in Cursors
  PROVE  /\ SettingRead(w, q0, x) \in Pendings
         /\ \A q \in Pairs : SettingRead(w, q0, x).lastRead[q] = IF q = q0 THEN x ELSE w.lastRead[q]
         /\ SettingRead(w, q0, x).at = w.at /\ SettingRead(w, q0, x).replies = w.replies
         /\ SettingRead(w, q0, x).seen = w.seen /\ SettingRead(w, q0, x).opened = w.opened
<1>1. w.lastRead \in [Pairs -> Cursors \cup {Kept}]
  BY DEF Pendings
<1>2. [w.lastRead EXCEPT ![q0] = x] \in [Pairs -> Cursors \cup {Kept}]
  BY <1>1
<1>3. SettingRead(w, q0, x) = [w EXCEPT !.lastRead = [w.lastRead EXCEPT ![q0] = x]]
  BY DEF SettingRead, Pendings
<1> QED BY <1>1, <1>2, <1>3 DEF Pendings

\* A statement that writes no cursor, or one later than the row has.
LEMMA PendingKept ==
  ASSUME NEW t, NEW u, NEW d, PendingCursors(t, d), u.req = t.req, u.pc # "read",
         \A q \in Pairs : u.w.lastRead[q] \in {Kept, t.w.lastRead[q]}
  PROVE  PendingCursors(u, d)
BY DEF PendingCursors

LEMMA PendingSet ==
  ASSUME NEW t, NEW u, NEW d, PendingCursors(t, d), u.req = t.req, u.pc # "read",
         NEW q0 \in Pairs, NEW x, x # NoRow, x > d.lastRead[q0],
         q0[1] = t.req.actor \/ (x = ZeroTime /\ t.req.op \in {"reply", "watch"} /\ q0[2] = t.req.thread),
         \A q \in Pairs : u.w.lastRead[q] = IF q = q0 THEN x ELSE t.w.lastRead[q]
  PROVE  PendingCursors(u, d)
BY DEF PendingCursors

\* thread_repo.go:125 and thread_watch.go:15, the thread is looked up first.
LEMMA PostgresFirstThread ==
  ASSUME Backend = "postgres", PostgresInv, NEW p \in Procs, FirstThread(p)
  PROVE  PostgresInv'
<1> DEFINE t == tx[p]
           x == [t EXCEPT !.pc = "insert", !.view = TakenView]
           y == [t EXCEPT !.pc = "watcher", !.view = TakenView, !.todo = <<t.req.actor>>]
<1>1. t.pc = "read"
  BY DEF FirstThread
<1>2. /\ t \in Txs /\ t.req \in Calls /\ Typed(t, db) /\ t.pc \in PcsOf(t.req.op)
      /\ t.req.op \in {"create", "reply", "watch", "unwatch", "catchup"} /\ t.req.actor \in Actors
      /\ OneCallPerActor => Ahead(t, db) /\ PendingCursors(t, db)
  BY <1>1, PostgresAt
<1>3. t.req.op \in {"reply", "watch"}
  BY <1>1, <1>2 DEF PcsOf
<1>4. TakenView = t.view
  BY <1>2 DEF TakenView, Typed
<1>5. CASE db.status[t.req.thread] = "absent"
  BY <1>1, <1>5, PostgresAbort DEF FirstThread, Thread
<1>6. CASE db.status[t.req.thread] # "absent" /\ t.req.op = "reply"
  <2>1. /\ x \in Txs /\ x.pc = "insert" /\ x.req = t.req /\ x.w = t.w /\ x.view = t.view
        /\ x.lock = t.lock /\ x.stale = t.stale /\ x.res = t.res /\ x.news = t.news
    BY <1>2, <1>4 DEF Txs, Pcs, Writing
  <2>2. tx' = [tx EXCEPT ![p] = x] /\ UNCHANGED <<db, clock, got, told>>
    BY <1>6 DEF FirstThread, Reads, Thread, Op
  <2> HIDE DEF x
  <2>3. Typed(x, db)
    BY <1>2, <1>6, <2>1 DEF Typed, LoopSound, PcsOf
  <2>4. ASSUME OneCallPerActor PROVE Ahead(x, db)
    <3>1. PendingCursors(x, db)
      BY <1>2, <2>1, <2>4, PendingKept
    <3> QED BY <1>6, <2>1, <3>1 DEF Ahead, JoinAhead
  <2>5. Stamping(t)
    BY <1>1, <1>6 DEF Stamping
  <2> QED BY <1>1, <2>1, <2>2, <2>3, <2>4, <2>5, PostgresContinue
<1>7. CASE db.status[t.req.thread] # "absent" /\ t.req.op = "watch"
  <2>1. <<t.req.actor>> \in Seq(Actors) /\ <<t.req.actor>> # << >>
    BY <1>2
  <2>2. /\ y \in Txs /\ y.pc = "watcher" /\ y.req = t.req /\ y.w = t.w /\ y.view = t.view
        /\ y.lock = t.lock /\ y.stale = t.stale /\ y.res = t.res /\ y.news = t.news
        /\ y.todo \in Seq(Actors) /\ y.todo # << >>
    <3>1. "watcher" \in Pcs
      BY DEF Pcs, Writing
    <3> QED BY <1>2, <1>4, <2>1, <3>1 DEF Txs
  <2>3. tx' = [tx EXCEPT ![p] = y] /\ UNCHANGED <<db, clock, got, told>>
    BY <1>7 DEF FirstThread, Reads, Thread, Op, Actor
  <2> HIDE DEF y
  <2>4. Typed(y, db)
    BY <1>2, <1>7, <2>2 DEF Typed, LoopSound, PcsOf
  <2>5. ASSUME OneCallPerActor PROVE Ahead(y, db)
    <3>1. PendingCursors(y, db)
      BY <1>2, <2>2, <2>5, PendingKept
    <3> QED BY <1>7, <2>2, <3>1 DEF Ahead, JoinAhead
  <2>6. ~ Stamping(y)
    BY <2>2 DEF Stamping
  <2> QED BY <1>1, <2>2, <2>3, <2>4, <2>5, <2>6, PostgresContinue
<1> QED BY <1>3, <1>5, <1>6, <1>7

\* A reply's row as AddReply inserts it.
LEMMA ReplyingTypes ==
  ASSUME NEW r \in Calls, r.op = "reply", NEW at \in Instants
  PROVE  /\ Replying(r, at) \in Pendings
         /\ \A q \in Pairs : Replying(r, at).lastRead[q] = Kept
         /\ Replying(r, at).at = at /\ Replying(r, at).seen = {} /\ Replying(r, at).opened = {}
         /\ \A x \in Replying(r, at).replies : x.at = at
         /\ <<r.actor>> \o r.extras \in Seq(Actors) /\ <<r.actor>> \o r.extras # << >>
<1>1. r.actor \in Actors /\ r.thread \in Threads /\ r.extras \in Seq(Actors)
  BY CallTypes
<1>2. {[thread |-> r.thread, author |-> r.actor, at |-> at]} \in SUBSET Serial!Replies
  BY <1>1 DEF Serial!Replies
<1>3. [q \in Pairs |-> Kept] \in [Pairs -> Cursors \cup {Kept}]
  OBVIOUS
<1>4. Replying(r, at) \in Pendings
  BY <1>2, <1>3 DEF Replying, NoWrites, Pendings
<1> QED BY <1>1, <1>4, ConsSet DEF Replying, NoWrites

LEMMA PostgresInsertReply ==
  ASSUME Backend = "postgres", PostgresInv, NEW p \in Procs, InsertReply(p)
  PROVE  PostgresInv'
<1> DEFINE t == tx[p]
           w == Replying(t.req, clock + 1)
           s == <<t.req.actor>> \o t.req.extras
           u == [t EXCEPT !.pc = "watcher", !.w = w, !.todo = s]
<1>1. t.pc = "insert" /\ clock' = clock + 1 /\ Writes(p, u)
  BY DEF InsertReply, Actor
<1>2. /\ t \in Txs /\ t.req \in Calls /\ Typed(t, db) /\ t.pc \in PcsOf(t.req.op)
      /\ t.req.op \in {"create", "reply", "watch", "unwatch", "catchup"}
      /\ OneCallPerActor => Ahead(t, db) /\ PendingCursors(t, db)
  BY <1>1, PostgresAt
<1>3. t.req.op = "reply" /\ OwnOf(t.req) \in Pairs
  BY <1>1, <1>2, PostgresAt DEF PcsOf
<1>4. clock + 1 \in Instants /\ clock \in Nat
  <2>1. TablesOK /\ ClockOK
    BY DEF PostgresInv, PostgresTypes
  <2> QED BY <2>1, <1>1, <1>3, OneInstantLeft
<1>5. /\ w \in Pendings /\ w.at = clock + 1 /\ w.seen = {} /\ w.opened = {}
      /\ s \in Seq(Actors) /\ s # << >>
      /\ \A q \in Pairs : w.lastRead[q] = Kept
      /\ \A r \in w.replies : r.at = clock + 1
  BY <1>2, <1>3, <1>4, ReplyingTypes
<1> HIDE DEF w, s
<1>6. /\ u \in Txs /\ u.pc = "watcher" /\ u.req = t.req /\ u.w = w /\ u.view = t.view /\ u.lock = t.lock
      /\ u.stale = t.stale /\ u.res = t.res /\ u.news = t.news /\ u.todo = s
  BY <1>2, <1>5 DEF Txs, Pcs, Writing
<1>7. u = [u EXCEPT !.lock = FALSE]
  BY <1>2 DEF Typed, Txs
<1>8. tx' = [tx EXCEPT ![p] = u] /\ UNCHANGED <<db, got, told>>
  BY <1>1, <1>7, PostgresWrites
<1> HIDE DEF u
<1>9. Typed(u, db)
  BY <1>2, <1>3, <1>4, <1>5, <1>6 DEF Typed, LoopSound, PcsOf
<1>10. ASSUME OneCallPerActor PROVE Ahead(u, db)
  <2>1. PendingCursors(u, db)
    BY <1>2, <1>5, <1>6, <1>10, PendingKept
  <2>2. db.status[t.req.thread] # "absent"
    BY <1>1, <1>2, <1>3, <1>10 DEF Ahead, JoinAhead
  <2>3. clock + 1 > db.lastRead[OwnOf(t.req)]
    <3>1. db.lastRead[OwnOf(t.req)] <= clock /\ db.lastRead[OwnOf(t.req)] \in Int
      BY <1>3, <1>10 DEF TimesOK, PostgresInv, PostgresOrder, PostgresTypes, TablesOK, Tables, Cursors,
                         Instants, ZeroTime, NoRow
    <3> QED BY <3>1, <1>4
  <2> QED BY <1>3, <1>5, <1>6, <2>1, <2>2, <2>3 DEF Ahead, JoinAhead
<1>11. \A r \in u.w.replies : r.at = clock'
  BY <1>1, <1>5, <1>6
<1>12. \A q \in Pairs : u.w.lastRead[q] \in {Kept, t.w.lastRead[q]}
  BY <1>5, <1>6
<1>13. Stamping(t) /\ ~ Stamping(u) /\ u.w.at = clock' /\ u.pc # "idle"
  BY <1>1, <1>3, <1>5, <1>6 DEF Stamping
<1> QED BY <1>1, <1>6, <1>8, <1>9, <1>10, <1>11, <1>12, <1>13, PostgresContinue

\* A reply or a watch at a statement after its first.
LEMMA PostgresJoinAt ==
  ASSUME PostgresInv, NEW p \in Procs, tx[p].pc \in {"watcher", "cursor", "ensure", "mentions"}
  PROVE  /\ tx[p] \in Txs /\ tx[p].w \in Pendings /\ tx[p].req \in Calls /\ Typed(tx[p], db)
         /\ tx[p].req.op \in {"reply", "watch"} /\ OwnOf(tx[p].req) \in Pairs
         /\ tx[p].req.actor \in Actors /\ tx[p].req.thread \in Threads
         /\ tx[p].pc \in {"cursor", "mentions"} => tx[p].req.op = "reply"
         /\ tx[p].req.op = "reply" => tx[p].req.extras \in Seq(Actors) /\ tx[p].w.at \in Instants
         /\ OneCallPerActor => /\ PendingCursors(tx[p], db)
                               /\ JoinAhead(tx[p], db)
<1>1. /\ tx[p] \in Txs /\ tx[p].req \in Calls /\ Typed(tx[p], db) /\ tx[p].w \in Pendings
      /\ tx[p].pc \in PcsOf(tx[p].req.op) /\ tx[p].req.actor \in Actors
      /\ tx[p].req.op \in {"create", "reply", "watch", "unwatch", "catchup"}
      /\ OneCallPerActor => Ahead(tx[p], db) /\ PendingCursors(tx[p], db)
  BY PostgresAt
<1>2. /\ tx[p].req.op \in {"reply", "watch"}
      /\ tx[p].pc \in {"cursor", "mentions"} => tx[p].req.op = "reply"
  BY <1>1 DEF PcsOf
<1>3. OwnOf(tx[p].req) \in Pairs
  BY <1>2, PostgresAt
<1>4. tx[p].req.op = "reply" => tx[p].w.at \in Instants
  BY <1>1 DEF Typed
<1>5. OneCallPerActor => JoinAhead(tx[p], db)
  BY <1>1, <1>2 DEF Ahead
<1> QED BY <1>1, <1>2, <1>3, <1>4, <1>5, CallTypes

\* One of those statements leaves u: at most the cursor q0 is pending anew.
LEMMA PostgresJoin ==
  ASSUME Backend = "postgres", PostgresInv, NEW p \in Procs,
         tx[p].pc \in {"watcher", "cursor", "ensure", "mentions"},
         NEW u, u \in Txs, tx' = [tx EXCEPT ![p] = u], UNCHANGED <<db, clock, got, told>>,
         u.req = tx[p].req, u.view = tx[p].view, u.stale = tx[p].stale, u.lock = tx[p].lock,
         u.res = tx[p].res, u.news = tx[p].news,
         u.w.at = tx[p].w.at, u.w.replies = tx[p].w.replies, u.w.seen = tx[p].w.seen,
         u.w.opened = tx[p].w.opened,
         u.pc \in {"watcher", "cursor", "ensure", "mentions", "commit"},
         u.req.op = "watch" => u.pc \notin {"cursor", "mentions"},
         u.pc \in {"watcher", "ensure"} => u.todo # << >> /\ u.todo \in Seq(Actors),
         u.req.op = "reply" /\ u.pc \in {"watcher", "cursor"} => tx[p].pc \in {"watcher", "cursor"},
         OneCallPerActor =>
            \A q \in Pairs : \/ u.w.lastRead[q] \in {Kept, tx[p].w.lastRead[q]}
                             \/ /\ u.w.lastRead[q] <= clock
                                /\ \A o \in Procs \ {p} : tx[o].w.lastRead[q] = Kept,
         OneCallPerActor => PendingCursors(u, db)
  PROVE  PostgresInv'
<1> DEFINE t == tx[p]
<1>1. /\ t.req \in Calls /\ Typed(t, db) /\ t.req.op \in {"reply", "watch"}
      /\ t.req.op = "reply" => t.w.at \in Instants
      /\ OneCallPerActor => JoinAhead(t, db)
  BY PostgresJoinAt
<1>2. Typed(u, db)
  <2>1. u.pc \in PcsOf(u.req.op) /\ u.pc # "idle"
    BY <1>1 DEF PcsOf
  <2>2. LoopSound(u)
    BY DEF LoopSound
  <2> QED BY <1>1, <2>1, <2>2 DEF Typed
<1>3. ASSUME OneCallPerActor PROVE Ahead(u, db)
  <2>1. JoinAhead(u, db)
    BY <1>1, <1>3 DEF JoinAhead
  <2> QED BY <1>1, <1>3, <2>1 DEF Ahead
<1>4. ~ Stamping(u)
  BY DEF Stamping
<1> QED BY <1>2, <1>3, <1>4, PostgresContinue

\* thread_watch.go insertWatcherIfMissing, in AddReply's loop or WatchThread.
LEMMA PostgresInsertWatcher ==
  ASSUME Backend = "postgres", PostgresInv, NEW p \in Procs, InsertWatcher(p)
  PROVE  PostgresInv'
<1> DEFINE t == tx[p]
           q0 == HeadPair(p)
           rest == Tail(t.todo)
           w == IF q0 \in db.watcher THEN t.w ELSE Joining(t.w, q0)
           pc == IF rest # << >> THEN "watcher" ELSE IF t.req.op = "reply" THEN "cursor" ELSE "ensure"
           todo == IF rest # << >> THEN rest ELSE IF t.req.op = "reply" THEN << >> ELSE <<t.req.actor>>
           u == [t EXCEPT !.pc = pc, !.todo = todo, !.w = w]
<1>1. t.pc = "watcher" /\ UNCHANGED clock
  BY DEF InsertWatcher
<1>2. /\ t \in Txs /\ t.w \in Pendings /\ t.req \in Calls /\ Typed(t, db)
      /\ t.req.op \in {"reply", "watch"} /\ t.req.actor \in Actors /\ t.req.thread \in Threads
      /\ OneCallPerActor => PendingCursors(t, db)
  BY <1>1, PostgresJoinAt
<1>3. t.todo \in Seq(Actors) /\ t.todo # << >>
  BY <1>1, <1>2 DEF Typed, LoopSound
<1>4. rest \in Seq(Actors) /\ q0 \in Pairs
  BY <1>2, <1>3, HeadTail DEF HeadPair, Thread, Pairs
<1>5. /\ w \in Pendings /\ w.lastRead = t.w.lastRead /\ w.at = t.w.at
      /\ w.replies = t.w.replies /\ w.seen = t.w.seen /\ w.opened = t.w.opened
  BY <1>2, <1>4 DEF Joining, Pendings
<1>6. /\ pc \in {"watcher", "cursor", "ensure"} /\ pc \in Pcs /\ todo \in Seq(Actors)
      /\ pc \in {"watcher", "ensure"} => todo # << >>
      /\ t.req.op = "watch" => pc # "cursor"
      /\ t.req.op = "reply" => pc # "ensure"
  BY <1>2, <1>4 DEF Pcs, Writing
<1>7. Writes(p, u)
  <2>1. CASE rest # << >>
    <3>1. u = [t EXCEPT !.todo = rest, !.w = w]
      BY <2>1, <1>1, <1>2 DEF Txs
    <3> QED BY <2>1, <3>1 DEF InsertWatcher, W
  <2>2. CASE rest = << >> /\ t.req.op = "reply"
    BY <2>2, <1>2 DEF InsertWatcher, W, Op
  <2>3. CASE rest = << >> /\ t.req.op # "reply"
    BY <2>3, <1>2 DEF InsertWatcher, W, Op, Actor
  <2> QED BY <2>1, <2>2, <2>3
<1> HIDE DEF w, pc, todo, rest
<1>8. /\ u \in Txs /\ u.pc = pc /\ u.todo = todo /\ u.w = w /\ u.req = t.req /\ u.view = t.view
      /\ u.lock = t.lock /\ u.stale = t.stale /\ u.res = t.res /\ u.news = t.news
  BY <1>2, <1>5, <1>6 DEF Txs
<1>9. u = [u EXCEPT !.lock = FALSE]
  BY <1>2 DEF Typed, Txs
<1>10. tx' = [tx EXCEPT ![p] = u] /\ UNCHANGED <<db, got, told>>
  BY <1>7, <1>9, PostgresWrites
<1> HIDE DEF u
<1>11. ASSUME OneCallPerActor PROVE PendingCursors(u, db)
  BY <1>2, <1>5, <1>6, <1>8, <1>11, PendingKept
<1> QED BY <1>1, <1>5, <1>6, <1>8, <1>10, <1>11, PostgresJoin

\* upsertThreadWatch: the author's cursor, which is behind the reply.
LEMMA PostgresUpsertCursor ==
  ASSUME Backend = "postgres", PostgresInv, NEW p \in Procs, UpsertCursor(p)
  PROVE  PostgresInv'
<1> DEFINE t == tx[p]
           q0 == OwnOf(t.req)
           w == SettingRead(t.w, q0, t.w.at)
           pc == IF t.req.extras = << >> THEN "mentions" ELSE "ensure"
           u == [t EXCEPT !.pc = pc, !.todo = t.req.extras, !.w = w]
<1>1. t.pc = "cursor" /\ UNCHANGED clock /\ Writes(p, u)
  BY DEF UpsertCursor, W, Own, OwnOf, Actor, Thread
<1>2. /\ t \in Txs /\ t.w \in Pendings /\ t.req \in Calls /\ Typed(t, db)
      /\ t.req.op = "reply" /\ q0 \in Pairs /\ t.req.extras \in Seq(Actors) /\ t.w.at \in Instants
      /\ OneCallPerActor => PendingCursors(t, db) /\ JoinAhead(t, db)
  BY <1>1, PostgresJoinAt
<1>3. /\ w \in Pendings /\ w.at = t.w.at /\ w.replies = t.w.replies /\ w.seen = t.w.seen /\ w.opened = t.w.opened
      /\ \A q \in Pairs : w.lastRead[q] = IF q = q0 THEN t.w.at ELSE t.w.lastRead[q]
  BY <1>2, SettingReadIs DEF Cursors
<1>4. /\ pc \in {"mentions", "ensure"} /\ pc \in Pcs
      /\ pc = "ensure" => t.req.extras # << >>
  BY DEF Pcs, Writing
<1> HIDE DEF w, pc
<1>5. /\ u \in Txs /\ u.pc = pc /\ u.todo = t.req.extras /\ u.w = w /\ u.req = t.req /\ u.view = t.view
      /\ u.lock = t.lock /\ u.stale = t.stale /\ u.res = t.res /\ u.news = t.news
  BY <1>2, <1>3, <1>4 DEF Txs
<1>6. u = [u EXCEPT !.lock = FALSE]
  BY <1>2 DEF Typed, Txs
<1>7. /\ tx' = [tx EXCEPT ![p] = u] /\ UNCHANGED <<db, got, told>>
      /\ <<"lastRead", q0>> \in Needs(p) => \A o \in Procs \ {p} : tx[o].w.lastRead[q0] = Kept
  BY <1>1, <1>2, <1>6, PostgresWrites
<1>8. <<"lastRead", q0>> \in Needs(p)
  BY <1>1 DEF Needs, Own, OwnOf, Actor, Thread
<1> HIDE DEF u
<1>9. ASSUME OneCallPerActor PROVE PendingCursors(u, db)
  <2>1. t.w.at # NoRow /\ q0[1] = t.req.actor
    BY <1>2 DEF Instants, NoRow, OwnOf
  <2>2. t.w.at > db.lastRead[q0]
    BY <1>1, <1>2, <1>9 DEF JoinAhead
  <2>3. PendingCursors(t, db) /\ u.pc # "read"
    BY <1>2, <1>4, <1>5, <1>9
  <2> HIDE DEF q0, t
  <2> QED BY <1>2, <1>3, <1>5, <2>1, <2>2, <2>3, PendingSet
<1>10. t.w.at <= clock
  BY DEF PostgresInv, PostgresTypes, ClockOK
<1>11. ASSUME OneCallPerActor, NEW q \in Pairs
       PROVE  \/ u.w.lastRead[q] \in {Kept, t.w.lastRead[q]}
              \/ u.w.lastRead[q] <= clock /\ \A o \in Procs \ {p} : tx[o].w.lastRead[q] = Kept
  BY <1>3, <1>5, <1>7, <1>8, <1>10
<1> QED BY <1>1, <1>2, <1>3, <1>4, <1>5, <1>7, <1>9, <1>11, PostgresJoin

\* ensureThreadWatch: a row where none is committed or pending, or no row.
LEMMA PostgresEnsureCursor ==
  ASSUME Backend = "postgres", PostgresInv, NEW p \in Procs, EnsureCursor(p)
  PROVE  PostgresInv'
<1> DEFINE t == tx[p]
           q0 == HeadPair(p)
           rest == Tail(t.todo)
           pc == IF rest = << >> THEN AfterEnsure(p) ELSE "ensure"
           have == db.lastRead[q0] # NoRow \/ t.w.lastRead[q0] # Kept
           w == IF have THEN t.w ELSE SettingRead(t.w, q0, ZeroTime)
           x == [t EXCEPT !.pc = pc, !.todo = rest]
           y == [t EXCEPT !.pc = pc, !.todo = rest, !.w = w]
<1>1. t.pc = "ensure"
  BY DEF EnsureCursor
<1>2. /\ t \in Txs /\ t.w \in Pendings /\ t.req \in Calls /\ Typed(t, db)
      /\ t.req.op \in {"reply", "watch"} /\ t.req.actor \in Actors /\ t.req.thread \in Threads
      /\ OneCallPerActor => PendingCursors(t, db)
  BY <1>1, PostgresJoinAt
<1>3. t.todo \in Seq(Actors) /\ t.todo # << >>
  BY <1>1, <1>2 DEF Typed, LoopSound
<1>4. rest \in Seq(Actors) /\ q0 \in Pairs /\ q0[2] = t.req.thread /\ rest \in Seq(Actors) \cup Seq(Threads)
  BY <1>2, <1>3, HeadTail DEF HeadPair, Thread, Pairs
<1>5. /\ pc \in {"ensure", "mentions", "commit"} /\ pc \in Pcs
      /\ pc = "ensure" => rest # << >>
      /\ t.req.op = "watch" => pc # "mentions"
  BY <1>2 DEF AfterEnsure, Op, Pcs, Writing
<1>6. CASE t.req.op = "reply" /\ q0 = OwnOf(t.req)
  <2>1. tx' = [tx EXCEPT ![p] = x] /\ UNCHANGED <<db, clock, got, told>>
    BY <1>6 DEF EnsureCursor, Reads, Op, Own, OwnOf, Actor, Thread
  <2> HIDE DEF pc, rest
  <2>2. /\ x \in Txs /\ x.pc = pc /\ x.todo = rest /\ x.w = t.w /\ x.req = t.req /\ x.view = t.view
        /\ x.lock = t.lock /\ x.stale = t.stale /\ x.res = t.res /\ x.news = t.news
    BY <1>2, <1>4, <1>5 DEF Txs
  <2> HIDE DEF x
  <2>3. ASSUME OneCallPerActor PROVE PendingCursors(x, db)
    BY <1>2, <1>5, <2>2, <2>3, PendingKept
  <2> QED BY <1>1, <1>4, <1>5, <2>1, <2>2, <2>3, PostgresJoin
<1>7. CASE ~ (t.req.op = "reply" /\ q0 = OwnOf(t.req))
  <2>1. Writes(p, y) /\ UNCHANGED clock
    BY <1>7 DEF EnsureCursor, W, Op, Own, OwnOf, Actor, Thread
  <2>2. ZeroTime \in Cursors
    BY DEF Cursors
  <2>3. /\ w \in Pendings /\ w.at = t.w.at /\ w.replies = t.w.replies /\ w.seen = t.w.seen /\ w.opened = t.w.opened
        /\ \/ w = t.w
           \/ /\ db.lastRead[q0] = NoRow
              /\ \A q \in Pairs : w.lastRead[q] = IF q = q0 THEN ZeroTime ELSE t.w.lastRead[q]
    BY <1>2, <1>4, <2>2, SettingReadIs
  <2> HIDE DEF w, pc, rest
  <2>4. /\ y \in Txs /\ y.pc = pc /\ y.todo = rest /\ y.w = w /\ y.req = t.req /\ y.view = t.view
        /\ y.lock = t.lock /\ y.stale = t.stale /\ y.res = t.res /\ y.news = t.news
    BY <1>2, <1>4, <1>5, <2>3 DEF Txs
  <2>5. y = [y EXCEPT !.lock = FALSE]
    BY <1>2 DEF Typed, Txs
  <2>6. /\ tx' = [tx EXCEPT ![p] = y] /\ UNCHANGED <<db, got, told>>
        /\ <<"lastRead", q0>> \in Needs(p) => \A o \in Procs \ {p} : tx[o].w.lastRead[q0] = Kept
    BY <1>4, <2>1, <2>5, PostgresWrites
  <2>7. <<"lastRead", q0>> \in Needs(p)
    <3>1. Op(p) = "watch" \/ q0 # Own(p)
      BY <1>2, <1>7 DEF Op, Own, OwnOf, Actor, Thread
    <3> QED BY <1>1, <3>1 DEF Needs
  <2> HIDE DEF y
  <2>8. ASSUME OneCallPerActor PROVE PendingCursors(y, db)
    <3>1. PendingCursors(t, db) /\ y.pc # "read"
      BY <1>2, <1>5, <2>4, <2>8
    <3>2. CASE w = t.w
      <4>1. \A q \in Pairs : y.w.lastRead[q] \in {Kept, t.w.lastRead[q]}
        BY <2>4, <3>2
      <4> QED BY <2>4, <3>1, <4>1, PendingKept
    <3>3. CASE w # t.w
      <4>1. ZeroTime > db.lastRead[q0] /\ ZeroTime # NoRow
        BY <2>3, <3>3 DEF ZeroTime, NoRow
      <4> QED BY <1>2, <1>4, <2>3, <2>4, <3>1, <3>3, <4>1, PendingSet
    <3> QED BY <3>2, <3>3
  <2>9. ZeroTime <= clock
    BY DEF PostgresInv, PostgresTypes, ClockOK, ZeroTime
  <2>10. ASSUME OneCallPerActor, NEW q \in Pairs
         PROVE  \/ y.w.lastRead[q] \in {Kept, t.w.lastRead[q]}
                \/ y.w.lastRead[q] <= clock /\ \A o \in Procs \ {p} : tx[o].w.lastRead[q] = Kept
    BY <2>3, <2>4, <2>6, <2>7, <2>9
  <2> QED BY <1>1, <1>4, <1>5, <2>1, <2>3, <2>4, <2>6, <2>8, <2>10, PostgresJoin
<1> QED BY <1>6, <1>7

\* createMentions of a reply.
LEMMA PostgresInsertMentions ==
  ASSUME Backend = "postgres", PostgresInv, NEW p \in Procs, InsertMentions(p)
  PROVE  PostgresInv'
<1> DEFINE t == tx[p]
           ms == MentionRows(t.req, t.w.at)
           w == [t.w EXCEPT !.mentions = ms]
           u == [t EXCEPT !.pc = "commit", !.w = w]
<1>1. t.pc = "mentions" /\ UNCHANGED clock /\ Writes(p, u)
  BY DEF InsertMentions, W
<1>2. /\ t \in Txs /\ t.w \in Pendings /\ t.req \in Calls /\ Typed(t, db)
      /\ t.req.op = "reply" /\ t.w.at \in Instants
      /\ OneCallPerActor => PendingCursors(t, db)
  BY <1>1, PostgresJoinAt
<1>3. ms \in SUBSET Serial!Mentions
  <2>1. t.req.mentioned \in SUBSET Actors
    BY <1>2, CallTypes
  <2> QED BY <1>2, <2>1 DEF MentionRows, Serial!Mentions
<1> HIDE DEF ms
<1>4. /\ w \in Pendings /\ w.at = t.w.at /\ w.replies = t.w.replies /\ w.seen = t.w.seen /\ w.opened = t.w.opened
      /\ w.lastRead = t.w.lastRead
  BY <1>2, <1>3 DEF Pendings
<1> HIDE DEF w
<1>5. /\ u \in Txs /\ u.pc = "commit" /\ u.w = w /\ u.req = t.req /\ u.view = t.view
      /\ u.lock = t.lock /\ u.stale = t.stale /\ u.res = t.res /\ u.news = t.news
  BY <1>2, <1>4 DEF Txs, Pcs
<1>6. u = [u EXCEPT !.lock = FALSE]
  BY <1>2 DEF Typed, Txs
<1>7. tx' = [tx EXCEPT ![p] = u] /\ UNCHANGED <<db, got, told>>
  BY <1>1, <1>6, PostgresWrites
<1> HIDE DEF u
<1>8. ASSUME OneCallPerActor PROVE PendingCursors(u, db)
  BY <1>2, <1>4, <1>5, <1>8, PendingKept
<1> QED BY <1>1, <1>4, <1>5, <1>7, <1>8, PostgresJoin

\* thread_watch.go UnwatchThread, the first of its two rows, ...
LEMMA PostgresDeleteWatcher ==
  ASSUME Backend = "postgres", PostgresInv, NEW p \in Procs, DeleteWatcher(p)
  PROVE  PostgresInv'
<1> DEFINE t == tx[p]
           w == [t.w EXCEPT !.left = {OwnOf(t.req)} \cap db.watcher]
           u == [t EXCEPT !.pc = "uncursor", !.w = w]
<1>1. t.pc = "unwatch" /\ UNCHANGED clock /\ Writes(p, u)
  BY DEF DeleteWatcher, W, Own, OwnOf, Actor, Thread
<1>2. /\ t \in Txs /\ t.w \in Pendings /\ t.req \in Calls /\ Typed(t, db) /\ t.pc \in PcsOf(t.req.op)
      /\ t.req.op \in {"create", "reply", "watch", "unwatch", "catchup"}
      /\ OneCallPerActor => PendingCursors(t, db)
  BY <1>1, PostgresAt
<1>3. t.req.op = "unwatch"
  BY <1>1, <1>2 DEF PcsOf
<1>4. OwnOf(t.req) \in Pairs
  BY <1>1, <1>3, PostgresAt
<1>5. /\ w \in Pendings /\ w.at = t.w.at /\ w.replies = t.w.replies /\ w.seen = t.w.seen /\ w.opened = t.w.opened
      /\ w.lastRead = t.w.lastRead
  BY <1>2, <1>4 DEF Pendings
<1> HIDE DEF w
<1>6. /\ u \in Txs /\ u.pc = "uncursor" /\ u.w = w /\ u.req = t.req /\ u.view = t.view
      /\ u.lock = t.lock /\ u.stale = t.stale /\ u.res = t.res /\ u.news = t.news
  BY <1>2, <1>5 DEF Txs, Pcs, Writing
<1>7. u = [u EXCEPT !.lock = FALSE]
  BY <1>2 DEF Typed, Txs
<1>8. tx' = [tx EXCEPT ![p] = u] /\ UNCHANGED <<db, got, told>>
  BY <1>1, <1>7, PostgresWrites
<1> HIDE DEF u
<1>9. Typed(u, db)
  BY <1>2, <1>3, <1>5, <1>6 DEF Typed, LoopSound, PcsOf
<1>10. ASSUME OneCallPerActor PROVE Ahead(u, db)
  <2>1. PendingCursors(u, db)
    BY <1>2, <1>5, <1>6, <1>10, PendingKept
  <2> QED BY <1>3, <1>6, <2>1 DEF Ahead
<1>11. ~ Stamping(u)
  BY <1>6 DEF Stamping
<1> QED BY <1>1, <1>5, <1>6, <1>8, <1>9, <1>10, <1>11, PostgresContinue

\* ... and the second.
LEMMA PostgresDeleteCursor ==
  ASSUME Backend = "postgres", PostgresInv, NEW p \in Procs, DeleteCursor(p)
  PROVE  PostgresInv'
<1> DEFINE t == tx[p]
           q0 == OwnOf(t.req)
           w == IF db.lastRead[q0] = NoRow THEN t.w ELSE SettingRead(t.w, q0, NoRow)
           u == [t EXCEPT !.pc = "commit", !.w = w]
<1>1. t.pc = "uncursor" /\ UNCHANGED clock /\ Writes(p, u)
  BY DEF DeleteCursor, W, Own, OwnOf, Actor, Thread
<1>2. /\ t \in Txs /\ t.w \in Pendings /\ t.req \in Calls /\ Typed(t, db) /\ t.pc \in PcsOf(t.req.op)
      /\ t.req.op \in {"create", "reply", "watch", "unwatch", "catchup"}
      /\ OneCallPerActor => PendingCursors(t, db)
  BY <1>1, PostgresAt
<1>3. t.req.op = "unwatch"
  BY <1>1, <1>2 DEF PcsOf
<1>4. q0 \in Pairs /\ NoRow \in Cursors
  BY <1>1, <1>3, PostgresAt DEF Cursors
<1>5. /\ w \in Pendings /\ w.at = t.w.at /\ w.replies = t.w.replies /\ w.seen = t.w.seen /\ w.opened = t.w.opened
      /\ \/ w = t.w
         \/ /\ db.lastRead[q0] # NoRow
            /\ \A q \in Pairs : w.lastRead[q] = IF q = q0 THEN NoRow ELSE t.w.lastRead[q]
  BY <1>2, <1>4, SettingReadIs
<1> HIDE DEF w
<1>6. /\ u \in Txs /\ u.pc = "commit" /\ u.w = w /\ u.req = t.req /\ u.view = t.view
      /\ u.lock = t.lock /\ u.stale = t.stale /\ u.res = t.res /\ u.news = t.news
  BY <1>2, <1>5 DEF Txs, Pcs
<1>7. u = [u EXCEPT !.lock = FALSE]
  BY <1>2 DEF Typed, Txs
<1>8. /\ tx' = [tx EXCEPT ![p] = u] /\ UNCHANGED <<db, got, told>>
      /\ <<"lastRead", q0>> \in Needs(p) => \A o \in Procs \ {p} : tx[o].w.lastRead[q0] = Kept
  BY <1>1, <1>4, <1>7, PostgresWrites
<1>9. db.lastRead[q0] # NoRow => <<"lastRead", q0>> \in Needs(p)
  BY <1>1 DEF Needs, Own, OwnOf, Actor, Thread
<1> HIDE DEF u
<1>10. Typed(u, db)
  BY <1>2, <1>3, <1>5, <1>6 DEF Typed, LoopSound, PcsOf
<1>11. ASSUME OneCallPerActor PROVE Ahead(u, db)
  <2>1. PendingCursors(t, db)
    BY <1>2, <1>11
  <2>2. q0[1] = t.req.actor
    BY DEF OwnOf
  <2>3. PendingCursors(u, db)
    BY <1>3, <1>4, <1>5, <1>6, <2>1, <2>2 DEF PendingCursors
  <2> QED BY <1>3, <1>6, <2>3 DEF Ahead
<1>12. NoRow <= clock
  BY DEF PostgresInv, PostgresTypes, ClockOK, NoRow
<1>13. ASSUME OneCallPerActor, NEW q \in Pairs
       PROVE  \/ u.w.lastRead[q] \in {Kept, t.w.lastRead[q]}
              \/ u.w.lastRead[q] <= clock' /\ \A o \in Procs \ {p} : tx[o].w.lastRead[q] = Kept
  BY <1>1, <1>5, <1>6, <1>8, <1>9, <1>12
<1>14. ~ Stamping(u)
  BY <1>6 DEF Stamping
<1> QED BY <1>1, <1>5, <1>6, <1>8, <1>10, <1>11, <1>13, <1>14, PostgresContinue

\* A catch_up at one of its own statements.
LEMMA PostgresCatchUpAt ==
  ASSUME PostgresInv, NEW p \in Procs,
         tx[p].pc \in {"watches", "replies", "update", "select", "mark"}
  PROVE  /\ tx[p] \in Txs /\ tx[p].w \in Pendings /\ tx[p].req \in Calls /\ Typed(tx[p], db)
         /\ tx[p].req.op = "catchup" /\ tx[p].req.actor \in Actors
         /\ OneCallPerActor => PendingCursors(tx[p], db) /\ CatchUpAhead(tx[p], db)
<1>1. /\ tx[p] \in Txs /\ tx[p].req \in Calls /\ Typed(tx[p], db) /\ tx[p].w \in Pendings
      /\ tx[p].pc \in PcsOf(tx[p].req.op) /\ tx[p].req.actor \in Actors
      /\ tx[p].req.op \in {"create", "reply", "watch", "unwatch", "catchup"}
      /\ OneCallPerActor => Ahead(tx[p], db) /\ PendingCursors(tx[p], db)
  BY PostgresAt
<1>2. tx[p].req.op = "catchup"
  BY <1>1 DEF PcsOf
<1> QED BY <1>1, <1>2 DEF Ahead

\* One of those statements leaves u.
LEMMA PostgresCatchUp ==
  ASSUME PostgresInv, NEW p \in Procs,
         tx[p].pc \in {"watches", "replies", "update", "select", "mark"},
         NEW u, u \in Txs, tx' = [tx EXCEPT ![p] = u], UNCHANGED <<db, clock, got, told>>,
         u.req = tx[p].req, u.view = tx[p].view, u.stale = tx[p].stale, u.lock = tx[p].lock,
         u.w.at = tx[p].w.at, u.w.replies = tx[p].w.replies, u.w.opened = tx[p].w.opened,
         u.pc \in {"replies", "update", "select", "mark", "commit"},
         LoopSound(u),
         u.res \subseteq db.replies, u.news \subseteq db.mentions, u.w.seen \subseteq db.mentions,
         OneCallPerActor =>
            \A q \in Pairs : \/ u.w.lastRead[q] \in {Kept, tx[p].w.lastRead[q]}
                             \/ /\ u.w.lastRead[q] <= clock
                                /\ \A o \in Procs \ {p} : tx[o].w.lastRead[q] = Kept,
         OneCallPerActor => PendingCursors(u, db) /\ CatchUpAhead(u, db)
  PROVE  PostgresInv'
<1>1. Typed(tx[p], db) /\ tx[p].req \in Calls /\ tx[p].req.op = "catchup"
  BY PostgresCatchUpAt
<1>2. Typed(u, db)
  BY <1>1 DEF Typed, PcsOf
<1>3. ASSUME OneCallPerActor PROVE Ahead(u, db)
  BY <1>1, <1>3 DEF Ahead
<1>4. ~ Stamping(u)
  BY DEF Stamping
<1> QED BY <1>2, <1>3, <1>4, PostgresContinue

\* catchup.go: the actor's watches, ...
LEMMA PostgresReadWatches ==
  ASSUME Backend = "postgres", PostgresInv, NEW p \in Procs, ReadWatches(p)
  PROVE  PostgresInv'
<1> DEFINE t == tx[p]
           rows == [s \in Threads |-> db.lastRead[<<t.req.actor, s>>]]
           watched == {s \in Threads : rows[s] # NoRow}
           todo == SetToSeq(watched)
           pc == IF watched = {} THEN "select" ELSE "replies"
           u == [t EXCEPT !.pc = pc, !.view = TakenView, !.todo = todo, !.rows = rows]
<1>1. t.pc = "watches"
  BY DEF ReadWatches
<1>2. /\ t \in Txs /\ t.w \in Pendings /\ t.req \in Calls /\ Typed(t, db) /\ t.req.op = "catchup"
      /\ t.req.actor \in Actors
      /\ OneCallPerActor => PendingCursors(t, db) /\ CatchUpAhead(t, db)
  BY <1>1, PostgresCatchUpAt
<1>3. TakenView = t.view
  BY <1>2 DEF TakenView, Typed
<1>4. rows \in [Threads -> Cursors]
  <2>1. db \in Tables
    BY DEF PostgresInv, PostgresTypes, TablesOK
  <2> QED BY <1>2, <2>1 DEF Tables, Pairs
<1>5. todo \in Seq(Threads) /\ ToSet(todo) = watched /\ (todo = << >> <=> watched = {})
  <2>1. IsFiniteSet(watched)
    <3>1. watched \in SUBSET Threads
      OBVIOUS
    <3> HIDE DEF watched
    <3> QED BY <3>1, FiniteAssumption, FS_Subset
  <2>2. watched \subseteq Threads
    OBVIOUS
  <2> HIDE DEF watched
  <2>3. todo \in Seq(watched) /\ ToSet(todo) = watched /\ (todo = << >> <=> watched = {})
    BY <2>1, InSomeOrder
  <2> QED BY <2>2, <2>3
<1>6. tx' = [tx EXCEPT ![p] = u] /\ UNCHANGED <<db, clock, got, told>>
  BY DEF ReadWatches, Reads, Actor
<1>7. pc \in {"select", "replies"} /\ pc \in Pcs /\ (pc = "replies" => todo # << >>)
  BY <1>5 DEF Pcs
<1>8. \A s \in Threads : rows[s] = db.lastRead[<<t.req.actor, s>>]
  OBVIOUS
<1>9. \A s : s \in watched <=> s \in Threads /\ rows[s] # NoRow
  OBVIOUS
<1> HIDE DEF pc, todo, rows, watched
<1>10. /\ u \in Txs /\ u.pc = pc /\ u.req = t.req /\ u.view = t.view /\ u.stale = t.stale
       /\ u.lock = t.lock /\ u.w = t.w /\ u.todo = todo /\ u.rows = rows
       /\ u.res = t.res /\ u.news = t.news
  BY <1>2, <1>3, <1>4, <1>5, <1>7 DEF Txs
<1> HIDE DEF u
<1>11. LoopSound(u)
  BY <1>5, <1>7, <1>10 DEF LoopSound
<1>12. u.res \subseteq db.replies /\ u.news \subseteq db.mentions /\ u.w.seen \subseteq db.mentions
  BY <1>2, <1>10 DEF Typed
<1>13. ASSUME OneCallPerActor PROVE PendingCursors(u, db) /\ CatchUpAhead(u, db)
  <2>1. PendingCursors(u, db)
    BY <1>2, <1>7, <1>10, <1>13, PendingKept
  <2>2. t.res = {} /\ \A m \in t.news : m.actor = t.req.actor
    BY <1>1, <1>2, <1>13 DEF CatchUpAhead
  <2>3. ToSet(u.todo) \subseteq Watched(u)
    BY <1>5, <1>9, <1>10 DEF Watched
  <2>4. CatchUpAhead(u, db)
    BY <1>7, <1>8, <1>10, <2>2, <2>3 DEF CatchUpAhead
  <2> QED BY <2>1, <2>4
<1> QED BY <1>1, <1>6, <1>7, <1>10, <1>11, <1>12, <1>13, PostgresCatchUp

\* The loop passes a watch.
LEMMA PassingTypes ==
  ASSUME NEW t \in Txs, t.todo \in Seq(Threads), t.todo # << >>
  PROVE  /\ PassingWatch(t) \in Txs /\ LoopSound(PassingWatch(t))
         /\ Head(t.todo) \in Threads /\ Head(t.todo) \in ToSet(t.todo)
         /\ ToSet(PassingWatch(t).todo) \subseteq ToSet(t.todo)
         /\ PassingWatch(t).pc \in {"select", "replies"}
         /\ PassingWatch(t).req = t.req /\ PassingWatch(t).view = t.view
         /\ PassingWatch(t).stale = t.stale /\ PassingWatch(t).lock = t.lock
         /\ PassingWatch(t).w = t.w /\ PassingWatch(t).rows = t.rows
         /\ PassingWatch(t).res = t.res /\ PassingWatch(t).news = t.news
<1> DEFINE rest == Tail(t.todo)
           pc == IF rest = << >> THEN "select" ELSE "replies"
           u == [t EXCEPT !.todo = rest, !.pc = pc]
<1>1. rest \in Seq(Threads) /\ Head(t.todo) \in Threads /\ ToSet(t.todo) = {Head(t.todo)} \cup ToSet(rest)
  BY HeadTail
<1>2. pc \in {"select", "replies"} /\ pc \in Pcs /\ (pc = "replies" => rest # << >>)
  BY DEF Pcs
<1>3. PassingWatch(t) = u
  BY DEF PassingWatch, Txs
<1> HIDE DEF rest, pc
<1>4. /\ u \in Txs /\ u.pc = pc /\ u.todo = rest /\ u.req = t.req /\ u.view = t.view
      /\ u.stale = t.stale /\ u.lock = t.lock /\ u.w = t.w /\ u.rows = t.rows
      /\ u.res = t.res /\ u.news = t.news
  BY <1>1, <1>2 DEF Txs
<1> HIDE DEF u
<1>5. LoopSound(u)
  BY <1>1, <1>2, <1>4 DEF LoopSound
<1> QED BY <1>1, <1>2, <1>3, <1>4, <1>5

\* ... per watch the replies past the cursor it read, ...
LEMMA PostgresReadReplies ==
  ASSUME Backend = "postgres", PostgresInv, NEW p \in Procs, ReadReplies(p)
  PROVE  PostgresInv'
<1> DEFINE t == tx[p]
           h == Head(t.todo)
           x == PassingWatch(t)
           y == [t EXCEPT !.pc = "update", !.res = t.res \cup UnreadOf(p)]
<1>1. t.pc = "replies"
  BY DEF ReadReplies
<1>2. /\ t \in Txs /\ t.w \in Pendings /\ t.req \in Calls /\ Typed(t, db) /\ t.req.op = "catchup"
      /\ t.req.actor \in Actors
      /\ OneCallPerActor => PendingCursors(t, db) /\ CatchUpAhead(t, db)
  BY <1>1, PostgresCatchUpAt
<1>3. /\ t.todo \in Seq(Threads) /\ t.todo # << >> /\ ~ t.view.taken
      /\ t.res \subseteq db.replies /\ t.news \subseteq db.mentions /\ t.w.seen \subseteq db.mentions
  BY <1>1, <1>2 DEF Typed, LoopSound, NoView
<1>4. UnreadOf(p) = {r \in db.replies : r.thread = h /\ r.at > t.rows[h]}
  BY <1>3 DEF UnreadOf, D
<1>5. h \in Threads /\ h \in ToSet(t.todo)
  BY <1>2, <1>3, PassingTypes
<1>6. CASE UnreadOf(p) = {}
  <2>1. tx' = [tx EXCEPT ![p] = x] /\ UNCHANGED <<db, clock, got, told>>
    BY <1>6 DEF ReadReplies, Reads
  <2>2. /\ x \in Txs /\ LoopSound(x) /\ ToSet(x.todo) \subseteq ToSet(t.todo)
        /\ x.pc \in {"select", "replies"} /\ x.req = t.req /\ x.view = t.view
        /\ x.stale = t.stale /\ x.lock = t.lock /\ x.w = t.w /\ x.rows = t.rows
        /\ x.res = t.res /\ x.news = t.news
    BY <1>2, <1>3, PassingTypes
  <2> HIDE DEF x
  <2>3. ASSUME OneCallPerActor PROVE PendingCursors(x, db) /\ CatchUpAhead(x, db)
    <3>1. PendingCursors(x, db)
      BY <1>2, <2>2, <2>3, PendingKept
    <3>2. Watched(x) = Watched(t)
      BY <2>2 DEF Watched
    <3> QED BY <1>1, <1>2, <2>2, <2>3, <3>1, <3>2 DEF CatchUpAhead
  <2> QED BY <1>1, <1>3, <2>1, <2>2, <2>3, PostgresCatchUp
<1>7. CASE UnreadOf(p) # {}
  <2>1. tx' = [tx EXCEPT ![p] = y] /\ UNCHANGED <<db, clock, got, told>>
    BY <1>7 DEF ReadReplies, Reads
  <2>2. UnreadOf(p) \subseteq db.replies /\ db.replies \subseteq Serial!Replies
    BY <1>4 DEF PostgresInv, PostgresTypes, TablesOK, Tables
  <2>3. /\ y \in Txs /\ y.pc = "update" /\ y.req = t.req /\ y.view = t.view /\ y.todo = t.todo
        /\ y.stale = t.stale /\ y.lock = t.lock /\ y.w = t.w /\ y.rows = t.rows
        /\ y.res = t.res \cup UnreadOf(p) /\ y.news = t.news
    BY <1>2, <2>2 DEF Txs, Pcs, Writing
  <2> HIDE DEF y
  <2>4. LoopSound(y)
    <3>1. \A r \in UnreadOf(p) : r \in ResIn(y, Head(y.todo))
      BY <1>4, <2>3 DEF ResIn
    <3> QED BY <1>3, <1>7, <2>3, <3>1 DEF LoopSound
  <2>5. ASSUME OneCallPerActor PROVE PendingCursors(y, db) /\ CatchUpAhead(y, db)
    <3>1. PendingCursors(y, db)
      BY <1>2, <2>3, <2>5, PendingKept
    <3>2. Watched(y) = Watched(t)
      BY <2>3 DEF Watched
    <3>3. t.rows[h] # NoRow
      BY <1>1, <1>2, <1>5, <2>5 DEF CatchUpAhead, Watched
    <3>4. ASSUME NEW r \in y.res
          PROVE  /\ y.rows[r.thread] # NoRow /\ r.at > y.rows[r.thread]
                 /\ \/ r.at <= y.w.lastRead[<<y.req.actor, r.thread>>]
                    \/ y.pc = "update" /\ r.thread = Head(y.todo)
      <4>1. CASE r \in t.res
        BY <4>1, <1>1, <1>2, <2>3, <2>5 DEF CatchUpAhead
      <4>2. CASE r \in UnreadOf(p)
        BY <4>2, <1>4, <2>3, <3>3
      <4> QED BY <4>1, <4>2, <2>3
    <3>5. CatchUpAhead(y, db)
      BY <1>1, <1>2, <2>3, <2>5, <3>2, <3>4 DEF CatchUpAhead
    <3> QED BY <3>1, <3>5
  <2> QED BY <1>1, <1>3, <2>1, <2>2, <2>3, <2>4, <2>5, PostgresCatchUp
<1> QED BY <1>6, <1>7

\* ... the cursor set to the newest of those, ...
LEMMA PostgresUpdateCursor ==
  ASSUME Backend = "postgres", PostgresInv, NEW p \in Procs, UpdateCursor(p)
  PROVE  PostgresInv'
<1> DEFINE t == tx[p]
           h == Head(t.todo)
           q0 == <<t.req.actor, h>>
           top == Serial!Latest(ResIn(t, h))
           w == IF db.lastRead[q0] = NoRow THEN t.w ELSE SettingRead(t.w, q0, top)
           x == PassingWatch(t)
           u == [x EXCEPT !.w = w]
<1>1. t.pc = "update" /\ UNCHANGED clock
  BY DEF UpdateCursor
<1>2. /\ t \in Txs /\ t.w \in Pendings /\ t.req \in Calls /\ Typed(t, db) /\ t.req.op = "catchup"
      /\ t.req.actor \in Actors
      /\ OneCallPerActor => PendingCursors(t, db) /\ CatchUpAhead(t, db)
  BY <1>1, PostgresCatchUpAt
<1>3. /\ t.todo \in Seq(Threads) /\ t.todo # << >> /\ ResIn(t, h) # {}
      /\ t.res \subseteq db.replies /\ t.news \subseteq db.mentions /\ t.w.seen \subseteq db.mentions
  BY <1>1, <1>2 DEF Typed, LoopSound
<1>4. /\ x \in Txs /\ LoopSound(x) /\ h \in Threads /\ h \in ToSet(t.todo)
      /\ ToSet(x.todo) \subseteq ToSet(t.todo)
      /\ x.pc \in {"select", "replies"} /\ x.req = t.req /\ x.view = t.view
      /\ x.stale = t.stale /\ x.lock = t.lock /\ x.w = t.w /\ x.rows = t.rows
      /\ x.res = t.res /\ x.news = t.news
  BY <1>2, <1>3, PassingTypes
<1>5. top \in Instants /\ \A r \in ResIn(t, h) : r.at <= top
  <2>1. ResIn(t, h) \in SUBSET Serial!Replies
    BY <1>2 DEF ResIn, Txs
  <2> QED BY <1>3, <2>1, LatestIs
<1>6. Writes(p, u)
  <2>1. Newest(p) = top
    BY DEF Newest, ResIn, Serial!Latest, Serial!Max, Max
  <2>2. HeadWatch(p) = q0
    BY DEF HeadWatch, Actor
  <2> QED BY <2>1, <2>2 DEF UpdateCursor, W
<1>7. q0 \in Pairs /\ top \in Cursors
  BY <1>2, <1>4, <1>5 DEF Pairs, Cursors
<1> HIDE DEF top, x
<1>8. /\ w \in Pendings /\ w.at = t.w.at /\ w.replies = t.w.replies /\ w.seen = t.w.seen /\ w.opened = t.w.opened
      /\ \/ w = t.w /\ db.lastRead[q0] = NoRow
         \/ /\ db.lastRead[q0] # NoRow
            /\ \A q \in Pairs : w.lastRead[q] = IF q = q0 THEN top ELSE t.w.lastRead[q]
  BY <1>2, <1>7, SettingReadIs
<1> HIDE DEF w
<1>9. /\ u \in Txs /\ u.pc = x.pc /\ u.todo = x.todo /\ u.req = t.req /\ u.view = t.view
      /\ u.stale = t.stale /\ u.lock = t.lock /\ u.w = w /\ u.rows = t.rows
      /\ u.res = t.res /\ u.news = t.news
  BY <1>4, <1>8 DEF Txs
<1>10. u = [u EXCEPT !.lock = FALSE]
  <2>1. u.lock = FALSE
    BY <1>2, <1>9 DEF Typed, Txs
  <2> HIDE DEF u
  <2> QED BY <1>9, <2>1 DEF Txs
<1>11. /\ tx' = [tx EXCEPT ![p] = u] /\ UNCHANGED <<db, got, told>>
       /\ <<"lastRead", q0>> \in Needs(p) => \A o \in Procs \ {p} : tx[o].w.lastRead[q0] = Kept
  BY <1>6, <1>7, <1>10, PostgresWrites
<1>12. db.lastRead[q0] # NoRow => <<"lastRead", q0>> \in Needs(p)
  BY <1>1 DEF Needs, HeadWatch, Actor
<1> HIDE DEF u
<1>13. LoopSound(u)
  BY <1>4, <1>9 DEF LoopSound
<1>14. ASSUME OneCallPerActor
       PROVE  /\ t.rows[h] # NoRow /\ db.lastRead[q0] = t.rows[h]
              /\ top > db.lastRead[q0] /\ top <= clock
  <2>1. t.rows[h] # NoRow /\ db.lastRead[q0] = t.rows[h]
    BY <1>1, <1>2, <1>4, <1>14 DEF CatchUpAhead, Watched
  <2>2. PICK r \in ResIn(t, h) : TRUE
    BY <1>3
  <2>3. r.at > t.rows[h] /\ r.at <= top /\ r.at \in Nat
    <3>1. r \in t.res /\ r.thread = h
      BY <2>2 DEF ResIn
    <3>2. r \in Serial!Replies
      BY <1>2, <3>1 DEF Txs
    <3>3. r.at > t.rows[r.thread]
      BY <1>2, <1>14, <3>1 DEF CatchUpAhead
    <3>4. r.at \in Nat
      BY <3>2 DEF Serial!Replies, Instants
    <3> QED BY <1>5, <2>2, <3>1, <3>3, <3>4
  <2>4. t.rows[h] \in Int
    BY <1>2, <1>4 DEF Txs, Cursors, Instants, ZeroTime, NoRow
  <2>5. top > db.lastRead[q0]
    BY <1>5, <2>1, <2>3, <2>4 DEF Instants
  <2>6. top <= clock
    <3>1. \E r1 \in ResIn(t, h) : r1.at = top
      BY <1>2, <1>3, LatestIs DEF top, ResIn, Txs
    <3>2. \A r1 \in db.replies : r1.at <= clock
      BY <1>14 DEF PostgresInv, PostgresOrder, TimesOK
    <3> QED BY <1>3, <3>1, <3>2 DEF ResIn
  <2> QED BY <2>1, <2>5, <2>6
<1>15. ASSUME OneCallPerActor PROVE PendingCursors(u, db) /\ CatchUpAhead(u, db)
  <2>1. \A q \in Pairs : w.lastRead[q] = IF q = q0 THEN top ELSE t.w.lastRead[q]
    BY <1>8, <1>14, <1>15
  <2>2. PendingCursors(u, db)
    <3>1. top # NoRow /\ q0[1] = t.req.actor /\ u.pc # "read" /\ PendingCursors(t, db)
      BY <1>2, <1>4, <1>5, <1>9, <1>15 DEF Instants, NoRow
    <3> QED BY <1>7, <1>9, <1>14, <1>15, <2>1, <3>1, PendingSet
  <2>3. ASSUME NEW r \in u.res
        PROVE  /\ u.rows[r.thread] # NoRow /\ r.at > u.rows[r.thread]
               /\ r.at <= u.w.lastRead[<<u.req.actor, r.thread>>]
    <3>1. r \in t.res /\ r.thread \in Threads /\ <<t.req.actor, r.thread>> \in Pairs
      BY <1>2, <1>9 DEF Txs, Serial!Replies, Pairs
    <3>2. /\ t.rows[r.thread] # NoRow /\ r.at > t.rows[r.thread]
          /\ r.at <= t.w.lastRead[<<t.req.actor, r.thread>>] \/ r.thread = h
      BY <1>2, <1>15, <3>1 DEF CatchUpAhead
    <3>3. CASE r.thread = h
      BY <1>5, <1>9, <2>1, <3>1, <3>2, <3>3 DEF ResIn
    <3>4. CASE r.thread # h
      BY <1>9, <2>1, <3>1, <3>2, <3>4
    <3> QED BY <3>3, <3>4
  <2>4. Watched(u) = Watched(t)
    BY <1>9 DEF Watched
  <2>5. CatchUpAhead(u, db)
    BY <1>1, <1>2, <1>4, <1>9, <1>15, <2>3, <2>4 DEF CatchUpAhead
  <2> QED BY <2>2, <2>5
<1>16. ASSUME OneCallPerActor, NEW q \in Pairs
       PROVE  \/ u.w.lastRead[q] \in {Kept, t.w.lastRead[q]}
              \/ u.w.lastRead[q] <= clock /\ \A o \in Procs \ {p} : tx[o].w.lastRead[q] = Kept
  BY <1>8, <1>9, <1>11, <1>12, <1>14, <1>16
<1>17. /\ u \in Txs /\ tx' = [tx EXCEPT ![p] = u] /\ UNCHANGED <<db, clock, got, told>>
       /\ u.req = tx[p].req /\ u.view = tx[p].view /\ u.stale = tx[p].stale /\ u.lock = tx[p].lock
       /\ u.w.at = tx[p].w.at /\ u.w.replies = tx[p].w.replies /\ u.w.opened = tx[p].w.opened
       /\ tx[p].pc = "update" /\ u.pc \in {"replies", "select"}
       /\ u.res \subseteq db.replies /\ u.news \subseteq db.mentions /\ u.w.seen \subseteq db.mentions
  BY <1>1, <1>3, <1>4, <1>8, <1>9, <1>11
<1> QED BY <1>13, <1>15, <1>16, <1>17, PostgresCatchUp

\* ... the unseen mentions, ...
LEMMA PostgresReadMentions ==
  ASSUME Backend = "postgres", PostgresInv, NEW p \in Procs, ReadMentions(p)
  PROVE  PostgresInv'
<1> DEFINE t == tx[p]
           news == {m \in db.mentions : m.actor = t.req.actor /\ m \notin db.seen}
           pc == IF news = {} THEN "commit" ELSE "mark"
           u == [t EXCEPT !.pc = pc, !.news = news]
<1>1. t.pc = "select"
  BY DEF ReadMentions
<1>2. /\ t \in Txs /\ t.w \in Pendings /\ t.req \in Calls /\ Typed(t, db) /\ t.req.op = "catchup"
      /\ OneCallPerActor => PendingCursors(t, db) /\ CatchUpAhead(t, db)
  BY <1>1, PostgresCatchUpAt
<1>3. /\ t.res \subseteq db.replies /\ t.w.seen \subseteq db.mentions /\ ~ t.view.taken
  BY <1>2 DEF Typed, NoView
<1>4. tx' = [tx EXCEPT ![p] = u] /\ UNCHANGED <<db, clock, got, told>>
  BY <1>3 DEF ReadMentions, Reads, D, Actor
<1>5. /\ news \subseteq db.mentions /\ news \in SUBSET Serial!Mentions
      /\ \A m \in news : m.actor = t.req.actor
  BY DEF PostgresInv, PostgresTypes, TablesOK, Tables
<1>6. pc \in {"commit", "mark"} /\ pc \in Pcs /\ (pc = "commit" => news = {})
  BY DEF Pcs, Writing
<1> HIDE DEF news, pc
<1>7. /\ u \in Txs /\ u.pc = pc /\ u.req = t.req /\ u.view = t.view /\ u.stale = t.stale
      /\ u.lock = t.lock /\ u.w = t.w /\ u.rows = t.rows /\ u.res = t.res /\ u.news = news
  BY <1>2, <1>5, <1>6 DEF Txs
<1> HIDE DEF u
<1>8. LoopSound(u)
  BY <1>6, <1>7 DEF LoopSound
<1>9. ASSUME OneCallPerActor PROVE PendingCursors(u, db) /\ CatchUpAhead(u, db)
  <2>1. PendingCursors(u, db)
    BY <1>2, <1>6, <1>7, <1>9, PendingKept
  <2> QED BY <1>1, <1>2, <1>5, <1>6, <1>7, <1>9, <2>1 DEF CatchUpAhead
<1> QED BY <1>1, <1>3, <1>4, <1>5, <1>6, <1>7, <1>8, <1>9, PostgresCatchUp

\* ... and every mention unseen by then marked seen.
LEMMA PostgresMarkMentions ==
  ASSUME Backend = "postgres", PostgresInv, NEW p \in Procs, MarkMentions(p)
  PROVE  PostgresInv'
<1> DEFINE t == tx[p]
           unseen == UnseenOf(t.req.actor)
           w == [t.w EXCEPT !.seen = unseen]
           u == [t EXCEPT !.pc = "commit", !.w = w]
<1>1. t.pc = "mark" /\ UNCHANGED clock /\ Writes(p, u)
  BY DEF MarkMentions, W, Actor
<1>2. /\ t \in Txs /\ t.w \in Pendings /\ t.req \in Calls /\ Typed(t, db) /\ t.req.op = "catchup"
      /\ OneCallPerActor => PendingCursors(t, db) /\ CatchUpAhead(t, db)
  BY <1>1, PostgresCatchUpAt
<1>3. t.res \subseteq db.replies /\ t.news \subseteq db.mentions
  BY <1>2 DEF Typed
<1>4. /\ unseen \subseteq db.mentions /\ unseen \in SUBSET Serial!Mentions
      /\ \A m \in db.mentions : m.actor = t.req.actor => m \in db.seen \cup unseen
  BY DEF UnseenOf, PostgresInv, PostgresTypes, TablesOK, Tables
<1> HIDE DEF unseen
<1>5. /\ w \in Pendings /\ w.at = t.w.at /\ w.replies = t.w.replies /\ w.seen = unseen /\ w.opened = t.w.opened
      /\ w.lastRead = t.w.lastRead
  BY <1>2, <1>4 DEF Pendings
<1> HIDE DEF w
<1>6. /\ u \in Txs /\ u.pc = "commit" /\ u.req = t.req /\ u.view = t.view /\ u.stale = t.stale
      /\ u.lock = t.lock /\ u.w = w /\ u.rows = t.rows /\ u.res = t.res /\ u.news = t.news
  BY <1>2, <1>5 DEF Txs, Pcs
<1>7. u = [u EXCEPT !.lock = FALSE]
  BY <1>2 DEF Typed, Txs
<1>8. tx' = [tx EXCEPT ![p] = u] /\ UNCHANGED <<db, got, told>>
  BY <1>1, <1>7, PostgresWrites
<1> HIDE DEF u
<1>9. LoopSound(u)
  BY <1>6 DEF LoopSound
<1>10. ASSUME OneCallPerActor PROVE PendingCursors(u, db) /\ CatchUpAhead(u, db)
  <2>1. PendingCursors(u, db)
    BY <1>2, <1>5, <1>6, <1>10, PendingKept
  <2>2. CatchUpAhead(t, db)
    BY <1>2, <1>10
  <2>3. t.news \subseteq db.seen \cup unseen
    BY <1>3, <1>4, <2>2 DEF CatchUpAhead
  <2> QED BY <1>1, <1>5, <1>6, <2>1, <2>2, <2>3 DEF CatchUpAhead
<1> QED BY <1>1, <1>3, <1>4, <1>5, <1>6, <1>8, <1>9, <1>10, PostgresCatchUp

-----------------------------------------------------------------------------
\* What a commit finds and leaves.
LEMMA PostgresCommitAt ==
  ASSUME PostgresInv, NEW p \in Procs, Commit(p)
  PROVE  /\ tx[p] \in Txs /\ tx[p].w \in Pendings /\ tx[p].req \in Calls /\ Typed(tx[p], db)
         /\ tx[p].pc = "commit" /\ tx[p].req.actor \in Actors
         /\ tx[p].req.op \in {"create", "reply", "watch", "unwatch", "catchup"}
         /\ tx[p].req.op # "catchup" => tx[p].req.thread \in Threads
         /\ db \in Tables /\ clock' = clock
         /\ tx' = [tx EXCEPT ![p] = Idle]
         /\ db' = Applied(db, tx[p].w)
<1>1. /\ tx \in [Procs -> Txs] /\ db \in Tables /\ \A o \in Procs : Typed(tx[o], db)
  BY DEF PostgresInv, PostgresTypes, TablesOK
<1>2. tx[p].pc = "commit" /\ db' = Applied(db, tx[p].w) /\ clock' = clock
  BY DEF Commit, W
<1>3. /\ tx[p] \in Txs /\ tx[p].w \in Pendings /\ tx[p].req \in Calls /\ tx[p].req.actor \in Actors
      /\ tx[p].req.op \in {"create", "reply", "watch", "unwatch", "catchup"}
      /\ tx[p].req.op # "catchup" => tx[p].req.thread \in Threads
  BY <1>2, PostgresAt
<1>4. ASSUME NEW o \in Procs
      PROVE  [tx[o] EXCEPT !.stale = @ \/ (tx[o].view.taken /\ W(p) # NoWrites)] = tx[o]
  <2>1. tx[o] \in Txs /\ tx[o].stale = FALSE /\ ~ tx[o].view.taken
    BY <1>1 DEF Typed, Txs, NoView
  <2>2. (tx[o].stale \/ (tx[o].view.taken /\ W(p) # NoWrites)) = FALSE
    BY <2>1
  <2> QED BY <2>1, <2>2 DEF Txs
<1>5. tx' = [o \in Procs |-> IF o = p THEN Idle ELSE tx[o]]
  BY <1>4 DEF Commit
<1>6. tx' = [tx EXCEPT ![p] = Idle]
  BY <1>1, <1>5
<1> QED BY <1>1, <1>2, <1>3, <1>6

LEMMA PostgresApplied ==
  ASSUME PostgresInv, NEW p \in Procs, Commit(p)
  PROVE  /\ db'.status = [s \in Threads |-> IF s \in tx[p].w.opened THEN "open" ELSE db.status[s]]
         /\ db'.replies = db.replies \cup tx[p].w.replies
         /\ db'.seen = db.seen \cup tx[p].w.seen
         /\ \A q \in Pairs : db'.lastRead[q] = IF tx[p].w.lastRead[q] = Kept THEN db.lastRead[q]
                                                                             ELSE tx[p].w.lastRead[q]
<1> DEFINE w == tx[p].w
<1>1. db' = Applied(db, w)
  BY PostgresCommitAt
<1> HIDE DEF w
<1>2. /\ db'.status = [s \in Threads |-> IF s \in w.opened THEN "open" ELSE db.status[s]]
      /\ db'.replies = db.replies \cup w.replies
      /\ db'.seen = db.seen \cup w.seen
      /\ db'.lastRead = [q \in Pairs |-> IF w.lastRead[q] = Kept THEN db.lastRead[q] ELSE w.lastRead[q]]
  BY <1>1, AppliedTables
<1>3. \A q \in Pairs : db'.lastRead[q] = IF w.lastRead[q] = Kept THEN db.lastRead[q] ELSE w.lastRead[q]
  BY <1>2
<1> QED BY <1>2, <1>3 DEF w

\* The tables a commit leaves, and what the histories gain.
LEMMA PostgresTables ==
  ASSUME PostgresInv, NEW p \in Procs, Commit(p)
  PROVE  /\ TablesOK'
         /\ db.replies \subseteq db'.replies /\ db.mentions \subseteq db'.mentions
<1> DEFINE t == tx[p]
           w == t.w
<1>1. /\ t \in Txs /\ w \in Pendings /\ Typed(t, db) /\ t.req.actor \in Actors
      /\ t.req.op \in {"create", "reply", "watch", "unwatch", "catchup"}
      /\ db \in Tables /\ db' = Applied(db, w)
  BY PostgresCommitAt
<1>2. /\ db.seen \subseteq db.mentions /\ got \in [Actors -> SUBSET db.replies] /\ told \subseteq db.mentions
  BY DEF PostgresInv, PostgresTypes, TablesOK
<1>3. /\ db'.status = [s \in Threads |-> IF s \in w.opened THEN "open" ELSE db.status[s]]
      /\ db'.replies = db.replies \cup w.replies
      /\ db'.watcher = (db.watcher \cup w.joined) \ w.left
      /\ db'.lastRead = [q \in Pairs |-> IF w.lastRead[q] = Kept THEN db.lastRead[q] ELSE w.lastRead[q]]
      /\ db'.mentions = db.mentions \cup w.mentions
      /\ db'.seen = db.seen \cup w.seen
      /\ db'.latest = IF w.at > db.latest THEN w.at ELSE db.latest
      /\ db' = [status |-> db'.status, replies |-> db'.replies, watcher |-> db'.watcher,
                lastRead |-> db'.lastRead, mentions |-> db'.mentions, seen |-> db'.seen,
                latest |-> db'.latest]
  BY <1>1, AppliedTables DEF Applied
<1>4. db' \in Tables
  <2>1. db'.status \in [Threads -> {"absent", "open"}]
    BY <1>1, <1>3 DEF Tables
  <2>2. db'.lastRead \in [Pairs -> Cursors]
    BY <1>1, <1>3 DEF Tables, Pendings
  <2>3. db'.latest \in Instants \cup {ZeroTime}
    BY <1>1, <1>3 DEF Tables, Pendings
  <2>4. /\ db'.replies \in SUBSET Serial!Replies /\ db'.watcher \in SUBSET Pairs
        /\ db'.mentions \in SUBSET Serial!Mentions /\ db'.seen \in SUBSET Serial!Mentions
    BY <1>1, <1>3 DEF Tables, Pendings
  <2> QED BY <1>3, <2>1, <2>2, <2>3, <2>4 DEF Tables
<1>5. t.res \subseteq db.replies /\ t.news \subseteq db.mentions /\ w.seen \subseteq db.mentions
  BY <1>1 DEF Typed
<1>6. db'.seen \subseteq db'.mentions
  BY <1>2, <1>3, <1>5
<1>7. got' \in [Actors -> SUBSET db'.replies] /\ told' \subseteq db'.mentions
  <2>1. CASE t.req.op = "catchup"
    <3>1. got' = [got EXCEPT ![t.req.actor] = @ \cup t.res] /\ told' = told \cup t.news
      BY <2>1 DEF Commit, Op, Actor
    <3> QED BY <3>1, <1>1, <1>2, <1>3, <1>5
  <2>2. CASE t.req.op = "unwatch"
    <3>1. got' = [got EXCEPT ![t.req.actor] = {r \in @ : r.thread # t.req.thread}] /\ told' = told
      BY <2>2 DEF Commit, Op, Actor, Thread
    <3> QED BY <3>1, <1>1, <1>2, <1>3
  <2>3. CASE t.req.op \notin {"catchup", "unwatch"}
    <3>1. got' = got /\ told' = told
      BY <2>3 DEF Commit, Op
    <3> QED BY <3>1, <1>2, <1>3
  <2> QED BY <2>1, <2>2, <2>3
<1> QED BY <1>3, <1>4, <1>6, <1>7 DEF TablesOK

\* Commit leaves the types and the clock.
LEMMA PostgresCommitTypes ==
  ASSUME PostgresInv, NEW p \in Procs, Commit(p)
  PROVE  PostgresTypes'
<1> DEFINE w == tx[p].w
<1>1. /\ w \in Pendings /\ db \in Tables /\ db' = Applied(db, w) /\ clock' = clock
      /\ tx' = [tx EXCEPT ![p] = Idle] /\ tx[p].pc = "commit"
  BY PostgresCommitAt
<1>2. TablesOK' /\ db.replies \subseteq db'.replies /\ db.mentions \subseteq db'.mentions
  BY PostgresTables
<1>3. tx \in [Procs -> Txs] /\ (\A o \in Procs : Typed(tx[o], db)) /\ ClockOK
  BY DEF PostgresInv, PostgresTypes
<1>4. tx' \in [Procs -> Txs] /\ tx'[p] = Idle /\ \A o \in Procs \ {p} : tx'[o] = tx[o]
  BY <1>1, <1>3, IdleType
<1>5. ASSUME NEW o \in Procs PROVE Typed(tx'[o], db')
  <2>1. Typed(tx'[o], db)
    BY <1>3, <1>4, IdleTyped
  <2> QED BY <1>2, <2>1 DEF Typed
<1>6. ClockOK'
  <2>1. clock \in Nat /\ db.latest <= clock /\ (\A o \in Procs : tx[o].w.at <= clock)
        /\ clock + Cardinality(Unstamped) <= MaxClock
    BY <1>3 DEF ClockOK
  <2>2. db'.latest <= clock
    <3>1. db'.latest = IF w.at > db.latest THEN w.at ELSE db.latest
      BY <1>1, AppliedTables
    <3> QED BY <2>1, <3>1
  <2>3. Idle.w.at <= clock
    BY <2>1, IdleTyped DEF NoWrites, ZeroTime
  <2>4. Unstamped' \in SUBSET Unstamped
    <3>1. ~ Stamping(Idle)
      BY IdleTyped
    <3> HIDE DEF Idle
    <3>2. Unstamped' = {o \in Procs : Stamping(tx'[o])} /\ Unstamped = {o \in Procs : Stamping(tx[o])}
      BY DEF Unstamped, Stamping, Op
    <3> QED BY <3>1, <3>2, <1>4
  <2>5. Cardinality(Unstamped') <= Cardinality(Unstamped) /\ Cardinality(Unstamped') \in Nat
    BY <2>4, UnstampedFinite, FS_Subset, FS_CardinalityType
  <2>6. clock + Cardinality(Unstamped') <= MaxClock
    BY <2>1, <2>5, UnstampedFinite, MaxClockAssumption
  <2>7. \A o \in Procs : tx'[o].w.at <= clock
    BY <1>4, <2>1, <2>3
  <2> QED BY <1>1, <2>1, <2>2, <2>6, <2>7 DEF ClockOK
<1> QED BY <1>2, <1>4, <1>5, <1>6 DEF PostgresTypes

\* The cursors a commit leaves: those it wrote are later, but the one an
\* unwatch deletes.
LEMMA PostgresCursors ==
  ASSUME PostgresInv, OneCallPerActor, NEW p \in Procs, Commit(p), NEW q \in Pairs
  PROVE  /\ db.lastRead[q] \in Int /\ db'.lastRead[q] \in Int
         /\ \/ db'.lastRead[q] = db.lastRead[q] /\ tx[p].w.lastRead[q] = Kept
            \/ db'.lastRead[q] = tx[p].w.lastRead[q] /\ db'.lastRead[q] > db.lastRead[q]
            \/ /\ db'.lastRead[q] = NoRow /\ tx[p].req.op = "unwatch" /\ q = OwnOf(tx[p].req)
               /\ tx[p].w.lastRead[q] # Kept
<1>1. /\ tx[p].w \in Pendings /\ db \in Tables /\ db' = Applied(db, tx[p].w)
  BY PostgresCommitAt
<1>2. db'.lastRead[q] = IF tx[p].w.lastRead[q] = Kept THEN db.lastRead[q] ELSE tx[p].w.lastRead[q]
  BY PostgresApplied
<1>3. PendingCursors(tx[p], db)
  BY DEF PostgresInv, PostgresOrder, Ahead
<1>4. db.lastRead[q] \in Int /\ tx[p].w.lastRead[q] \in Int
  BY <1>1 DEF Tables, Pendings, Cursors, Instants, ZeroTime, NoRow, Kept
<1> QED BY <1>2, <1>3, <1>4 DEF PendingCursors

\* What catch_up returned stays below the cursors.
LEMMA PostgresReturned ==
  ASSUME PostgresInv, OneCallPerActor, NEW p \in Procs, Commit(p)
  PROVE  Returned'
<1> DEFINE t == tx[p]
           w == t.w
           b == t.req.actor
<1>1. /\ t \in Txs /\ w \in Pendings /\ b \in Actors /\ t.pc = "commit" /\ db \in Tables
      /\ t.req.op \in {"create", "reply", "watch", "unwatch", "catchup"} /\ db' = Applied(db, w)
  BY PostgresCommitAt
<1>2. Returned /\ Ahead(t, db) /\ got \in [Actors -> SUBSET db.replies]
  BY DEF PostgresInv, PostgresOrder, PostgresTypes, TablesOK
<1>3. db'.seen = db.seen \cup w.seen
  BY PostgresApplied
<1>4. t.req.op = "catchup" =>
        /\ got' = [got EXCEPT ![b] = @ \cup t.res] /\ told' = told \cup t.news
        /\ t.news \subseteq db.seen \cup w.seen
        /\ \A r \in t.res : r.at <= w.lastRead[<<b, r.thread>>]
  BY <1>1, <1>2 DEF Commit, Op, Actor, Ahead, CatchUpAhead
<1>5. t.req.op = "unwatch" =>
        got' = [got EXCEPT ![b] = {r \in @ : r.thread # t.req.thread}] /\ told' = told
  BY DEF Commit, Op, Actor, Thread
<1>6. t.req.op \notin {"catchup", "unwatch"} => got' = got /\ told' = told
  BY DEF Commit, Op
<1>7. told' \subseteq db'.seen
  BY <1>1, <1>2, <1>3, <1>4, <1>5, <1>6 DEF Returned
<1>8. ASSUME NEW a \in Actors, NEW r \in got[a], t.req.op = "unwatch" /\ a = b => r.thread # t.req.thread
      PROVE  LET q == <<a, r.thread>>
             IN  db'.lastRead[q] # NoRow /\ r.at <= db'.lastRead[q]
  <2> DEFINE q == <<a, r.thread>>
  <2>1. r \in Serial!Replies
    BY <1>1, <1>2 DEF Tables
  <2>2. q \in Pairs /\ r.at \in Instants /\ r.at \in Int /\ r.at # NoRow /\ r.at > NoRow
    BY <2>1 DEF Serial!Replies, Pairs, Instants, NoRow
  <2>3. db.lastRead[q] # NoRow /\ r.at <= db.lastRead[q]
    BY <1>2 DEF Returned
  <2>4. ~ (t.req.op = "unwatch" /\ q = OwnOf(t.req))
    BY <1>8 DEF OwnOf
  <2> HIDE DEF q, t
  <2>5. /\ db.lastRead[q] \in Int /\ db'.lastRead[q] \in Int
        /\ db'.lastRead[q] = db.lastRead[q] \/ db'.lastRead[q] > db.lastRead[q]
    BY <2>2, <2>4, PostgresCursors DEF t
  <2>6. NoRow \in Int
    BY DEF NoRow
  <2>7. db'.lastRead[q] # NoRow /\ r.at <= db'.lastRead[q]
    BY <2>2, <2>3, <2>5, <2>6
  <2> QED BY <2>7 DEF q
<1>9. ASSUME NEW r \in t.res, t.req.op = "catchup"
      PROVE  LET q == <<b, r.thread>>
             IN  db'.lastRead[q] # NoRow /\ r.at <= db'.lastRead[q]
  <2> DEFINE q == <<b, r.thread>>
  <2>1. r \in Serial!Replies
    BY <1>1 DEF Txs
  <2>2. q \in Pairs /\ r.at \in Instants
    BY <1>1, <2>1 DEF Serial!Replies, Pairs
  <2>3. r.at <= w.lastRead[q]
    BY <1>4, <1>9
  <2>4. w.lastRead[q] # Kept /\ w.lastRead[q] # NoRow
    BY <2>2, <2>3 DEF Kept, NoRow, Instants
  <2>5. db'.lastRead[q] = w.lastRead[q]
    BY <2>2, <2>4, PostgresApplied
  <2> QED BY <2>3, <2>4, <2>5
<1>10. ASSUME NEW a \in Actors, NEW r \in got'[a]
       PROVE  /\ db'.lastRead[<<a, r.thread>>] # NoRow
              /\ r.at <= db'.lastRead[<<a, r.thread>>]
  <2>1. CASE t.req.op = "catchup"
    <3>1. r \in got[a] \/ (a = b /\ r \in t.res)
      BY <1>1, <1>2, <1>4, <2>1
    <3> HIDE DEF t
    <3> QED BY <2>1, <3>1, <1>8, <1>9
  <2>2. CASE t.req.op = "unwatch"
    <3>1. r \in got[a] /\ (a = b => r.thread # t.req.thread)
      BY <1>1, <1>2, <1>5, <2>2
    <3> HIDE DEF t
    <3> QED BY <2>2, <3>1, <1>8
  <2>3. CASE t.req.op \notin {"catchup", "unwatch"}
    <3>1. r \in got[a]
      BY <1>6, <2>3
    <3> HIDE DEF t
    <3> QED BY <2>3, <3>1, <1>8
  <2> QED BY <2>1, <2>2, <2>3
<1> QED BY <1>7, <1>10 DEF Returned

\* What the other requests rely on stays as it was.
LEMMA PostgresOthers ==
  ASSUME PostgresInv, OneCallPerActor, NEW p \in Procs, Commit(p), NEW o \in Procs, o # p
  PROVE  Ahead(tx[o], db')
<1> DEFINE t == tx[p]
           u == tx[o]
<1>1. /\ t \in Txs /\ t.w \in Pendings /\ db \in Tables /\ Typed(t, db) /\ t.pc = "commit"
      /\ db' = Applied(db, t.w)
  BY PostgresCommitAt
<1>2. Ahead(u, db) /\ Ahead(t, db) /\ Apart(t, u) /\ Typed(u, db) /\ PendingCursors(t, db)
  BY DEF PostgresInv, PostgresOrder, PostgresTypes, Ahead
<1>3. /\ db'.status = [s \in Threads |-> IF s \in t.w.opened THEN "open" ELSE db.status[s]]
      /\ \A q \in Pairs : db'.lastRead[q] = IF t.w.lastRead[q] = Kept THEN db.lastRead[q]
                                                                      ELSE t.w.lastRead[q]
      /\ db'.seen = db.seen \cup t.w.seen
  BY PostgresApplied
<1>4. PendingCursors(u, db')
  <2>1. \A q \in Pairs : u.w.lastRead[q] # Kept => db'.lastRead[q] = db.lastRead[q]
    BY <1>2, <1>3 DEF Apart
  <2>2. PendingCursors(u, db)
    BY <1>2 DEF Ahead
  <2> HIDE DEF u
  <2> QED BY <2>1, <2>2 DEF PendingCursors
<1>5. CASE u.pc = "idle"
  <2>1. u.req.op = "none"
    BY <1>2, <1>5 DEF Typed, Idle, NoCall
  <2> QED BY <1>4, <2>1 DEF Ahead
<1>6. CASE u.pc # "idle"
  <2>1. /\ u.req \in Calls /\ u.req.actor \in Actors /\ (u.req.op # "catchup" => u.req.thread \in Threads)
    BY <1>6, PostgresAt
  <2>2. u.req.actor # t.req.actor
    BY <1>1, <1>2, <1>6 DEF Apart
  \* The others' pending rows of u's actor are new ones.
  <2>3. ASSUME NEW s \in Threads, db.lastRead[<<u.req.actor, s>>] # NoRow
        PROVE  db'.lastRead[<<u.req.actor, s>>] = db.lastRead[<<u.req.actor, s>>]
    <3> DEFINE q == <<u.req.actor, s>>
    <3>1. q \in Pairs /\ q[1] # t.req.actor
      BY <2>1, <2>2 DEF Pairs
    <3>2. db.lastRead[q] \in Cursors
      BY <1>1, <3>1 DEF Tables
    <3>3. t.w.lastRead[q] # Kept => t.w.lastRead[q] = ZeroTime /\ t.w.lastRead[q] > db.lastRead[q]
      <4>1. ZeroTime # NoRow
        BY DEF ZeroTime, NoRow
      <4> QED BY <1>2, <3>1, <4>1 DEF PendingCursors
    <3>4. t.w.lastRead[q] = Kept
      BY <2>3, <3>2, <3>3 DEF Cursors, Instants, ZeroTime, NoRow
    <3> QED BY <1>3, <3>1, <3>4
  <2>4. u.req.op = "create" => db'.status[u.req.thread] = "absent"
    <3>1. u.req.op = "create" => db.status[u.req.thread] = "absent" /\ u.req.thread \notin t.w.opened
      BY <1>1, <1>2 DEF Ahead, Typed, Apart
    <3> QED BY <1>3, <2>1, <3>1
  <2>5. u.req.op \in {"reply", "watch"} => JoinAhead(u, db')
    <3>1. ASSUME u.req.op \in {"reply", "watch"}, u.pc # "read" PROVE db'.status[u.req.thread] # "absent"
      BY <1>2, <1>3, <2>1, <3>1 DEF Ahead, JoinAhead
    <3>2. ASSUME u.req.op = "reply", u.pc \in {"watcher", "cursor"}
          PROVE  u.w.at > db'.lastRead[OwnOf(u.req)]
      <4>1. u.w.at \in Instants /\ u.w.at > db.lastRead[OwnOf(u.req)]
        BY <1>2, <3>2 DEF Typed, Ahead, JoinAhead
      <4>2. OwnOf(u.req) \in Pairs /\ OwnOf(u.req)[1] # t.req.actor
        BY <2>1, <2>2, <3>2 DEF OwnOf, Pairs
      <4>3. db'.lastRead[OwnOf(u.req)] \in {db.lastRead[OwnOf(u.req)], ZeroTime}
        BY <1>2, <1>3, <4>2 DEF PendingCursors
      <4> QED BY <4>1, <4>3 DEF Instants, ZeroTime
    <3> QED BY <3>1, <3>2 DEF JoinAhead
  <2>6. u.req.op = "catchup" => CatchUpAhead(u, db')
    <3>1. ASSUME u.req.op = "catchup" PROVE CatchUpAhead(u, db)
      BY <1>2, <3>1 DEF Ahead
    <3>2. ASSUME NEW s \in Threads, u.rows[s] # NoRow, db.lastRead[<<u.req.actor, s>>] = u.rows[s]
          PROVE  db'.lastRead[<<u.req.actor, s>>] = u.rows[s]
      BY <2>3, <3>2
    <3> HIDE DEF u
    <3> QED BY <1>3, <3>1, <3>2 DEF CatchUpAhead
  <2> QED BY <1>4, <2>4, <2>5, <2>6 DEF Ahead
<1> QED BY <1>5, <1>6

\* Nothing committed is ahead of the clock.
LEMMA PostgresTimes ==
  ASSUME PostgresInv, OneCallPerActor, NEW p \in Procs, Commit(p)
  PROVE  TimesOK'
<1>1. /\ tx[p].w \in Pendings /\ db \in Tables /\ db' = Applied(db, tx[p].w) /\ clock' = clock
      /\ tx' = [tx EXCEPT ![p] = Idle]
  BY PostgresCommitAt
<1>2. TimesOK /\ clock \in Nat /\ tx \in [Procs -> Txs]
  BY DEF PostgresInv, PostgresOrder, PostgresTypes, ClockOK
<1>3. tx'[p] = Idle /\ \A o \in Procs \ {p} : tx'[o] = tx[o]
  BY <1>1, <1>2
<1>4. db'.replies = db.replies \cup tx[p].w.replies
      /\ \A q \in Pairs : db'.lastRead[q] = IF tx[p].w.lastRead[q] = Kept THEN db.lastRead[q]
                                                                          ELSE tx[p].w.lastRead[q]
  BY PostgresApplied
<1>5. Idle.w = NoWrites
  BY IdleTyped
<1> HIDE DEF Idle
<1>6. (\A q \in Pairs : Idle.w.lastRead[q] <= clock) /\ Idle.w.replies = {}
  BY <1>5, NothingPending
<1> QED BY <1>1, <1>2, <1>3, <1>4, <1>6 DEF TimesOK

LEMMA PostgresCommit ==
  ASSUME PostgresInv, NEW p \in Procs, Commit(p)
  PROVE  PostgresInv'
<1>1. PostgresTypes'
  BY PostgresCommitTypes
<1>2. ASSUME OneCallPerActor PROVE PostgresOrder'
  <2>1. tx' = [tx EXCEPT ![p] = Idle] /\ tx \in [Procs -> Txs]
    BY PostgresCommitAt DEF PostgresInv, PostgresTypes
  <2>2. tx'[p] = Idle /\ \A o \in Procs \ {p} : tx'[o] = tx[o]
    BY <2>1
  <2>3. Returned' /\ TimesOK'
    BY <1>2, PostgresReturned, PostgresTimes
  <2>4. ASSUME NEW o \in Procs PROVE Ahead(tx'[o], db')
    <3>1. CASE o = p
      <4>1. /\ Idle.req.op = "none" /\ \A q \in Pairs : Idle.w.lastRead[q] = Kept
        BY DEF Idle, NoCall, NoWrites
      <4> HIDE DEF Idle
      <4> QED BY <2>2, <3>1, <4>1 DEF Ahead, PendingCursors
    <3>2. CASE o # p
      BY <1>2, <2>2, <3>2, PostgresOthers
    <3> QED BY <3>1, <3>2
  <2>5. ASSUME NEW x \in Procs, NEW o \in Procs, x # o PROVE Apart(tx'[x], tx'[o])
    <3>1. Idle.pc = "idle" /\ Idle.req.op = "none" /\ \A q \in Pairs : Idle.w.lastRead[q] = Kept
      BY DEF Idle, NoCall, NoWrites
    <3> HIDE DEF Idle
    <3>2. \A u : Apart(Idle, u) /\ Apart(u, Idle)
      BY <3>1 DEF Apart
    <3>3. Apart(tx[x], tx[o])
      BY <1>2, <2>5 DEF PostgresInv, PostgresOrder
    <3> QED BY <2>2, <2>5, <3>2, <3>3
  <2> QED BY <2>3, <2>4, <2>5 DEF PostgresOrder
<1> QED BY <1>1, <1>2 DEF PostgresInv

\* The server stops: every transaction is rolled back.
LEMMA PostgresCrash ==
  ASSUME PostgresInv, Crash
  PROVE  PostgresInv'
<1>1. tx' = [p \in Procs |-> Idle] /\ UNCHANGED <<db, clock, got, told>>
  BY DEF Crash
<1>2. TablesOK /\ ClockOK
  BY DEF PostgresInv, PostgresTypes
<1>3. /\ Typed(Idle, db) /\ ~ Stamping(Idle) /\ Idle.w = NoWrites /\ Idle.pc = "idle" /\ Ahead(Idle, db)
      /\ \A u : Apart(Idle, u)
  BY IdleTyped, IdleAhead
<1>4. tx' \in [Procs -> Txs] /\ \A p \in Procs : tx'[p] = Idle
  BY <1>1, IdleType
<1> HIDE DEF Idle
<1>5. /\ Idle.w.at <= clock /\ Idle.w.replies = {} /\ clock \in Nat
      /\ \A q \in Pairs : Idle.w.lastRead[q] <= clock
  BY <1>3, NothingPending DEF ZeroTime
<1>6. ClockOK'
  <2>1. clock \in Nat /\ db.latest <= clock /\ clock + Cardinality(Unstamped) <= MaxClock
    BY <1>2 DEF ClockOK
  <2>2. Unstamped' = {}
    BY <1>3, <1>4 DEF Unstamped, Stamping, Op
  <2>3. Cardinality({}) = 0
    BY FS_EmptySet
  <2>4. clock + 0 <= MaxClock
    BY <2>1, UnstampedFinite, MaxClockAssumption
  <2> QED BY <1>1, <1>4, <1>5, <2>1, <2>2, <2>3, <2>4 DEF ClockOK
<1>7. PostgresTypes'
  BY <1>1, <1>2, <1>3, <1>4, <1>6 DEF PostgresTypes, TablesOK
<1>8. ASSUME OneCallPerActor PROVE PostgresOrder'
  <2>1. Returned /\ TimesOK
    BY <1>8 DEF PostgresInv, PostgresOrder
  <2>2. Returned'
    BY <1>1, <2>1 DEF Returned
  <2>3. TimesOK'
    BY <1>1, <1>4, <1>5, <2>1 DEF TimesOK
  <2> QED BY <1>1, <1>3, <1>4, <2>2, <2>3 DEF PostgresOrder
<1> QED BY <1>7, <1>8 DEF PostgresInv

LEMMA PostgresInit == Init => PostgresInv
<1> SUFFICES ASSUME Init PROVE PostgresInv
  OBVIOUS
<1>1. TablesOK /\ ClockOK
  BY InitEstablishes DEF BoardTxInv
<1>2. tx \in [Procs -> Txs] /\ \A p \in Procs : tx[p] = Idle
  BY IdleType DEF Init
<1>3. Typed(Idle, db)
  BY IdleTyped
<1>4. PostgresTypes
  BY <1>1, <1>2, <1>3 DEF PostgresTypes
<1>5. /\ \A q \in Pairs : db.lastRead[q] = NoRow
      /\ db.replies = {} /\ clock = 0 /\ told = {} /\ \A a \in Actors : got[a] = {}
  BY DEF Init, ZeroTime
<1>6. /\ \A q \in Pairs : Idle.w.lastRead[q] = Kept
      /\ Idle.w.replies = {} /\ Idle.pc = "idle" /\ Idle.req.op = "none"
  BY DEF Idle, NoWrites, NoCall
<1> HIDE DEF Idle
<1>7. Ahead(Idle, db) /\ Apart(Idle, Idle)
  BY <1>6 DEF Ahead, PendingCursors, Apart
<1>8. Returned /\ TimesOK
  BY <1>2, <1>5, <1>6 DEF Returned, TimesOK, NoRow, Kept
<1> QED BY <1>2, <1>4, <1>7, <1>8 DEF PostgresInv, PostgresOrder

LEMMA PostgresNext == Backend = "postgres" /\ PostgresInv /\ [Next]_vars => PostgresInv'
<1> SUFFICES ASSUME Backend = "postgres", PostgresInv, [Next]_vars PROVE PostgresInv'
  OBVIOUS
<1>1. CASE \E p \in Procs, r \in Calls : Start(p, r)
  BY <1>1, PostgresStart
<1>2. ASSUME NEW p \in Procs, Statement(p) PROVE PostgresInv'
  <2>1. CASE CreateThread(p)
    BY <2>1, PostgresCreateThread
  <2>2. CASE FirstThread(p)
    BY <2>2, PostgresFirstThread
  <2>3. CASE InsertReply(p)
    BY <2>3, PostgresInsertReply
  <2>4. CASE InsertWatcher(p)
    BY <2>4, PostgresInsertWatcher
  <2>5. CASE UpsertCursor(p)
    BY <2>5, PostgresUpsertCursor
  <2>6. CASE EnsureCursor(p)
    BY <2>6, PostgresEnsureCursor
  <2>7. CASE InsertMentions(p)
    BY <2>7, PostgresInsertMentions
  <2>8. CASE DeleteWatcher(p)
    BY <2>8, PostgresDeleteWatcher
  <2>9. CASE DeleteCursor(p)
    BY <2>9, PostgresDeleteCursor
  <2>10. CASE ReadWatches(p)
    BY <2>10, PostgresReadWatches
  <2>11. CASE ReadReplies(p)
    BY <2>11, PostgresReadReplies
  <2>12. CASE UpdateCursor(p)
    BY <2>12, PostgresUpdateCursor
  <2>13. CASE ReadMentions(p)
    BY <2>13, PostgresReadMentions
  <2>14. CASE MarkMentions(p)
    BY <2>14, PostgresMarkMentions
  <2>15. CASE Commit(p)
    BY <2>15, PostgresCommit
  <2>16. CASE Busy(p)
    BY <2>16, PostgresAbort DEF Busy
  <2>17. CASE DeadlockDetected(p)
    BY <2>17, PostgresAbort DEF DeadlockDetected
  <2> QED BY <1>2, <2>1, <2>2, <2>3, <2>4, <2>5, <2>6, <2>7, <2>8, <2>9, <2>10, <2>11,
             <2>12, <2>13, <2>14, <2>15, <2>16, <2>17 DEF Statement
<1>3. CASE Crash
  BY <1>3, PostgresCrash
<1>4. CASE UNCHANGED vars
  <2>1. UNCHANGED <<db, tx, clock, got, told>>
    BY <1>4 DEF vars
  <2>2. PostgresTypes'
    BY <2>1 DEF PostgresInv, PostgresTypes, TablesOK, ClockOK, Unstamped, Op
  <2>3. OneCallPerActor => PostgresOrder'
    BY <2>1 DEF PostgresInv, PostgresOrder, Returned, TimesOK
  <2> QED BY <2>2, <2>3 DEF PostgresInv
<1> QED BY <1>1, <1>2, <1>3, <1>4 DEF Next

LEMMA AlwaysPostgresInv == Backend = "postgres" => (Spec => []PostgresInv)
<1>1. ASSUME Backend = "postgres" PROVE Spec => []PostgresInv
  <2>1. PostgresInv /\ [Next]_vars => PostgresInv'
    BY <1>1, PostgresNext
  <2> QED BY <2>1, PostgresInit, PTL DEF Spec
<1> QED BY <1>1

LEMMA PostgresTypeOK == PostgresInv => TypeOK
<1> SUFFICES ASSUME PostgresInv PROVE TypeOK
  OBVIOUS
<1>1. Serial!TypeOK
  BY DEF PostgresInv, PostgresTypes, TablesOK, Tables, Serial!TypeOK, Cursors, Serial!Pairs, Pairs,
         Serial!NoRow, NoRow, Serial!ZeroTime, ZeroTime
<1>2. clock \in 0 .. MaxClock
  BY UnstampedFinite, MaxClockAssumption DEF PostgresInv, PostgresTypes, ClockOK
<1>3. ASSUME NEW p \in Procs
      PROVE  /\ ~ Active(p) => tx[p] = Idle
             /\ Active(p) => tx[p].req \in Calls
             /\ tx[p].pc \in Writing \cup {"idle", "read", "watches", "replies", "select", "commit"}
             /\ ~ tx[p].lock
  BY DEF PostgresInv, PostgresTypes, Typed, Active, Txs, Pcs
<1> QED BY <1>1, <1>2, <1>3 DEF TypeOK

\* What was returned is neither unread nor unseen.
LEMMA PostgresNeverTwice == PostgresInv /\ OneCallPerActor => NeverTwice
<1> SUFFICES ASSUME PostgresInv, OneCallPerActor PROVE NeverTwice
  OBVIOUS
<1>1. Returned /\ got \in [Actors -> SUBSET db.replies] /\ db \in Tables
  BY DEF PostgresInv, PostgresOrder, PostgresTypes, TablesOK
<1>2. ASSUME NEW a \in Actors, NEW r \in got[a], r \in Serial!AllUnread(a) PROVE FALSE
  <2>1. PICK s \in Threads : r \in Serial!Unread(<<a, s>>)
    BY <1>2 DEF Serial!AllUnread
  <2>2. r.thread = s /\ r.at > db.lastRead[<<a, s>>]
    BY <2>1 DEF Serial!Unread
  <2>3. r.at <= db.lastRead[<<a, s>>]
    BY <1>1, <1>2, <2>2 DEF Returned
  <2>4. r.at \in Int /\ db.lastRead[<<a, s>>] \in Int
    BY <1>1, <1>2 DEF Tables, Serial!Replies, Pairs, Cursors, Instants, ZeroTime, NoRow
  <2> QED BY <2>2, <2>3, <2>4
<1>3. ASSUME NEW a \in Actors PROVE told \cap Serial!UnseenMentions(a) = {}
  BY <1>1 DEF Returned, Serial!UnseenMentions
<1> QED BY <1>2, <1>3 DEF NeverTwice, Serial!NeverTwice

\* A commit moves no standing cursor back.
LEMMA PostgresForward ==
  ASSUME Backend = "postgres", PostgresInv, OneCallPerActor, [Next]_vars,
         NEW q \in Serial!Pairs, Serial!HasRow(q), Serial!HasRow(q)'
  PROVE  db.lastRead'[q] >= db.lastRead[q]
<1>1. q \in Pairs /\ db'.lastRead[q] # NoRow
  BY DEF Serial!Pairs, Pairs, Serial!HasRow, Serial!NoRow, NoRow
<1>2. CASE \A p \in Procs : ~ Commit(p)
  <2>1. db' = db
    BY <1>2, OnlyCommits
  <2>2. db.lastRead[q] \in Int
    BY <1>1 DEF PostgresInv, PostgresTypes, TablesOK, Tables, Cursors, Instants, ZeroTime, NoRow
  <2> QED BY <2>1, <2>2
<1>3. ASSUME NEW p \in Procs, Commit(p) PROVE db'.lastRead[q] >= db.lastRead[q]
  <2>1. db.lastRead[q] \in Int /\ db'.lastRead[q] \in Int
        /\ (db'.lastRead[q] = db.lastRead[q] \/ db'.lastRead[q] > db.lastRead[q])
    BY <1>1, <1>3, PostgresCursors
  <2> QED BY <2>1
<1> QED BY <1>2, <1>3

-----------------------------------------------------------------------------
(***************************************************************************)
(* What both backends promise, and what SQLite promises because Board      *)
(* does: Proved holds Board's theorems about the tables of BoardTx.        *)
(***************************************************************************)
Proved == INSTANCE BoardProofs WITH
    status <- db.status, replies <- db.replies, watcher <- db.watcher,
    lastRead <- db.lastRead, mentions <- db.mentions, seen <- db.seen,
    now <- db.latest

\* Board's assumption on its timestamps.
LEMMA Positive == Instants \subseteq Nat \ {0}
  BY DEF Instants

\* Serial and Proved name one and the same board.
LEMMA SameBoard == SerialSpec => Proved!Spec
<1>1. Serial!Init => Proved!Init
  BY DEF Serial!Init, Proved!Init, Serial!Pairs, Proved!Pairs, Serial!NoRow, Proved!NoRow,
         Serial!ZeroTime, Proved!ZeroTime
<1>2. Serial!vars = Proved!vars
  BY DEF Serial!vars, Proved!vars
<1>3. Serial!Next => Proved!Next
  BY DEF Serial!Next, Proved!Next, Serial!CreateThread, Proved!CreateThread,
         Serial!AddReply, Proved!AddReply, Serial!WatchThread, Proved!WatchThread,
         Serial!UnwatchThread, Proved!UnwatchThread, Serial!CatchUp, Proved!CatchUp,
         Serial!ResolveThread, Proved!ResolveThread, Serial!ReopenThread, Proved!ReopenThread,
         Serial!SetThreadStatus, Proved!SetThreadStatus,
         Serial!CursorsAfterReply, Proved!CursorsAfterReply,
         Serial!CursorsAfterCatchUp, Proved!CursorsAfterCatchUp,
         Serial!Unread, Proved!Unread, Serial!AllUnread, Proved!AllUnread,
         Serial!Latest, Proved!Latest, Serial!Max, Proved!Max,
         Serial!MarkedSeen, Proved!MarkedSeen, Serial!UnseenMentions, Proved!UnseenMentions,
         Serial!MentionRows, Proved!MentionRows, Serial!Exists, Proved!Exists,
         Serial!HasRow, Proved!HasRow, Serial!Pairs, Proved!Pairs,
         Serial!NoRow, Proved!NoRow, Serial!ZeroTime, Proved!ZeroTime
<1>4. [Serial!Next]_(Serial!vars) => [Proved!Next]_(Proved!vars)
  BY <1>2, <1>3 DEF Serial!vars, Proved!vars
<1> QED BY <1>1, <1>4, PTL DEF SerialSpec, Serial!Spec, Proved!Spec

LEMMA BoardOnSqlite == Backend = "sqlite" => (Spec => Proved!Spec)
<1>1. ASSUME Backend = "sqlite" PROVE Spec => Proved!Spec
  <2>1. Spec => SerialSpec
    BY <1>1, SerialOnSqlite
  <2> QED BY <2>1, SameBoard
<1> QED BY <1>1

\* thread_watch.go on SQLite: whatever requests run at once, fail or crash, an
\* actor has a Watcher row for a thread exactly when it has a cursor.
THEOREM WatchTablesAgreeOnSqlite == Backend = "sqlite" => (Spec => []WatchPairing)
<1>1. ASSUME Backend = "sqlite" PROVE Spec => []WatchPairing
  <2>1. Proved!Spec => []Proved!WatchPairing
    BY Positive, Proved!WatchTablesAgree
  <2>2. Proved!WatchPairing => WatchPairing
    BY DEF WatchPairing, Serial!WatchPairing, Proved!WatchPairing, Serial!Pairs, Proved!Pairs,
           Serial!HasRow, Proved!HasRow, Serial!NoRow, Proved!NoRow
  <2>3. Spec => Proved!Spec
    BY <1>1, BoardOnSqlite
  <2> QED BY <2>1, <2>2, <2>3, PTL
<1> QED BY <1>1

\* catchup.go on SQLite: a cursor passes a reply only by returning it or by
\* the actor's own later reply, though the cursor is set two statements after
\* the replies were read.
THEOREM RepliesAreNotLostOnSqlite == Backend = "sqlite" => (Spec => []NothingLost)
<1>1. ASSUME Backend = "sqlite" PROVE Spec => []NothingLost
  <2>1. Proved!Spec => []Proved!NothingLost
    BY Positive, Proved!RepliesAreNotLost
  <2>2. Proved!NothingLost => NothingLost
    BY DEF NothingLost, Serial!NothingLost, Proved!NothingLost
  <2>3. Spec => Proved!Spec
    BY <1>1, BoardOnSqlite
  <2> QED BY <2>1, <2>2, <2>3, PTL
<1> QED BY <1>1

\* catchup.go on SQLite: the update that marks mentions seen, a statement
\* after the select, marks none that the answer leaves out.
THEOREM SeenMentionsWereReturnedOnSqlite == Backend = "sqlite" => (Spec => []SeenWasReturned)
<1>1. ASSUME Backend = "sqlite" PROVE Spec => []SeenWasReturned
  <2>1. Proved!Spec => []Proved!SeenWasReturned
    BY Positive, Proved!SeenMentionsWereReturned
  <2>2. Proved!SeenWasReturned => SeenWasReturned
    BY DEF SeenWasReturned, Serial!SeenWasReturned, Proved!SeenWasReturned
  <2>3. Spec => Proved!Spec
    BY <1>1, BoardOnSqlite
  <2> QED BY <2>1, <2>2, <2>3, PTL
<1> QED BY <1>1

LEMMA NothingTwiceOnSqlite == Backend = "sqlite" => (Spec => []NeverTwice)
<1>1. ASSUME Backend = "sqlite" PROVE Spec => []NeverTwice
  <2>1. Proved!Spec => []Proved!NeverTwice
    BY Positive, Proved!NothingComesTwice
  <2>2. Proved!NeverTwice => NeverTwice
    BY DEF NeverTwice, Serial!NeverTwice, Proved!NeverTwice, Serial!AllUnread, Proved!AllUnread,
           Serial!Unread, Proved!Unread, Serial!UnseenMentions, Proved!UnseenMentions,
           Serial!HasRow, Proved!HasRow, Serial!NoRow, Proved!NoRow
  <2>3. Spec => Proved!Spec
    BY <1>1, BoardOnSqlite
  <2> QED BY <2>1, <2>2, <2>3, PTL
<1> QED BY <1>1

LEMMA CursorsForwardOnSqlite == Backend = "sqlite" => (Spec => CursorNeverMovesBack)
<1>1. ASSUME Backend = "sqlite" PROVE Spec => CursorNeverMovesBack
  <2>1. Proved!Spec => Proved!CursorNeverMovesBack
    BY Positive, Proved!CursorsMoveForward
  <2>2. Proved!CursorNeverMovesBack => CursorNeverMovesBack
    <3> DEFINE Here  == [\A p \in Serial!Pairs : Serial!HasRow(p) /\ Serial!HasRow(p)' =>
                           db.lastRead'[p] >= db.lastRead[p]]_(Serial!vars)
               There == [\A p \in Proved!Pairs : Proved!HasRow(p) /\ Proved!HasRow(p)' =>
                           db.lastRead'[p] >= db.lastRead[p]]_(Proved!vars)
    <3>1. There => Here
      BY DEF Serial!Pairs, Proved!Pairs, Serial!HasRow, Proved!HasRow,
             Serial!vars, Proved!vars, Serial!NoRow, Proved!NoRow
    <3> QED BY <3>1, PTL DEF CursorNeverMovesBack, Serial!CursorNeverMovesBack,
                             Proved!CursorNeverMovesBack
  <2>3. Spec => Proved!Spec
    BY <1>1, BoardOnSqlite
  <2> QED BY <2>1, <2>2, <2>3
<1> QED BY <1>1

\* catch_up on SQLite: with requests that run at once, fail or crash, every
\* reply still waits for whoever watches its thread, once, until a catch_up
\* that commits returns it.
THEOREM InboxOnSqlite == Backend = "sqlite" => (Spec => Proved!InboxSpec)
<1>1. ASSUME Backend = "sqlite" PROVE Spec => Proved!InboxSpec
  <2>1. Proved!Spec => Proved!InboxSpec
    BY Positive, Proved!BoardImplementsInbox
  <2>2. Spec => Proved!Spec
    BY <1>1, BoardOnSqlite
  <2> QED BY <2>1, <2>2
<1> QED BY <1>1

-----------------------------------------------------------------------------
\* The types of the tables and of what the transactions keep, on either
\* backend; between requests a transaction has nothing pending, and at most
\* one holds SQLite's write lock.
THEOREM TransactionsTypeCorrect == Spec => []TypeOK
<1>1. CASE Backend = "sqlite"
  <2>1. Spec => []BoardTxInv
    BY <1>1, AlwaysBoardTxInv
  <2>2. BoardTxInv => TypeOK
    BY <1>1, InvTypes
  <2> QED BY <2>1, <2>2, PTL
<1>2. CASE Backend = "postgres"
  <2>1. Spec => []PostgresInv
    BY <1>2, AlwaysPostgresInv
  <2> QED BY <2>1, PostgresTypeOK, PTL
<1> QED BY <1>1, <1>2, BackendAssumption

\* catchup.go: what a catch_up returned does not come back while the actor
\* keeps watching: on SQLite always; at READ COMMITTED, where other requests
\* commit between the statements of a catch_up, when the actor has one call
\* at a time.
THEOREM NothingComesTwiceInTx ==
  Backend = "sqlite" \/ OneCallPerActor => (Spec => []NeverTwice)
<1>1. CASE Backend = "sqlite"
  BY <1>1, NothingTwiceOnSqlite
<1>2. ASSUME Backend = "postgres", OneCallPerActor PROVE Spec => []NeverTwice
  <2>1. Spec => []PostgresInv
    BY <1>2, AlwaysPostgresInv
  <2>2. PostgresInv => NeverTwice
    BY <1>2, PostgresNeverTwice
  <2> QED BY <2>1, <2>2, PTL
<1> QED BY <1>1, <1>2, BackendAssumption

\* upsertThreadWatch, ensureThreadWatch and CatchUp's update, which sets a
\* cursor without a look at the row: no committed transaction moves the cursor
\* of a standing watch back, on SQLite always, at READ COMMITTED when an actor
\* has one call at a time.
THEOREM CursorsMoveForwardInTx ==
  Backend = "sqlite" \/ OneCallPerActor => (Spec => CursorNeverMovesBack)
<1>1. CASE Backend = "sqlite"
  BY <1>1, CursorsForwardOnSqlite
<1>2. ASSUME Backend = "postgres", OneCallPerActor PROVE Spec => CursorNeverMovesBack
  <2>1. Spec => []PostgresInv
    BY <1>2, AlwaysPostgresInv
  <2> DEFINE Forward == [\A p \in Serial!Pairs : Serial!HasRow(p) /\ Serial!HasRow(p)' =>
                           db.lastRead'[p] >= db.lastRead[p]]_(Serial!vars)
  <2>2. PostgresInv /\ [Next]_vars => Forward
    BY <1>2, PostgresForward
  <2> QED BY <2>1, <2>2, PTL DEF Spec, CursorNeverMovesBack, Serial!CursorNeverMovesBack
<1> QED BY <1>1, <1>2, BackendAssumption
=============================================================================
