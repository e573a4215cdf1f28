-------------------------------- MODULE Board --------------------------------
(***************************************************************************)
(* The message board of internal/storage, one transaction per step: posts, *)
(* watches, read cursors, mentions and catch_up.  It is what the package   *)
(* promises when its transactions take effect one at a time; BoardTx       *)
(* splits the same transactions into their SQL statements.                 *)
(*                                                                         *)
(* An actor id, a thread id and a set of mentioned actors (what            *)
(* createMentions resolved the body to) are values; titles, bodies and     *)
(* tags are left out.                                                      *)
(***************************************************************************)
EXTENDS Integers, FiniteSets, FiniteSetsExt

CONSTANTS
    Actors,    \* actor ids
    Threads,   \* thread ids (UUIDs drawn by CreateThread)
    Instants   \* the timestamps posts may carry

\* Zero time.Time lies before every timestamp the server's clock gives.
ASSUME InstantsAssumption == Instants \subseteq Nat \ {0}

ZeroTime == 0    \* ensureThreadWatch's LastReadAt
NoRow    == -1   \* no ThreadWatch row

VARIABLES
    status,    \* threads table: "absent" before CreateThread
    replies,   \* replies table
    watcher,   \* watchers table: the pairs <<actor, thread>> present
    lastRead,  \* thread_watches table: last_read_at, or NoRow
    mentions,  \* mentions table: who is mentioned by the post stamped `at`
    seen,      \* the mentions whose seen_at is set
    now,       \* the latest timestamp given to a post
    got,       \* history: replies catch_up returned to an actor in its present watches
    told       \* history: mentions catch_up returned

vars == <<status, replies, watcher, lastRead, mentions, seen, now, got, told>>

Pairs    == Actors \X Threads
Replies  == [thread : Threads, author : Actors, at : Instants]
Mentions == [actor : Actors, at : Instants]

TypeOK ==
    /\ status \in [Threads -> {"absent", "open", "resolved"}]
    /\ replies \subseteq Replies
    /\ watcher \subseteq Pairs
    /\ lastRead \in [Pairs -> Instants \cup {ZeroTime, NoRow}]
    /\ mentions \subseteq Mentions
    /\ seen \subseteq mentions
    /\ now \in Instants \cup {ZeroTime}
    /\ got \in [Actors -> SUBSET replies]
    /\ told \subseteq mentions

Init ==
    /\ status = [t \in Threads |-> "absent"]
    /\ replies = {}
    /\ watcher = {}
    /\ lastRead = [p \in Pairs |-> NoRow]
    /\ mentions = {}
    /\ seen = {}
    /\ now = ZeroTime
    /\ got = [a \in Actors |-> {}]
    /\ told = {}

-----------------------------------------------------------------------------
Exists(t)  == status[t] # "absent"
HasRow(p)  == lastRead[p] # NoRow

\* Mutant: catch_up passes over the actor's own replies.
UnreadOfOthers(p) == IF HasRow(p)
                     THEN {r \in replies : r.thread = p[2] /\ r.author # p[1] /\ r.at > lastRead[p]}
                     ELSE {}

\* The replies catch_up finds unread for a watch: those after its cursor.
Unread(p) == IF HasRow(p)
             THEN {r \in replies : r.thread = p[2] /\ r.at > lastRead[p]}
             ELSE {}

AllUnread(a) == UNION {Unread(<<a, t>>) : t \in Threads}

\* Mutant: the cursor is set one past the newest reply.
LatestPlusOne(rs) == Max({r.at : r \in rs}) + 1

\* The last element of replies ordered by created_at.
Latest(rs) == Max({r.at : r \in rs})

\* Mutant: the update that marks mentions lost its actor condition.
MarkedSeenOfAll(a) == {m \in mentions : m \notin seen}

\* What catch_up reads, and, in a statement of its own, what it marks.
UnseenMentions(a) == {m \in mentions : m.actor = a /\ m \notin seen}
MarkedSeen(a)     == {m \in mentions : m.actor = a /\ m \notin seen}

\* createMentions: one row per actor the post mentions, none for its author.
MentionRows(author, mentioned, at) ==
    {[actor |-> a, at |-> at] : a \in mentioned \ {author}}

-----------------------------------------------------------------------------
\* The author watches a new thread and has read all of it.
CreateThread(a, t, mentioned, at) ==
    /\ ~ Exists(t)
    /\ at > now
    /\ status' = [status EXCEPT ![t] = "open"]
    /\ watcher' = watcher \cup {<<a, t>>}
    /\ lastRead' = [lastRead EXCEPT ![<<a, t>>] = at]
    /\ mentions' = mentions \cup MentionRows(a, mentioned, at)
    /\ now' = at
    /\ UNCHANGED <<replies, seen, got, told>>

\* Mutant: naming an extra watcher resets the cursor it already has.
CursorsResetByReply(a, t, extras, at) ==
    [p \in Pairs |->
        IF p = <<a, t>> THEN at
        ELSE IF p[2] = t /\ p[1] \in extras THEN ZeroTime
        ELSE lastRead[p]]

\* Mutant: naming an extra watcher moves its cursor to the reply.
CursorsSkippedByReply(a, t, extras, at) ==
    [p \in Pairs |-> IF p[2] = t /\ p[1] \in extras \cup {a} THEN at ELSE lastRead[p]]

\* The cursors after a reply: the author's own is upserted to the reply's
\* timestamp, an extra watcher's is created at the zero time if it is missing.
CursorsAfterReply(a, t, extras, at) ==
    [p \in Pairs |->
        IF p = <<a, t>> THEN at
        ELSE IF p[2] = t /\ p[1] \in extras /\ ~ HasRow(p) THEN ZeroTime
        ELSE lastRead[p]]

AddReply(a, t, extras, mentioned, at) ==
    /\ Exists(t)
    /\ at > now
    /\ replies' = replies \cup {[thread |-> t, author |-> a, at |-> at]}
    /\ watcher' = watcher \cup ((extras \cup {a}) \X {t})
    /\ lastRead' = CursorsAfterReply(a, t, extras, at)
    /\ mentions' = mentions \cup MentionRows(a, mentioned, at)
    /\ now' = at
    /\ UNCHANGED <<status, seen, got, told>>

\* Mutant: a new watch starts at the current time, as if all were read.
WatchThreadFromNow(a, t) ==
    /\ Exists(t)
    /\ watcher' = watcher \cup {<<a, t>>}
    /\ lastRead' = IF HasRow(<<a, t>>) THEN lastRead
                   ELSE [lastRead EXCEPT ![<<a, t>>] = now]
    /\ UNCHANGED <<status, replies, mentions, seen, now, got, told>>

\* Mutant: watching again upserts the cursor instead of keeping it.
WatchThreadUpserting(a, t) ==
    /\ Exists(t)
    /\ watcher' = watcher \cup {<<a, t>>}
    /\ lastRead' = [lastRead EXCEPT ![<<a, t>>] = ZeroTime]
    /\ UNCHANGED <<status, replies, mentions, seen, now, got, told>>

WatchThread(a, t) ==
    /\ Exists(t)
    /\ watcher' = watcher \cup {<<a, t>>}
    /\ lastRead' = IF HasRow(<<a, t>>) THEN lastRead
                   ELSE [lastRead EXCEPT ![<<a, t>>] = ZeroTime]
    /\ UNCHANGED <<status, replies, mentions, seen, now, got, told>>

\* Mutant: only the Watcher row is deleted.
UnwatchThreadKeepingCursor(a, t) ==
    /\ watcher' = watcher \ {<<a, t>>}
    /\ got' = [got EXCEPT ![a] = {r \in got[a] : r.thread # t}]
    /\ UNCHANGED <<status, replies, lastRead, mentions, seen, now, told>>

\* Deletes both rows; a later watch starts over with the whole history unread.
UnwatchThread(a, t) ==
    /\ watcher' = watcher \ {<<a, t>>}
    /\ lastRead' = [lastRead EXCEPT ![<<a, t>>] = NoRow]
    /\ got' = [got EXCEPT ![a] = {r \in got[a] : r.thread # t}]
    /\ UNCHANGED <<status, replies, mentions, seen, now, told>>

\* The cursors catch_up leaves: only a watch with something unread moves.
CursorsAfterCatchUp(a) ==
    [p \in Pairs |-> IF p[1] = a /\ Unread(p) # {} THEN Latest(Unread(p))
                     ELSE lastRead[p]]

CatchUp(a) ==
    /\ lastRead' = CursorsAfterCatchUp(a)
    /\ got' = [got EXCEPT ![a] = @ \cup AllUnread(a)]
    /\ seen' = seen \cup MarkedSeen(a)
    /\ told' = told \cup UnseenMentions(a)
    /\ UNCHANGED <<status, replies, watcher, mentions, now>>

SetThreadStatus(t, s) ==
    /\ Exists(t)
    /\ status' = [status EXCEPT ![t] = s]
    /\ UNCHANGED <<replies, watcher, lastRead, mentions, seen, now, got, told>>

ResolveThread(t) == SetThreadStatus(t, "resolved")
ReopenThread(t)  == SetThreadStatus(t, "open")

Next ==
    \/ \E a \in Actors, t \in Threads, ms \in SUBSET Actors, at \in Instants :
          CreateThread(a, t, ms, at)
    \/ \E a \in Actors, t \in Threads, es \in SUBSET Actors,
          ms \in SUBSET Actors, at \in Instants : AddReply(a, t, es, ms, at)
    \/ \E a \in Actors, t \in Threads : WatchThread(a, t) \/ UnwatchThread(a, t)
    \/ \E a \in Actors : CatchUp(a)
    \/ \E t \in Threads : ResolveThread(t) \/ ReopenThread(t)

Spec == Init /\ [][Next]_vars

-----------------------------------------------------------------------------
\* UnwatchThread's comment: an actor with a Watcher row and no cursor would
\* miss every reply, one with a cursor and no Watcher row would be sent
\* replies of a thread it left.  The two tables name the same pairs.
WatchPairing == \A p \in Pairs : p \in watcher <=> HasRow(p)

\* A reply below the cursor of a watch was returned by that actor's catch_up
\* or is covered by a later reply the actor itself posted in the thread;
\* nothing else may move a cursor past a reply.
NothingLost ==
    \A a \in Actors, r \in replies :
        r.at <= lastRead[<<a, r.thread>>] =>
            \/ r \in got[a]
            \/ \E q \in replies : q.author = a /\ q.thread = r.thread /\ q.at >= r.at

\* "a second call with no new activity returns an empty result": what
\* catch_up returned to an actor is not unread again while it keeps watching.
NeverTwice ==
    /\ \A a \in Actors : got[a] \cap AllUnread(a) = {}
    /\ \A a \in Actors : told \cap UnseenMentions(a) = {}

\* A mention is marked seen only by a catch_up that returned it.
SeenWasReturned == seen \subseteq told

\* The cursor of a standing watch never moves back, whoever posts or reads.
CursorNeverMovesBack ==
    [][\A p \in Pairs : HasRow(p) /\ HasRow(p)' => lastRead'[p] >= lastRead[p]]_vars

\* catch_up "returns everything new ... since their last call", and a missed
\* push costs nothing: while an actor watches a thread, a reply unread for it
\* stays unread until catch_up returns it or the actor itself replies there;
\* nothing anybody else does makes it read.
UnreadUntilReturned ==
    [][\A p \in Pairs : HasRow(p) /\ HasRow(p)' =>
          \A r \in Unread(p) :
             \/ r \in Unread(p)' \/ r \in got'[p[1]]
             \/ \E q \in replies' \ replies : q.author = p[1] /\ q.thread = p[2]]_vars

\* CatchUp "returns everything new ... since their last call": one timestamp
\* per watch serves for the set of what waits for the actor.  Every operation
\* does to what Unread and UnseenMentions find as Inbox does to its sets.
Box == INSTANCE Inbox WITH
    Stamps <- Instants, opened <- {t \in Threads : Exists(t)}, watching <- watcher,
    posted <- replies, unread <- [a \in Actors |-> AllUnread(a)],
    mail <- [a \in Actors |-> UnseenMentions(a)]

InboxSpec == Box!Spec
=============================================================================
