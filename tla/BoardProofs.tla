----------------------------- MODULE BoardProofs -----------------------------
(***************************************************************************)
(* The properties of Board proved for all actors, threads and timestamps.  *)
(* The argument is one inductive invariant, BoardInv: TypeOK, the pairing  *)
(* of the two watch tables, and what relates cursors to what catch_up      *)
(* returned.                                                               *)
(***************************************************************************)
EXTENDS Board, WellFoundedInduction, TLAPS

\* No post and no cursor is ahead of the latest timestamp given out.
NothingAhead ==
    /\ \A r \in replies : r.at <= now
    /\ \A p \in Pairs : lastRead[p] <= now

MentionsNotAhead == \A m \in mentions : m.at <= now

\* What catch_up returned in a present watch lies below that watch's cursor.
GotIsRead ==
    \A a \in Actors : \A r \in got[a] : r.at <= lastRead[<<a, r.thread>>]

\* Replies are posted to threads that exist.
RepliesHaveThreads == \A r \in replies : Exists(r.thread)

BoardInv ==
    /\ TypeOK
    /\ NothingAhead
    /\ MentionsNotAhead
    /\ RepliesHaveThreads
    /\ WatchPairing
    /\ GotIsRead
    /\ NothingLost
    /\ seen = told

-----------------------------------------------------------------------------
Less == {ss \in Nat \X Nat : ss[1] < ss[2]}

\* The order of timestamps is well-founded, so a non-empty set of bounds has a least.
LEMMA LessIsWellFounded == IsWellFoundedOn(Less, Nat)
  BY NatLessThanWellFounded DEF OpToRel, Less

\* Max is the largest element of every bounded set of timestamps that has one.
LEMMA MaxIsLargest ==
  ASSUME NEW S \in SUBSET Nat, S # {}, NEW b \in Nat, \A x \in S : x <= b
  PROVE  Max(S) \in S /\ \A y \in S : y <= Max(S)
<1> DEFINE U == {u \in Nat : \A x \in S : x <= u}
<1>1. U # {} /\ U \subseteq Nat
  OBVIOUS
<1>2. PICK u \in U : \A v \in U : ~ (<<v, u>> \in Less)
  <2> HIDE DEF U
  <2> QED BY <1>1, LessIsWellFounded, WFMin
<1>3. u \in Nat /\ \A v \in Nat : v < u => v \notin U
  BY <1>2 DEF Less
<1>4. u \in S
  <2>1. CASE u = 0
    <3>1. PICK x \in S : TRUE
      OBVIOUS
    <3> QED BY <2>1, <1>2, <3>1
  <2>2. CASE u # 0
    <3>1. u - 1 \in Nat /\ u - 1 < u
      BY <2>2, <1>3
    <3>2. PICK x \in S : ~ (x <= u - 1)
      BY <3>1, <1>3
    <3> QED BY <3>2, <1>2, <1>3
  <2> QED BY <2>1, <2>2
<1> QED BY <1>2, <1>4 DEF Max

\* The cursor catch_up writes is the timestamp of an unread reply, and no
\* unread reply of that watch is later.
LEMMA LatestOfUnread ==
  ASSUME TypeOK, NothingAhead, NEW p \in Pairs, Unread(p) # {}
  PROVE  /\ \E r \in Unread(p) : Latest(Unread(p)) = r.at
         /\ \A r \in Unread(p) : r.at <= Latest(Unread(p))
<1> DEFINE S == {r.at : r \in Unread(p)}
<1>1. Unread(p) \subseteq replies
  BY DEF Unread
<1>2. S \subseteq Instants /\ S # {} /\ \A x \in S : x <= now
  BY <1>1 DEF TypeOK, Replies, NothingAhead
<1>3. now \in Nat
  BY InstantsAssumption DEF TypeOK, ZeroTime
<1>4. Max(S) \in S /\ \A y \in S : y <= Max(S)
  <2>1. S \in SUBSET Nat
    BY <1>2, InstantsAssumption
  <2> HIDE DEF S
  <2> QED BY <1>2, <1>3, <2>1, MaxIsLargest
<1> QED BY <1>4 DEF Latest

-----------------------------------------------------------------------------
\* What TypeOK gives of single rows, in the form the steps below use.
LEMMA RowTypes ==
  ASSUME TypeOK
  PROVE  /\ now \in Nat
         /\ \A p \in Pairs : lastRead[p] \in Int
         /\ \A r \in replies : /\ r.thread \in Threads
                               /\ r.author \in Actors
                               /\ r.at \in Nat
         /\ \A a \in Actors : got[a] \subseteq replies
         /\ \A a \in Actors, t \in Threads : <<a, t>> \in Pairs
<1>1. now \in Nat
  BY InstantsAssumption DEF TypeOK, ZeroTime
<1>2. ASSUME NEW p \in Pairs PROVE lastRead[p] \in Int
  <2>1. lastRead[p] \in Instants \cup {ZeroTime, NoRow}
    BY DEF TypeOK
  <2>2. Instants \subseteq Int /\ ZeroTime \in Int /\ NoRow \in Int
    BY InstantsAssumption DEF ZeroTime, NoRow
  <2> QED BY <2>1, <2>2
<1>3. ASSUME NEW r \in replies
      PROVE  r.thread \in Threads /\ r.author \in Actors /\ r.at \in Nat
  BY InstantsAssumption DEF TypeOK, Replies
<1>4. ASSUME NEW a \in Actors PROVE got[a] \subseteq replies
  BY DEF TypeOK
<1>5. \A a \in Actors, t \in Threads : <<a, t>> \in Pairs
  BY DEF Pairs
<1> QED BY <1>1, <1>2, <1>3, <1>4, <1>5

\* A freshly migrated database satisfies the invariant.
LEMMA InitEstablishes == Init => BoardInv
  BY DEF Init, BoardInv, TypeOK, NothingAhead, MentionsNotAhead, WatchPairing, GotIsRead,
         NothingLost, RepliesHaveThreads, Pairs, HasRow, ZeroTime, NoRow

\* thread_repo.go CreateThread: its author's two watch rows come together, and its
\* timestamp, later than all others, becomes the author's cursor.
LEMMA CreateThreadStep ==
  ASSUME BoardInv, NEW a \in Actors, NEW t \in Threads,
         NEW ms \in SUBSET Actors, NEW at \in Instants,
         CreateThread(a, t, ms, at)
  PROVE  BoardInv'
<1> DEFINE q == <<a, t>>
<1>1. TypeOK /\ q \in Pairs /\ at \in Nat /\ at > now /\ now \in Nat
  BY RowTypes, InstantsAssumption DEF BoardInv, CreateThread
<1>2. /\ lastRead'[q] = at
      /\ \A p \in Pairs : p # q => lastRead'[p] = lastRead[p]
  BY <1>1 DEF CreateThread, TypeOK
<1>3. TypeOK'
  <2>1. MentionRows(a, ms, at) \subseteq Mentions
    BY DEF MentionRows, Mentions
  <2>2. lastRead' \in [Pairs -> Instants \cup {ZeroTime, NoRow}]
    BY <1>1 DEF CreateThread, TypeOK
  <2>3. status' \in [Threads -> {"absent", "open", "resolved"}]
    BY <1>1 DEF CreateThread, TypeOK
  <2> QED BY <1>1, <2>1, <2>2, <2>3 DEF CreateThread, TypeOK
<1>4. NothingAhead'
  <2>1. ASSUME NEW r \in replies' PROVE r.at <= now'
    BY <1>1, RowTypes DEF CreateThread, BoardInv, NothingAhead
  <2>2. ASSUME NEW p \in Pairs PROVE lastRead'[p] <= now'
    <3>1. lastRead[p] \in Int /\ lastRead[p] <= now
      BY <1>1, RowTypes DEF BoardInv, NothingAhead
    <3> QED BY <3>1, <1>1, <1>2 DEF CreateThread
  <2> QED BY <2>1, <2>2 DEF NothingAhead
<1>5. RepliesHaveThreads'
  BY <1>1, RowTypes DEF CreateThread, BoardInv, RepliesHaveThreads, Exists, TypeOK
<1>6. WatchPairing'
  BY <1>1, <1>2 DEF CreateThread, BoardInv, WatchPairing, HasRow, NoRow
<1>7. GotIsRead'
  <2> SUFFICES ASSUME NEW b \in Actors, NEW r \in got[b]
               PROVE  r.at <= lastRead'[<<b, r.thread>>]
    BY DEF GotIsRead, CreateThread
  <2>1. /\ r.at <= lastRead[<<b, r.thread>>] /\ r.at <= now
        /\ r.at \in Nat /\ <<b, r.thread>> \in Pairs
    BY <1>1, RowTypes DEF BoardInv, GotIsRead, NothingAhead
  <2> QED BY <2>1, <1>1, <1>2
<1>8. NothingLost'
  <2>1. \A r \in replies : r.thread # t
    BY DEF CreateThread, BoardInv, RepliesHaveThreads, Exists
  <2> QED BY <1>1, <1>2, <2>1, RowTypes DEF CreateThread, BoardInv, NothingLost
<1>9. MentionsNotAhead'
  <2>1. \A m \in mentions : m.at \in Nat /\ m.at <= now
    BY InstantsAssumption DEF BoardInv, TypeOK, Mentions, MentionsNotAhead
  <2>2. \A m \in mentions' \ mentions : m.at = at
    BY DEF CreateThread, MentionRows
  <2> QED BY <2>1, <2>2, <1>1 DEF CreateThread, MentionsNotAhead
<1> QED BY <1>3, <1>4, <1>5, <1>6, <1>7, <1>8, <1>9 DEF BoardInv, CreateThread

\* thread_repo.go AddReply: the author's cursor passes others' replies only together
\* with its own, and the watchers it names get both rows.
LEMMA AddReplyStep ==
  ASSUME BoardInv, NEW a \in Actors, NEW t \in Threads,
         NEW es \in SUBSET Actors, NEW ms \in SUBSET Actors,
         NEW at \in Instants, AddReply(a, t, es, ms, at)
  PROVE  BoardInv'
<1> DEFINE q   == <<a, t>>
           new == [thread |-> t, author |-> a, at |-> at]
<1>1. TypeOK /\ q \in Pairs /\ at \in Nat /\ at > now /\ now \in Nat
  BY RowTypes, InstantsAssumption DEF BoardInv, AddReply
<1>2. /\ lastRead'[q] = at
      /\ \A p \in Pairs \ {q} :
            \/ lastRead'[p] = lastRead[p]
            \/ lastRead[p] = NoRow /\ lastRead'[p] = ZeroTime
      /\ \A p \in Pairs \ {q} : lastRead'[p] = ZeroTime /\ lastRead[p] = NoRow
                                => p[2] = t /\ p[1] \in es
      /\ \A x \in es : <<x, t>> \in Pairs /\ lastRead'[<<x, t>>] # NoRow
  BY <1>1 DEF AddReply, CursorsAfterReply, HasRow, ZeroTime, NoRow, Pairs
<1>3. TypeOK'
  <2>1. MentionRows(a, ms, at) \subseteq Mentions
    BY DEF MentionRows, Mentions
  <2>2. lastRead' \in [Pairs -> Instants \cup {ZeroTime, NoRow}]
    BY <1>1 DEF AddReply, TypeOK, CursorsAfterReply
  <2>3. replies' \subseteq Replies /\ watcher' \subseteq Pairs
    BY <1>1 DEF AddReply, TypeOK, Replies, Pairs
  <2> QED BY <1>1, <2>1, <2>2, <2>3 DEF AddReply, TypeOK
<1>4. NothingAhead'
  <2>1. ASSUME NEW r \in replies' PROVE r.at <= now'
    BY <1>1, RowTypes DEF AddReply, BoardInv, NothingAhead
  <2>2. ASSUME NEW p \in Pairs PROVE lastRead'[p] <= now'
    <3>1. lastRead[p] \in Int /\ lastRead[p] <= now
      BY <1>1, RowTypes DEF BoardInv, NothingAhead
    <3> QED BY <3>1, <1>1, <1>2 DEF AddReply, ZeroTime
  <2> QED BY <2>1, <2>2 DEF NothingAhead
<1>5. RepliesHaveThreads'
  BY <1>1 DEF AddReply, BoardInv, RepliesHaveThreads, Exists
<1>6. WatchPairing'
  <2> SUFFICES ASSUME NEW p \in Pairs
               PROVE  p \in watcher' <=> lastRead'[p] # NoRow
    BY DEF WatchPairing, HasRow
  <2>1. CASE p = q
    BY <2>1, <1>1, <1>2 DEF AddReply, NoRow
  <2>2. CASE p # q /\ p[2] = t /\ p[1] \in es
    BY <2>2, <1>2 DEF AddReply, Pairs
  <2>3. CASE p # q /\ ~ (p[2] = t /\ p[1] \in es)
    <3>1. p \in watcher' <=> p \in watcher
      BY <2>3 DEF AddReply, Pairs
    <3>2. lastRead'[p] = lastRead[p]
      BY <2>3, <1>2
    <3> QED BY <3>1, <3>2 DEF BoardInv, WatchPairing, HasRow
  <2> QED BY <2>1, <2>2, <2>3
<1>7. GotIsRead'
  <2> SUFFICES ASSUME NEW b \in Actors, NEW r \in got[b]
               PROVE  r.at <= lastRead'[<<b, r.thread>>]
    BY DEF GotIsRead, AddReply
  <2>1. /\ r.at <= lastRead[<<b, r.thread>>] /\ r.at <= now
        /\ r.at \in Nat /\ <<b, r.thread>> \in Pairs
    BY <1>1, RowTypes DEF BoardInv, GotIsRead, NothingAhead
  <2> QED BY <2>1, <1>1, <1>2 DEF NoRow
<1>8. NothingLost'
  <2> SUFFICES ASSUME NEW b \in Actors, NEW r \in replies',
                      r.at <= lastRead'[<<b, r.thread>>]
               PROVE  \/ r \in got[b]
                      \/ \E o \in replies' : /\ o.author = b
                                             /\ o.thread = r.thread
                                             /\ o.at >= r.at
    BY DEF NothingLost, AddReply
  <2>1. r.at \in Nat /\ r.at <= at /\ <<b, r.thread>> \in Pairs
    BY <1>1, RowTypes DEF AddReply, BoardInv, NothingAhead
  <2>2. CASE <<b, r.thread>> = q
    <3>1. b = a /\ r.thread = t
      BY <2>2
    <3>2. new \in replies' /\ new.author = a /\ new.thread = t /\ new.at = at
      BY DEF AddReply
    <3> QED BY <3>1, <3>2, <2>1
  <2>3. CASE <<b, r.thread>> # q
    <3>1. r.at > 0 /\ lastRead'[<<b, r.thread>>] = lastRead[<<b, r.thread>>]
      <4>1. r.at \in Instants
        BY <1>3 DEF TypeOK, Replies
      <4>2. r.at \in Nat \ {0}
        BY <4>1, InstantsAssumption
      <4> QED BY <4>2, <2>1, <2>3, <1>2 DEF ZeroTime
    <3>2. r \in replies
      <4>1. r = new => r.at <= now
        BY <3>1, <2>1, <1>1, RowTypes DEF BoardInv, NothingAhead
      <4> QED BY <4>1, <1>1 DEF AddReply
    <3> QED BY <3>1, <3>2 DEF BoardInv, NothingLost, AddReply
  <2> QED BY <2>2, <2>3
<1>9. MentionsNotAhead'
  <2>1. \A m \in mentions : m.at \in Nat /\ m.at <= now
    BY InstantsAssumption DEF BoardInv, TypeOK, Mentions, MentionsNotAhead
  <2>2. \A m \in mentions' \ mentions : m.at = at
    BY DEF AddReply, MentionRows
  <2> QED BY <2>1, <2>2, <1>1 DEF AddReply, MentionsNotAhead
<1> QED BY <1>3, <1>4, <1>5, <1>6, <1>7, <1>8, <1>9 DEF BoardInv, AddReply

\* thread_watch.go WatchThread: a standing watch is left alone, a new one starts with
\* nothing read.
LEMMA WatchThreadStep ==
  ASSUME BoardInv, NEW a \in Actors, NEW t \in Threads, WatchThread(a, t)
  PROVE  BoardInv'
<1> DEFINE q == <<a, t>>
<1>1. TypeOK /\ q \in Pairs /\ now \in Nat
  BY RowTypes DEF BoardInv
<1>2. /\ lastRead'[q] = IF lastRead[q] = NoRow THEN ZeroTime ELSE lastRead[q]
      /\ \A p \in Pairs : p # q => lastRead'[p] = lastRead[p]
  BY <1>1 DEF WatchThread, TypeOK, HasRow
<1>3. TypeOK'
  <2>1. lastRead' \in [Pairs -> Instants \cup {ZeroTime, NoRow}]
    BY <1>1 DEF WatchThread, TypeOK
  <2> QED BY <1>1, <2>1 DEF WatchThread, TypeOK
<1>4. NothingAhead'
  BY <1>1, <1>2 DEF WatchThread, BoardInv, NothingAhead, ZeroTime
<1>5. RepliesHaveThreads'
  BY DEF WatchThread, BoardInv, RepliesHaveThreads, Exists
<1>6. WatchPairing'
  BY <1>1, <1>2 DEF WatchThread, BoardInv, WatchPairing, HasRow, ZeroTime, NoRow
<1>7. GotIsRead'
  <2> SUFFICES ASSUME NEW b \in Actors, NEW r \in got[b]
               PROVE  r.at <= lastRead'[<<b, r.thread>>]
    BY DEF GotIsRead, WatchThread
  <2>1. /\ r.at <= lastRead[<<b, r.thread>>] /\ r.at \in Nat
        /\ <<b, r.thread>> \in Pairs
    BY <1>1, RowTypes DEF BoardInv, GotIsRead
  <2> QED BY <2>1, <1>2 DEF NoRow
<1>8. NothingLost'
  <2> SUFFICES ASSUME NEW b \in Actors, NEW r \in replies,
                      r.at <= lastRead'[<<b, r.thread>>]
               PROVE  r.at <= lastRead[<<b, r.thread>>]
    BY DEF NothingLost, WatchThread, BoardInv
  <2>1. r.at \in Nat /\ r.at > 0 /\ <<b, r.thread>> \in Pairs
    BY <1>1, RowTypes, InstantsAssumption DEF TypeOK, Replies
  <2> QED BY <2>1, <1>2 DEF ZeroTime
<1>9. MentionsNotAhead'
  BY DEF WatchThread, BoardInv, MentionsNotAhead
<1> QED BY <1>3, <1>4, <1>5, <1>6, <1>7, <1>8, <1>9 DEF BoardInv, WatchThread

\* thread_watch.go UnwatchThread: both rows go, and what was returned in the watch is
\* forgotten with it.
LEMMA UnwatchThreadStep ==
  ASSUME BoardInv, NEW a \in Actors, NEW t \in Threads, UnwatchThread(a, t)
  PROVE  BoardInv'
<1> DEFINE q == <<a, t>>
<1>1. TypeOK /\ q \in Pairs /\ now \in Nat
  BY RowTypes DEF BoardInv
<1>2. /\ lastRead'[q] = NoRow
      /\ \A p \in Pairs : p # q => lastRead'[p] = lastRead[p]
  BY <1>1 DEF UnwatchThread, TypeOK
<1>3. /\ got'[a] = {r \in got[a] : r.thread # t}
      /\ \A b \in Actors : b # a => got'[b] = got[b]
  BY <1>1 DEF UnwatchThread, TypeOK
<1>4. TypeOK'
  <2>1. lastRead' \in [Pairs -> Instants \cup {ZeroTime, NoRow}]
    BY <1>1 DEF UnwatchThread, TypeOK
  <2>2. got' \in [Actors -> SUBSET replies']
    BY <1>1 DEF UnwatchThread, TypeOK
  <2> QED BY <1>1, <2>1, <2>2 DEF UnwatchThread, TypeOK
<1>5. NothingAhead'
  BY <1>1, <1>2 DEF UnwatchThread, BoardInv, NothingAhead, NoRow
<1>6. RepliesHaveThreads'
  BY DEF UnwatchThread, BoardInv, RepliesHaveThreads, Exists
<1>7. WatchPairing'
  BY <1>1, <1>2 DEF UnwatchThread, BoardInv, WatchPairing, HasRow
<1>8. GotIsRead'
  <2> SUFFICES ASSUME NEW b \in Actors, NEW r \in got'[b]
               PROVE  r.at <= lastRead'[<<b, r.thread>>]
    BY DEF GotIsRead
  <2>1. r \in got[b] /\ <<b, r.thread>> # q
    BY <1>3
  <2>2. <<b, r.thread>> \in Pairs
    BY <1>1, <2>1, RowTypes
  <2> QED BY <2>1, <2>2, <1>2 DEF BoardInv, GotIsRead
<1>9. NothingLost'
  <2> SUFFICES ASSUME NEW b \in Actors, NEW r \in replies,
                      r.at <= lastRead'[<<b, r.thread>>]
               PROVE  \/ r \in got'[b]
                      \/ \E o \in replies : /\ o.author = b
                                            /\ o.thread = r.thread
                                            /\ o.at >= r.at
    BY DEF NothingLost, UnwatchThread
  <2>1. r.at \in Nat /\ <<b, r.thread>> \in Pairs
    BY <1>1, RowTypes
  <2>2. <<b, r.thread>> # q
    BY <2>1, <1>2 DEF NoRow
  <2>3. r \in got[b] => r \in got'[b]
    BY <2>2, <1>3
  <2> QED BY <2>1, <2>2, <2>3, <1>2 DEF BoardInv, NothingLost
<1>10. MentionsNotAhead'
  BY DEF UnwatchThread, BoardInv, MentionsNotAhead
<1> QED BY <1>4, <1>5, <1>6, <1>7, <1>8, <1>9, <1>10 DEF BoardInv, UnwatchThread

\* Where catch_up leaves the cursors: on the newest unread reply of a watch
\* that has one, so never further back and never behind what it returns.
LEMMA CatchUpCursors ==
  ASSUME BoardInv, NEW a \in Actors, CatchUp(a), NEW p \in Pairs
  PROVE  /\ lastRead'[p] \in Instants \cup {ZeroTime, NoRow}
         /\ lastRead'[p] \in Int /\ lastRead'[p] <= now
         /\ lastRead'[p] >= lastRead[p]
         /\ lastRead'[p] = NoRow <=> lastRead[p] = NoRow
         /\ p[1] # a => lastRead'[p] = lastRead[p]
         /\ p[1] = a => \A r \in Unread(p) : r.at <= lastRead'[p]
         /\ p[1] = a => \A r \in replies :
               r.thread = p[2] /\ r.at <= lastRead'[p] =>
                  r.at <= lastRead[p] \/ r \in Unread(p)
<1>1. /\ TypeOK /\ now \in Nat /\ lastRead[p] \in Int /\ lastRead[p] <= now
      /\ lastRead[p] \in Instants \cup {ZeroTime, NoRow}
      /\ \A r \in replies : r.at \in Nat /\ r.at \in Instants /\ r.at <= now
  BY RowTypes DEF BoardInv, NothingAhead, TypeOK, Replies
<1>2. lastRead'[p] = IF p[1] = a /\ Unread(p) # {} THEN Latest(Unread(p))
                     ELSE lastRead[p]
  BY DEF CatchUp, CursorsAfterCatchUp
<1>3. CASE p[1] = a /\ Unread(p) # {}
  <2>1. PICK r \in Unread(p) : Latest(Unread(p)) = r.at
    BY <1>1, <1>3, LatestOfUnread DEF BoardInv
  <2>2. \A x \in Unread(p) : x.at <= Latest(Unread(p))
    BY <1>1, <1>3, LatestOfUnread DEF BoardInv
  <2>3. /\ r \in replies /\ r.at > lastRead[p] /\ lastRead[p] # NoRow
        /\ lastRead'[p] = r.at
    BY <1>2, <1>3, <2>1 DEF Unread, HasRow
  <2>4. \A x \in replies : x.thread = p[2] /\ x.at <= lastRead'[p] =>
                           x.at <= lastRead[p] \/ x \in Unread(p)
    BY <2>3, <1>1 DEF Unread, HasRow
  <2> QED BY <1>1, <1>2, <1>3, <2>2, <2>3, <2>4 DEF NoRow
<1>4. CASE ~ (p[1] = a /\ Unread(p) # {})
  BY <1>1, <1>2, <1>4
<1> QED BY <1>3, <1>4

\* catchup.go CatchUp: the cursors move to what is returned, and the mentions marked
\* are the ones returned.
LEMMA CatchUpStep ==
  ASSUME BoardInv, NEW a \in Actors, CatchUp(a)
  PROVE  BoardInv'
<1>1. TypeOK /\ now \in Nat
  BY RowTypes DEF BoardInv
<1>2. /\ got'[a] = got[a] \cup AllUnread(a)
      /\ \A b \in Actors : b # a => got'[b] = got[b]
  BY <1>1 DEF CatchUp, TypeOK
<1>3. AllUnread(a) \subseteq replies
  BY DEF AllUnread, Unread
<1>4. TypeOK'
  <2>1. lastRead' \in [Pairs -> Instants \cup {ZeroTime, NoRow}]
    <3>1. lastRead' = [p \in Pairs |-> lastRead'[p]]
      BY DEF CatchUp, CursorsAfterCatchUp
    <3> QED BY <3>1, CatchUpCursors
  <2>2. got' \in [Actors -> SUBSET replies']
    BY <1>1, <1>3 DEF CatchUp, TypeOK
  <2>3. seen' \subseteq mentions' /\ told' \subseteq mentions'
    BY <1>1 DEF CatchUp, TypeOK, MarkedSeen, UnseenMentions
  <2> QED BY <1>1, <2>1, <2>2, <2>3 DEF CatchUp, TypeOK
<1>5. NothingAhead'
  BY CatchUpCursors DEF CatchUp, BoardInv, NothingAhead
<1>6. RepliesHaveThreads'
  BY DEF CatchUp, BoardInv, RepliesHaveThreads, Exists
<1>7. WatchPairing'
  BY CatchUpCursors DEF CatchUp, BoardInv, WatchPairing, HasRow
<1>8. GotIsRead'
  <2> SUFFICES ASSUME NEW b \in Actors, NEW r \in got'[b]
               PROVE  r.at <= lastRead'[<<b, r.thread>>]
    BY DEF GotIsRead
  <2>1. /\ r \in replies /\ r.at \in Nat
        /\ <<b, r.thread>> \in Pairs /\ lastRead[<<b, r.thread>>] \in Int
    BY <1>1, <1>2, <1>3, RowTypes
  <2>2. CASE r \in got[b]
    BY <2>1, <2>2, CatchUpCursors DEF BoardInv, GotIsRead
  <2>3. CASE b = a /\ r \in AllUnread(a)
    <3>1. r \in Unread(<<a, r.thread>>)
      BY <2>3 DEF AllUnread, Unread
    <3> QED BY <2>1, <2>3, <3>1, CatchUpCursors
  <2> QED BY <1>2, <2>2, <2>3
<1>9. NothingLost'
  <2> SUFFICES ASSUME NEW b \in Actors, NEW r \in replies,
                      r.at <= lastRead'[<<b, r.thread>>]
               PROVE  \/ r \in got'[b]
                      \/ \E o \in replies : /\ o.author = b
                                            /\ o.thread = r.thread
                                            /\ o.at >= r.at
    BY DEF NothingLost, CatchUp
  <2>1. r.thread \in Threads /\ <<b, r.thread>> \in Pairs
    BY <1>1, RowTypes
  <2>2. got[b] \subseteq got'[b]
    BY <1>2
  <2>3. CASE r.at <= lastRead[<<b, r.thread>>]
    BY <2>2, <2>3 DEF BoardInv, NothingLost
  <2>4. CASE ~ (r.at <= lastRead[<<b, r.thread>>])
    <3>1. b = a
      BY <2>1, <2>4, CatchUpCursors
    <3>2. r \in Unread(<<a, r.thread>>)
      BY <2>1, <2>4, <3>1, CatchUpCursors
    <3>3. r \in AllUnread(a)
      BY <2>1, <3>2 DEF AllUnread
    <3> QED BY <1>2, <3>1, <3>3
  <2> QED BY <2>3, <2>4
<1>10. seen' = told'
  BY DEF CatchUp, BoardInv, MarkedSeen, UnseenMentions
<1>11. MentionsNotAhead'
  BY DEF CatchUp, BoardInv, MentionsNotAhead
<1> QED BY <1>4, <1>5, <1>6, <1>7, <1>8, <1>9, <1>10, <1>11 DEF BoardInv

\* thread_status.go setThreadStatus: only the status of a thread that exists changes.
LEMMA SetThreadStatusStep ==
  ASSUME BoardInv, NEW t \in Threads, NEW s \in {"open", "resolved"},
         SetThreadStatus(t, s)
  PROVE  BoardInv'
<1>1. TypeOK'
  BY DEF BoardInv, SetThreadStatus, TypeOK
<1>2. RepliesHaveThreads'
  BY DEF BoardInv, SetThreadStatus, RepliesHaveThreads, Exists, TypeOK
<1>3. NothingAhead' /\ MentionsNotAhead' /\ WatchPairing' /\ GotIsRead' /\ NothingLost'
  BY DEF BoardInv, SetThreadStatus, NothingAhead, MentionsNotAhead, WatchPairing, HasRow,
         GotIsRead, NothingLost
<1> QED BY <1>1, <1>2, <1>3 DEF BoardInv, SetThreadStatus

\* Nothing changes when nothing happens.
LEMMA StutterStep == BoardInv /\ UNCHANGED vars => BoardInv'
  BY DEF vars, BoardInv, TypeOK, NothingAhead, MentionsNotAhead, RepliesHaveThreads, Exists,
         WatchPairing, HasRow, GotIsRead, NothingLost

\* Every operation keeps the invariant.
LEMMA NextPreserves == BoardInv /\ [Next]_vars => BoardInv'
<1> SUFFICES ASSUME BoardInv, [Next]_vars PROVE BoardInv'
  OBVIOUS
<1>1. CASE \E a \in Actors, t \in Threads, ms \in SUBSET Actors, at \in Instants :
              CreateThread(a, t, ms, at)
  BY <1>1, CreateThreadStep
<1>2. CASE \E a \in Actors, t \in Threads, es \in SUBSET Actors,
              ms \in SUBSET Actors, at \in Instants : AddReply(a, t, es, ms, at)
  BY <1>2, AddReplyStep
<1>3. CASE \E a \in Actors, t \in Threads : WatchThread(a, t) \/ UnwatchThread(a, t)
  BY <1>3, WatchThreadStep, UnwatchThreadStep
<1>4. CASE \E a \in Actors : CatchUp(a)
  BY <1>4, CatchUpStep
<1>5. CASE \E t \in Threads : ResolveThread(t) \/ ReopenThread(t)
  BY <1>5, SetThreadStatusStep DEF ResolveThread, ReopenThread
<1>6. CASE UNCHANGED vars
  BY <1>6, StutterStep
<1> QED BY <1>1, <1>2, <1>3, <1>4, <1>5, <1>6 DEF Next

\* The invariant holds after every transaction.
LEMMA AlwaysBoardInv == Spec => []BoardInv
  BY InitEstablishes, NextPreserves, PTL DEF Spec

-----------------------------------------------------------------------------
\* Every table row keeps its shape, whatever operations run.
THEOREM TypeCorrect == Spec => []TypeOK
<1>1. BoardInv => TypeOK
  BY DEF BoardInv
<1> QED BY <1>1, AlwaysBoardInv, PTL

\* thread_watch.go: an actor has a Watcher row for a thread exactly when it
\* has a read cursor for it.
THEOREM WatchTablesAgree == Spec => []WatchPairing
<1>1. BoardInv => WatchPairing
  BY DEF BoardInv
<1> QED BY <1>1, AlwaysBoardInv, PTL

\* catchup.go with AddReply: a cursor passes a reply only by returning it or
\* by the actor's own later reply in the thread.
THEOREM RepliesAreNotLost == Spec => []NothingLost
<1>1. BoardInv => NothingLost
  BY DEF BoardInv
<1> QED BY <1>1, AlwaysBoardInv, PTL

\* catchup.go: what a catch_up returned does not come back while the actor
\* keeps watching, however others post, watch or name it as a watcher.
THEOREM NothingComesTwice == Spec => []NeverTwice
<1>1. BoardInv => NeverTwice
  <2> SUFFICES ASSUME BoardInv, NEW a \in Actors
               PROVE  /\ got[a] \cap AllUnread(a) = {}
                      /\ told \cap UnseenMentions(a) = {}
    BY DEF NeverTwice
  <2>1. told \cap UnseenMentions(a) = {}
    BY DEF BoardInv, UnseenMentions
  <2>2. ASSUME NEW r \in got[a], r \in AllUnread(a) PROVE FALSE
    <3>1. /\ r \in Unread(<<a, r.thread>>) /\ r \in replies
          /\ <<a, r.thread>> \in Pairs
      BY <2>2, RowTypes DEF AllUnread, Unread, BoardInv
    <3>2. r.at > lastRead[<<a, r.thread>>]
      BY <3>1 DEF Unread
    <3>3. r.at <= lastRead[<<a, r.thread>>]
      BY DEF BoardInv, GotIsRead
    <3>4. r.at \in Nat /\ lastRead[<<a, r.thread>>] \in Int
      BY <3>1, RowTypes DEF BoardInv
    <3> QED BY <3>2, <3>3, <3>4
  <2> QED BY <2>1, <2>2
<1> QED BY <1>1, AlwaysBoardInv, PTL

\* catchup.go: a mention gets its seen_at only from a catch_up that returns it.
THEOREM SeenMentionsWereReturned == Spec => []SeenWasReturned
<1>1. BoardInv => SeenWasReturned
  BY DEF BoardInv, SeenWasReturned
<1> QED BY <1>1, AlwaysBoardInv, PTL

\* upsertThreadWatch, ensureThreadWatch and CatchUp: no operation of any actor
\* moves the cursor of a standing watch back.
THEOREM CursorsMoveForward == Spec => CursorNeverMovesBack
<1>1. ASSUME BoardInv, [Next]_vars
      PROVE  [\A p \in Pairs : HasRow(p) /\ HasRow(p)' => lastRead'[p] >= lastRead[p]]_vars
  <2> SUFFICES ASSUME Next, NEW p \in Pairs, HasRow(p), HasRow(p)'
               PROVE  lastRead'[p] >= lastRead[p]
    BY <1>1
  <2>1. /\ lastRead[p] \in Int /\ lastRead[p] <= now /\ now \in Nat
        /\ lastRead \in [Pairs -> Instants \cup {ZeroTime, NoRow}]
        /\ Instants \subseteq Nat
    BY <1>1, RowTypes, InstantsAssumption DEF BoardInv, NothingAhead, TypeOK
  <2>2. ASSUME NEW a \in Actors, NEW t \in Threads, NEW ms \in SUBSET Actors,
               NEW at \in Instants, CreateThread(a, t, ms, at)
        PROVE  lastRead'[p] >= lastRead[p]
    BY <2>1, <2>2 DEF CreateThread
  <2>3. ASSUME NEW a \in Actors, NEW t \in Threads, NEW es \in SUBSET Actors,
               NEW ms \in SUBSET Actors, NEW at \in Instants,
               AddReply(a, t, es, ms, at)
        PROVE  lastRead'[p] >= lastRead[p]
    BY <2>1, <2>3 DEF AddReply, CursorsAfterReply, HasRow
  <2>4. ASSUME NEW a \in Actors, NEW t \in Threads, WatchThread(a, t)
        PROVE  lastRead'[p] >= lastRead[p]
    <3>1. lastRead'[p] = lastRead[p]
      BY <2>1, <2>4 DEF WatchThread, HasRow
    <3> QED BY <2>1, <3>1
  <2>5. ASSUME NEW a \in Actors, NEW t \in Threads, UnwatchThread(a, t)
        PROVE  lastRead'[p] >= lastRead[p]
    BY <2>1, <2>5 DEF UnwatchThread, HasRow
  <2>6. ASSUME NEW a \in Actors, CatchUp(a)
        PROVE  lastRead'[p] >= lastRead[p]
    BY <1>1, <2>6, CatchUpCursors
  <2>7. ASSUME NEW t \in Threads, ResolveThread(t) \/ ReopenThread(t)
        PROVE  lastRead'[p] >= lastRead[p]
    BY <2>1, <2>7 DEF ResolveThread, ReopenThread, SetThreadStatus
  <2> QED BY <2>2, <2>3, <2>4, <2>5, <2>6, <2>7 DEF Next
<1> QED BY <1>1, AlwaysBoardInv, PTL DEF Spec, CursorNeverMovesBack

\* A reply unread in a standing watch stays unread until catch_up returns it
\* or the actor replies in the thread itself.
THEOREM UnreadStays == Spec => UnreadUntilReturned
<1> DEFINE Kept(p, r) ==
        \/ r \in Unread(p)' \/ r \in got'[p[1]]
        \/ \E q \in replies' \ replies : q.author = p[1] /\ q.thread = p[2]
<1>1. ASSUME BoardInv, [Next]_vars
      PROVE  [\A p \in Pairs : HasRow(p) /\ HasRow(p)' => \A r \in Unread(p) : Kept(p, r)]_vars
  <2> SUFFICES ASSUME Next, NEW p \in Pairs, HasRow(p), HasRow(p)', NEW r \in Unread(p)
               PROVE  Kept(p, r)
    BY <1>1
  <2>1. /\ r \in replies /\ r.thread = p[2] /\ r.at > lastRead[p]
        /\ p[1] \in Actors /\ p[2] \in Threads /\ p = <<p[1], p[2]>>
        /\ lastRead \in [Pairs -> Instants \cup {ZeroTime, NoRow}]
        /\ replies \subseteq Replies /\ \A q \in replies : q.at <= now
    BY <1>1 DEF Unread, Pairs, BoardInv, TypeOK, NothingAhead
  <2>2. ASSUME replies \subseteq replies', lastRead'[p] = lastRead[p] PROVE Kept(p, r)
    BY <2>1, <2>2 DEF Unread
  <2>3. ASSUME NEW a \in Actors, NEW t \in Threads, NEW ms \in SUBSET Actors,
               NEW at \in Instants, CreateThread(a, t, ms, at)
        PROVE  Kept(p, r)
    <3>1. Exists(p[2])
      BY <1>1, <2>1 DEF BoardInv, RepliesHaveThreads
    <3>2. p # <<a, t>>
      BY <2>3, <3>1 DEF CreateThread
    <3> QED BY <2>1, <2>2, <2>3, <3>2 DEF CreateThread
  <2>4. ASSUME NEW a \in Actors, NEW t \in Threads, NEW es \in SUBSET Actors,
               NEW ms \in SUBSET Actors, NEW at \in Instants,
               AddReply(a, t, es, ms, at)
        PROVE  Kept(p, r)
    <3> DEFINE new == [thread |-> t, author |-> a, at |-> at]
    <3>1. CASE p = <<a, t>>
      <4>1. new \in replies' /\ new.author = p[1] /\ new.thread = p[2]
        BY <2>4, <3>1 DEF AddReply
      <4>2. new \notin replies
        <5>1. \A q \in replies : q.at \in Nat /\ q.at <= now
          BY <2>1, InstantsAssumption DEF Replies
        <5>2. at \in Nat /\ now \in Nat /\ at > now
          BY <1>1, <2>4, InstantsAssumption DEF AddReply, BoardInv, TypeOK, ZeroTime
        <5> QED BY <5>1, <5>2
      <4> QED BY <4>1, <4>2
    <3>2. CASE p # <<a, t>>
      BY <2>1, <2>2, <2>4, <3>2 DEF AddReply, CursorsAfterReply
    <3> QED BY <3>1, <3>2
  <2>5. ASSUME NEW a \in Actors, NEW t \in Threads, WatchThread(a, t)
        PROVE  Kept(p, r)
    <3>1. lastRead'[p] = lastRead[p]
      BY <2>1, <2>5 DEF WatchThread, HasRow
    <3> QED BY <2>2, <2>5, <3>1 DEF WatchThread
  <2>6. ASSUME NEW a \in Actors, NEW t \in Threads, UnwatchThread(a, t)
        PROVE  Kept(p, r)
    <3>1. p # <<a, t>>
      BY <2>1, <2>6 DEF UnwatchThread, HasRow
    <3> QED BY <2>1, <2>2, <2>6, <3>1 DEF UnwatchThread
  <2>7. ASSUME NEW a \in Actors, CatchUp(a)
        PROVE  Kept(p, r)
    <3>1. CASE p[1] = a
      <4>1. r \in AllUnread(a)
        BY <2>1, <3>1 DEF AllUnread
      <4>2. got'[a] = got[a] \cup AllUnread(a)
        BY <1>1, <2>7 DEF CatchUp, BoardInv, TypeOK
      <4> QED BY <3>1, <4>1, <4>2
    <3>2. CASE p[1] # a
      BY <2>1, <2>2, <2>7, <3>2 DEF CatchUp, CursorsAfterCatchUp
    <3> QED BY <3>1, <3>2
  <2>8. ASSUME NEW t \in Threads, ResolveThread(t) \/ ReopenThread(t)
        PROVE  Kept(p, r)
    BY <2>2, <2>8 DEF ResolveThread, ReopenThread, SetThreadStatus
  <2> QED BY <2>3, <2>4, <2>5, <2>6, <2>7, <2>8 DEF Next
<1> QED BY <1>1, AlwaysBoardInv, PTL DEF Spec, UnreadUntilReturned

-----------------------------------------------------------------------------
\* What waits for an actor, over the tables.
Awaiting(rs, cursor, b) ==
    {r \in rs : cursor[<<b, r.thread>>] # NoRow /\ r.at > cursor[<<b, r.thread>>]}

LEMMA UnreadWaits == TypeOK => \A b \in Actors : AllUnread(b) = Awaiting(replies, lastRead, b)
<1> SUFFICES ASSUME TypeOK, NEW b \in Actors
             PROVE  AllUnread(b) = Awaiting(replies, lastRead, b)
  OBVIOUS
<1>1. \A r \in replies : r.thread \in Threads
  BY RowTypes
<1>2. ASSUME NEW r PROVE r \in AllUnread(b) <=> \E t \in Threads : r \in Unread(<<b, t>>)
  BY DEF AllUnread
<1>3. ASSUME NEW r, NEW t \in Threads
      PROVE  r \in Unread(<<b, t>>) <=> r.thread = t /\ r \in Awaiting(replies, lastRead, b)
  BY DEF Unread, HasRow, Awaiting
<1>4. Awaiting(replies, lastRead, b) \subseteq replies
  BY DEF Awaiting
<1> QED BY <1>1, <1>2, <1>3, <1>4

\* Before and after a step, with the cursors and timestamps as numbers.
LEMMA WaitingNow ==
  ASSUME BoardInv, BoardInv'
  PROVE  /\ \A b \in Actors : AllUnread(b) = Awaiting(replies, lastRead, b)
         /\ \A b \in Actors : AllUnread(b)' = Awaiting(replies', lastRead', b)
         /\ \A r \in replies : /\ r.thread \in Threads /\ r.at \in Nat /\ r.at > 0 /\ r.at <= now
                               /\ \A b \in Actors : <<b, r.thread>> \in Pairs
         /\ \A p \in Pairs : lastRead[p] \in Int /\ lastRead'[p] \in Int /\ lastRead[p] <= now
         /\ \A p \in Pairs : p \in watcher <=> lastRead[p] # NoRow
<1>1. TypeOK /\ TypeOK'
  BY DEF BoardInv
<1>2. \A b \in Actors : AllUnread(b)' = Awaiting(replies', lastRead', b)
  <2>1. (TypeOK => \A b \in Actors : AllUnread(b) = Awaiting(replies, lastRead, b))'
    BY UnreadWaits, PTL
  <2> QED BY <1>1, <2>1 DEF Awaiting
<1>3. \A r \in replies : r.at \in Instants
  BY <1>1 DEF TypeOK, Replies
<1>4. \A p \in Pairs : lastRead'[p] \in Int
  <2>1. \A p \in Pairs : lastRead'[p] \in Instants \cup {ZeroTime, NoRow}
    BY <1>1 DEF TypeOK, Pairs
  <2>2. Instants \subseteq Int /\ ZeroTime \in Int /\ NoRow \in Int
    BY InstantsAssumption DEF ZeroTime, NoRow
  <2> QED BY <2>1, <2>2
<1> QED BY <1>1, <1>2, <1>3, <1>4, UnreadWaits, RowTypes, InstantsAssumption
        DEF BoardInv, NothingAhead, WatchPairing, HasRow

\* The mentions a post adds are new ones.
LEMMA NewMentions ==
  ASSUME BoardInv, NEW a \in Actors, NEW ms \in SUBSET Actors, NEW at \in Instants, at > now,
         mentions' = mentions \cup MentionRows(a, ms, at), UNCHANGED seen
  PROVE  [b \in Actors |-> UnseenMentions(b)]' =
         [b \in Actors |-> IF b \in ms \ {a} THEN UnseenMentions(b) \cup {[actor |-> b, at |-> at]}
                                             ELSE UnseenMentions(b)]
<1>1. \A m \in seen : m.at # at
  <2>1. \A m \in seen : m \in mentions /\ m.at \in Instants /\ m.at <= now
    BY DEF BoardInv, TypeOK, Mentions, MentionsNotAhead
  <2>2. now \in Nat /\ at \in Nat
    BY RowTypes, InstantsAssumption DEF BoardInv
  <2> QED BY <2>1, <2>2, InstantsAssumption
<1>2. ASSUME NEW b \in Actors
      PROVE  UnseenMentions(b)' =
                IF b \in ms \ {a} THEN UnseenMentions(b) \cup {[actor |-> b, at |-> at]}
                                  ELSE UnseenMentions(b)
  BY <1>1 DEF UnseenMentions, MentionRows
<1> QED BY <1>2

\* Nothing waits on an empty board.
LEMMA InboxInit == Init => Box!Init
  BY DEF Init, Box!Init, Exists, AllUnread, Unread, HasRow, UnseenMentions

LEMMA InboxMentioning ==
  ASSUME BoardInv, NEW a \in Actors, NEW ms \in SUBSET Actors, NEW at \in Instants, at > now,
         mentions' = mentions \cup MentionRows(a, ms, at), UNCHANGED seen
  PROVE  Box!Mentioning(a, ms, at)
<1>1. [b \in Actors |-> UnseenMentions(b)]' =
      [b \in Actors |-> IF b \in ms \ {a} THEN UnseenMentions(b) \cup {[actor |-> b, at |-> at]}
                                          ELSE UnseenMentions(b)]
  BY NewMentions
<1> QED BY <1>1 DEF Box!Mentioning

\* A new thread has no replies.
LEMMA InboxCreateThread ==
  ASSUME BoardInv, BoardInv', NEW a \in Actors, NEW t \in Threads, NEW ms \in SUBSET Actors,
         NEW at \in Instants, CreateThread(a, t, ms, at)
  PROVE  Box!CreateThread(a, t, ms, at)
<1>1. /\ t \notin {u \in Threads : Exists(u)}
      /\ {u \in Threads : Exists(u)}' = {u \in Threads : Exists(u)} \cup {t}
  BY DEF CreateThread, BoardInv, TypeOK, Exists
<1>2. ASSUME NEW b \in Actors PROVE AllUnread(b)' = AllUnread(b)
  <2>1. \A r \in replies : r.thread # t
    BY DEF CreateThread, BoardInv, RepliesHaveThreads, Exists
  <2>2. \A p \in Pairs : p # <<a, t>> => lastRead'[p] = lastRead[p]
    BY DEF CreateThread, BoardInv, TypeOK
  <2>3. Awaiting(replies', lastRead', b) = Awaiting(replies, lastRead, b)
    BY <2>1, <2>2, WaitingNow DEF CreateThread, Awaiting
  <2> QED BY <2>3, WaitingNow
<1>3. Box!Mentioning(a, ms, at)
  BY InboxMentioning DEF CreateThread
<1> QED BY <1>1, <1>2, <1>3 DEF Box!CreateThread, CreateThread

\* A reply is later than every cursor, so it waits for all who watch.
LEMMA InboxAddReply ==
  ASSUME BoardInv, BoardInv', NEW a \in Actors, NEW t \in Threads, NEW es \in SUBSET Actors,
         NEW ms \in SUBSET Actors, NEW at \in Instants, AddReply(a, t, es, ms, at)
  PROVE  Box!AddReply(a, t, es, ms, at)
<1> DEFINE r0 == [thread |-> t, author |-> a, at |-> at]
           Mine(b) == <<b, t>>
<1>1. /\ Exists(t) /\ at > now /\ replies' = replies \cup {r0} /\ r0.thread = t /\ r0.at = at
      /\ watcher' = watcher \cup ((es \cup {a}) \X {t}) /\ UNCHANGED <<status, seen, got, told>>
      /\ at \in Nat /\ at > 0 /\ now \in Nat
  BY RowTypes, InstantsAssumption DEF AddReply, BoardInv
<1>2. \A r \in replies : r.at # at
  <2>1. \A r \in replies : r.at \in Nat /\ r.at <= now
    BY WaitingNow
  <2> QED BY <2>1, <1>1
<1>3. ASSUME NEW b \in Actors, NEW u \in Threads
      PROVE  lastRead'[<<b, u>>] = IF u = t /\ b = a THEN at
                                   ELSE IF u = t /\ b \in es /\ lastRead[<<b, u>>] = NoRow THEN ZeroTime
                                   ELSE lastRead[<<b, u>>]
  BY DEF AddReply, CursorsAfterReply, HasRow, Pairs
<1> HIDE DEF r0
<1>4. ASSUME NEW b \in Actors
      PROVE  AllUnread(b)' =
               CASE b = a -> AllUnread(b) \ Box!Of(replies, t)
                 [] b # a /\ <<b, t>> \in watcher -> AllUnread(b) \cup {r0}
                 [] b \in es \ {a} /\ <<b, t>> \notin watcher -> AllUnread(b) \cup Box!Of(replies', t)
                 [] OTHER -> AllUnread(b)
  <2>1. /\ AllUnread(b) = Awaiting(replies, lastRead, b)
        /\ AllUnread(b)' = Awaiting(replies', lastRead', b)
        /\ \A r \in replies : r.thread \in Threads /\ r.at \in Nat /\ r.at > 0 /\ r.at <= now
        /\ lastRead[<<b, t>>] \in Int /\ lastRead[<<b, t>>] <= now
        /\ <<b, t>> \in watcher <=> lastRead[<<b, t>>] # NoRow
    BY WaitingNow DEF Pairs
  <2>2. \A r : r \in AllUnread(b) =>
            r \in replies /\ lastRead[<<b, r.thread>>] # NoRow /\ r.at > lastRead[<<b, r.thread>>]
    BY <2>1 DEF Awaiting
  <2>3. \A r : r \in AllUnread(b)' <=>
            (r \in replies \/ r = r0) /\ lastRead'[<<b, r.thread>>] # NoRow
            /\ r.at > lastRead'[<<b, r.thread>>]
    BY <2>1, <1>1 DEF Awaiting
  <2>4. \A r \in replies : r.thread # t => (r \in AllUnread(b)' <=> r \in AllUnread(b))
    BY <2>1, <2>3, <1>3 DEF Awaiting
  <2>9. \A r \in replies \cup {r0} : r.thread = t =>
            /\ r.at \in Nat /\ r.at > 0 /\ r.at <= at
            /\ r \in AllUnread(b)' <=> lastRead'[<<b, t>>] # NoRow /\ r.at > lastRead'[<<b, t>>]
    <3> SUFFICES ASSUME NEW r \in replies \cup {r0}, r.thread = t
                 PROVE  /\ r.at \in Nat /\ r.at > 0 /\ r.at <= at
                        /\ r \in AllUnread(b)' <=>
                              lastRead'[<<b, t>>] # NoRow /\ r.at > lastRead'[<<b, t>>]
      OBVIOUS
    <3>1. r.at \in Nat /\ r.at > 0 /\ r.at <= at
      <4>1. CASE r \in replies
        BY <2>1, <4>1, <1>1
      <4>2. CASE r = r0
        BY <4>2, <1>1
      <4> QED BY <4>1, <4>2
    <3>2. r \in AllUnread(b)' <=> lastRead'[<<b, r.thread>>] # NoRow /\ r.at > lastRead'[<<b, r.thread>>]
      BY <2>3
    <3> QED BY <3>1, <3>2
  <2>5. CASE b = a
    <3>1. lastRead'[<<b, t>>] = at
      BY <2>5, <1>3
    <3>2. \A r \in replies \cup {r0} : r.thread = t => r \notin AllUnread(b)'
      BY <2>9, <3>1, <1>1
    <3> QED BY <2>2, <2>3, <2>4, <2>5, <3>2, <1>1 DEF Box!Of
  <2>6. CASE b # a /\ <<b, t>> \in watcher
    <3>1. \A r \in replies : r.thread = t => (r \in AllUnread(b)' <=> r \in AllUnread(b))
      BY <2>1, <2>3, <2>6, <1>3 DEF Awaiting
    <3>2. r0 \in AllUnread(b)'
      <4>1. lastRead'[<<b, t>>] = lastRead[<<b, t>>] /\ lastRead[<<b, t>>] # NoRow
        BY <2>1, <2>6, <1>3
      <4>2. at > lastRead[<<b, t>>]
        BY <2>1, <1>1
      <4> QED BY <2>9, <4>1, <4>2, <1>1
    <3> QED BY <2>2, <2>3, <2>4, <2>6, <3>1, <3>2
  <2>7. CASE b \in es \ {a} /\ <<b, t>> \notin watcher
    <3>1. \A r \in replies \cup {r0} : r.thread = t => r \in AllUnread(b)'
      <4>1. lastRead'[<<b, t>>] = ZeroTime
        BY <2>1, <2>7, <1>3
      <4> QED BY <2>9, <4>1 DEF ZeroTime, NoRow
    <3> QED BY <2>2, <2>3, <2>4, <2>7, <3>1, <1>1 DEF Box!Of
  <2>8. CASE b # a /\ b \notin es /\ <<b, t>> \notin watcher
    <3>1. \A r \in replies \cup {r0} : r.thread = t => r \notin AllUnread(b)'
      BY <2>1, <2>3, <2>8, <1>3
    <3>2. \A r \in replies : r.thread = t => r \notin AllUnread(b)
      BY <2>1, <2>2, <2>8
    <3> QED BY <2>2, <2>3, <2>4, <2>8, <3>1, <3>2, <1>1
  <2> QED BY <2>5, <2>6, <2>7, <2>8
<1>5. [b \in Actors |-> AllUnread(b)]' =
      [b \in Actors |->
          CASE b = a -> AllUnread(b) \ Box!Of(replies, t)
            [] b # a /\ <<b, t>> \in watcher -> AllUnread(b) \cup {r0}
            [] b \in es \ {a} /\ <<b, t>> \notin watcher -> AllUnread(b) \cup Box!Of(replies', t)
            [] OTHER -> AllUnread(b)]
  BY <1>4
<1>6. Box!Mentioning(a, ms, at)
  BY <1>1, InboxMentioning DEF AddReply
<1>7. t \in {u \in Threads : Exists(u)} /\ {u \in Threads : Exists(u)}' = {u \in Threads : Exists(u)}
  BY <1>1 DEF Exists
<1>8. r0 \notin replies
  BY <1>1, <1>2
<1> QED BY <1>1, <1>5, <1>6, <1>7, <1>8 DEF Box!AddReply, r0

\* A new watch has the zero time, before every reply.
LEMMA InboxWatchThread ==
  ASSUME BoardInv, BoardInv', NEW a \in Actors, NEW t \in Threads, WatchThread(a, t)
  PROVE  Box!WatchThread(a, t)
<1>1. /\ Exists(t) /\ watcher' = watcher \cup {<<a, t>>} /\ <<a, t>> \in Pairs
      /\ UNCHANGED <<status, replies, mentions, seen, now, got, told>>
  BY DEF WatchThread, Pairs
<1>2. \A p \in Pairs : lastRead'[p] = IF p = <<a, t>> /\ lastRead[p] = NoRow THEN ZeroTime
                                                                              ELSE lastRead[p]
  BY DEF WatchThread, HasRow, BoardInv, TypeOK
<1>3. <<a, t>> \in watcher <=> lastRead[<<a, t>>] # NoRow
  BY <1>1, WaitingNow
<1>4. ASSUME NEW b \in Actors
      PROVE  AllUnread(b)' = IF b = a /\ <<a, t>> \notin watcher
                             THEN AllUnread(b) \cup Box!Of(replies, t) ELSE AllUnread(b)
  <2>1. /\ AllUnread(b) = Awaiting(replies, lastRead, b)
        /\ AllUnread(b)' = Awaiting(replies, lastRead', b)
        /\ \A r \in replies : <<b, r.thread>> \in Pairs /\ r.at \in Nat /\ r.at > 0
    BY <1>1, WaitingNow
  <2>2. CASE b = a /\ <<a, t>> \notin watcher
    <3>1. \A r \in replies : r.thread = t => r.at > lastRead'[<<b, r.thread>>]
                                             /\ lastRead'[<<b, r.thread>>] # NoRow
      <4>1. lastRead'[<<a, t>>] = ZeroTime
        BY <1>1, <1>2, <1>3, <2>2
      <4> QED BY <2>1, <2>2, <4>1 DEF ZeroTime, NoRow
    <3>2. \A r \in replies : r.thread # t => lastRead'[<<b, r.thread>>] = lastRead[<<b, r.thread>>]
      BY <1>2, <2>1
    <3> QED BY <2>1, <2>2, <3>1, <3>2 DEF Awaiting, Box!Of
  <2>3. CASE ~ (b = a /\ <<a, t>> \notin watcher)
    <3>1. \A r \in replies : lastRead'[<<b, r.thread>>] = lastRead[<<b, r.thread>>]
      BY <1>2, <1>3, <2>1, <2>3
    <3> QED BY <2>1, <2>3, <3>1 DEF Awaiting
  <2> QED BY <2>2, <2>3
<1>5. [b \in Actors |-> AllUnread(b)]' =
      IF <<a, t>> \in watcher THEN [b \in Actors |-> AllUnread(b)]
      ELSE [[b \in Actors |-> AllUnread(b)] EXCEPT ![a] = @ \cup Box!Of(replies, t)]
  BY <1>4
<1>6. /\ t \in {u \in Threads : Exists(u)}
      /\ {u \in Threads : Exists(u)}' = {u \in Threads : Exists(u)}
      /\ [b \in Actors |-> UnseenMentions(b)]' = [b \in Actors |-> UnseenMentions(b)]
  BY <1>1 DEF Exists, UnseenMentions
<1> QED BY <1>1, <1>5, <1>6 DEF Box!WatchThread

\* Without a cursor nothing of the thread waits.
LEMMA InboxUnwatchThread ==
  ASSUME BoardInv, BoardInv', NEW a \in Actors, NEW t \in Threads, UnwatchThread(a, t)
  PROVE  Box!UnwatchThread(a, t)
<1>1. /\ watcher' = watcher \ {<<a, t>>} /\ got \in [Actors -> SUBSET replies]
      /\ got' = [got EXCEPT ![a] = {r \in got[a] : r.thread # t}]
      /\ UNCHANGED <<status, replies, mentions, seen, now, told>>
  BY DEF UnwatchThread, BoardInv, TypeOK
<1>2. \A p \in Pairs : lastRead'[p] = IF p = <<a, t>> THEN NoRow ELSE lastRead[p]
  BY DEF UnwatchThread, BoardInv, TypeOK
<1>3. ASSUME NEW b \in Actors
      PROVE  AllUnread(b)' = IF b = a THEN AllUnread(b) \ Box!Of(replies, t) ELSE AllUnread(b)
  <2>1. /\ AllUnread(b) = Awaiting(replies, lastRead, b)
        /\ AllUnread(b)' = Awaiting(replies, lastRead', b)
        /\ \A r \in replies : <<b, r.thread>> \in Pairs
    BY <1>1, WaitingNow
  <2> QED BY <1>2, <2>1 DEF Awaiting, Box!Of
<1>4. [b \in Actors |-> AllUnread(b)]' =
      [[b \in Actors |-> AllUnread(b)] EXCEPT ![a] = @ \ Box!Of(replies, t)]
  BY <1>3
<1>5. got' = [got EXCEPT ![a] = @ \ Box!Of(replies, t)]
  BY <1>1 DEF Box!Of
<1>6. /\ {u \in Threads : Exists(u)}' = {u \in Threads : Exists(u)}
      /\ [b \in Actors |-> UnseenMentions(b)]' = [b \in Actors |-> UnseenMentions(b)]
  BY <1>1 DEF Exists, UnseenMentions
<1> QED BY <1>1, <1>4, <1>5, <1>6 DEF Box!UnwatchThread

\* At the newest of what it returned, a cursor has nothing above it.
LEMMA InboxCatchUp ==
  ASSUME BoardInv, BoardInv', NEW a \in Actors, CatchUp(a)
  PROVE  Box!CatchUp(a)
<1>1. /\ got' = [got EXCEPT ![a] = @ \cup AllUnread(a)] /\ told' = told \cup UnseenMentions(a)
      /\ seen' = seen \cup UnseenMentions(a)
      /\ UNCHANGED <<status, replies, watcher, mentions, now>>
  BY DEF CatchUp, MarkedSeen, UnseenMentions
<1>2. ASSUME NEW b \in Actors PROVE AllUnread(b)' = IF b = a THEN {} ELSE AllUnread(b)
  <2>1. /\ AllUnread(b) = Awaiting(replies, lastRead, b)
        /\ AllUnread(b)' = Awaiting(replies, lastRead', b)
        /\ \A r \in replies : /\ r.thread \in Threads /\ <<b, r.thread>> \in Pairs /\ r.at \in Nat
                              /\ lastRead[<<b, r.thread>>] \in Int /\ lastRead'[<<b, r.thread>>] \in Int
    BY <1>1, WaitingNow
  <2>2. CASE b = a
    <3>1. ASSUME NEW r \in AllUnread(b)' PROVE FALSE
      <4>1. r \in replies /\ lastRead'[<<b, r.thread>>] # NoRow /\ r.at > lastRead'[<<b, r.thread>>]
        BY <2>1, <3>1 DEF Awaiting
      <4>2. /\ lastRead[<<b, r.thread>>] # NoRow /\ lastRead'[<<b, r.thread>>] >= lastRead[<<b, r.thread>>]
            /\ \A x \in Unread(<<b, r.thread>>) : x.at <= lastRead'[<<b, r.thread>>]
        BY <2>1, <2>2, <4>1, CatchUpCursors
      <4>3. r.at > lastRead[<<b, r.thread>>]
        BY <2>1, <4>1, <4>2
      <4>4. r \in Unread(<<b, r.thread>>)
        BY <4>1, <4>2, <4>3 DEF Unread, HasRow
      <4> QED BY <2>1, <4>1, <4>2, <4>4
    <3> QED BY <2>2, <3>1
  <2>3. CASE b # a
    <3>1. \A r \in replies : lastRead'[<<b, r.thread>>] = lastRead[<<b, r.thread>>]
      BY <2>1, <2>3, CatchUpCursors
    <3> QED BY <2>1, <2>3, <3>1 DEF Awaiting
  <2> QED BY <2>2, <2>3
<1>3. [b \in Actors |-> AllUnread(b)]' = [[b \in Actors |-> AllUnread(b)] EXCEPT ![a] = {}]
  BY <1>2
<1>4. ASSUME NEW b \in Actors PROVE UnseenMentions(b)' = IF b = a THEN {} ELSE UnseenMentions(b)
  BY <1>1 DEF UnseenMentions
<1>5. [b \in Actors |-> UnseenMentions(b)]' = [[b \in Actors |-> UnseenMentions(b)] EXCEPT ![a] = {}]
  BY <1>4
<1>6. {u \in Threads : Exists(u)}' = {u \in Threads : Exists(u)}
  BY <1>1 DEF Exists
<1> QED BY <1>1, <1>3, <1>5, <1>6 DEF Box!CatchUp

\* Resolving and reopening, and steps of nobody, leave what waits alone.
LEMMA InboxUnchanged ==
  ASSUME BoardInv,
         (\E t \in Threads : ResolveThread(t) \/ ReopenThread(t)) \/ UNCHANGED vars
  PROVE  UNCHANGED Box!vars
<1>1. {u \in Threads : Exists(u)}' = {u \in Threads : Exists(u)}
  BY DEF ResolveThread, ReopenThread, SetThreadStatus, vars, Exists, BoardInv, TypeOK
<1>2. UNCHANGED <<replies, watcher, lastRead, mentions, seen, got, told>>
  BY DEF ResolveThread, ReopenThread, SetThreadStatus, vars
<1>3. \A b \in Actors : AllUnread(b)' = AllUnread(b) /\ UnseenMentions(b)' = UnseenMentions(b)
  BY <1>2 DEF AllUnread, Unread, HasRow, UnseenMentions
<1> QED BY <1>1, <1>2, <1>3 DEF Box!vars

\* Every operation does to the unread replies and unseen mentions what Inbox
\* says.
LEMMA InboxStep == BoardInv /\ [Next]_vars => [Box!Next]_(Box!vars)
<1> SUFFICES ASSUME BoardInv, [Next]_vars PROVE [Box!Next]_(Box!vars)
  OBVIOUS
<1>1. BoardInv'
  BY NextPreserves
<1>2. CASE \E a \in Actors, t \in Threads, ms \in SUBSET Actors, at \in Instants :
              CreateThread(a, t, ms, at)
  BY <1>1, <1>2, InboxCreateThread DEF Box!Next
<1>3. CASE \E a \in Actors, t \in Threads, es \in SUBSET Actors,
              ms \in SUBSET Actors, at \in Instants : AddReply(a, t, es, ms, at)
  BY <1>1, <1>3, InboxAddReply DEF Box!Next
<1>4. CASE \E a \in Actors, t \in Threads : WatchThread(a, t) \/ UnwatchThread(a, t)
  BY <1>1, <1>4, InboxWatchThread, InboxUnwatchThread DEF Box!Next
<1>5. CASE \E a \in Actors : CatchUp(a)
  BY <1>1, <1>5, InboxCatchUp DEF Box!Next
<1>6. CASE (\E t \in Threads : ResolveThread(t) \/ ReopenThread(t)) \/ UNCHANGED vars
  BY <1>6, InboxUnchanged
<1> QED BY <1>2, <1>3, <1>4, <1>5, <1>6 DEF Next

\* The board keeps one timestamp per watch, and yet every reply waits for
\* whoever watches its thread, once, until catch_up returns it or the actor
\* replies there: what catch_up finds beyond the cursors is, after any
\* operations, the set Inbox keeps.
THEOREM BoardImplementsInbox == Spec => InboxSpec
  BY AlwaysBoardInv, InboxInit, InboxStep, PTL DEF Spec, InboxSpec, Box!Spec
=============================================================================
