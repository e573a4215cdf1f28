------------------------------ MODULE PushProofs ------------------------------
(***************************************************************************)
(* PushReachesSubscribers proved for all actors, threads and timestamps.   *)
(* The push is looked up after the commit, from tables others change; the  *)
(* inductive invariant says why it still finds whom it owes: what is owed  *)
(* for a watch is an unread reply, its watch stands (BoardInv), and the    *)
(* handler under way names that reply's thread and author.                 *)
(***************************************************************************)
EXTENDS Push, BoardProofs

\* A handler works on a post that is committed and does not mention its
\* author; before it has read the watchers, it knows the reply's thread and
\* author.
KnowsItsPost(a) ==
    handler[a] # NoHandler =>
        /\ handler[a].at <= now
        /\ [actor |-> a, at |-> handler[a].at] \notin mentions
        /\ handler[a].pc = "watchers" =>
              \A r \in replies : r.at = handler[a].at =>
                  r.thread = handler[a].thread /\ r.author = a
HandlersKnow == \A a \in Actors : KnowsItsPost(a)

\* Nobody is owed a push for a reply of its own.
NotItsOwn(o) ==
    o.by = "watch" => \A r \in replies : r.at = o.at => r.author # o.actor
OwedToOthers == \A o \in owed : NotItsOwn(o)

PushInv ==
    /\ BoardInv
    /\ PushTypeOK
    /\ HandlersKnow
    /\ OwedToOthers
    /\ PushReachesSubscribers

\* What a board operation does to the posts: new ones are later than all.
Grows ==
    /\ now' \in Nat /\ now <= now' /\ replies \subseteq replies'
    /\ \A r \in replies' \ replies : r.at > now
    /\ \A m \in mentions' \ mentions : m.at > now /\ m.at <= now'

-----------------------------------------------------------------------------
\* Nobody is subscribed and no handler runs when the process begins.
LEMMA PushInitEstablishes == PushInit => PushInv
<1> SUFFICES ASSUME PushInit PROVE PushInv
  OBVIOUS
<1>1. BoardInv
  BY InitEstablishes DEF PushInit
<1>2. PushTypeOK
  BY DEF PushInit, PushTypeOK, Handlers, Clients, Idle
<1>3. HandlersKnow /\ OwedToOthers /\ PushReachesSubscribers
  BY DEF PushInit, HandlersKnow, KnowsItsPost, OwedToOthers, PushReachesSubscribers
<1> QED BY <1>1, <1>2, <1>3 DEF PushInv

\* A reply owed for a watch is there, unread, in a thread its actor watches.
LEMMA OwedReply ==
  ASSUME BoardInv, NEW o \in Owed, o.by = "watch", Outstanding(o)
  PROVE  \E r \in replies : r.at = o.at /\ <<o.actor, r.thread>> \in watcher
<1>1. PICK r \in AllUnread(o.actor) : r.at = o.at
  BY DEF Outstanding
<1>2. PICK t \in Threads : r \in Unread(<<o.actor, t>>)
  BY <1>1 DEF AllUnread
<1>3. HasRow(<<o.actor, t>>) /\ r \in replies /\ r.thread = t
  BY <1>2 DEF Unread
<1>4. <<o.actor, t>> \in Pairs
  BY DEF Owed, Pairs
<1> QED BY <1>1, <1>3, <1>4 DEF BoardInv, WatchPairing

\* Whether a post is unread is read from the board's tables alone.
LEMMA OutstandingKept ==
  ASSUME UNCHANGED vars, NEW o
  PROVE  Outstanding(o)' <=> Outstanding(o)
  BY DEF vars, Outstanding, UnseenMentions, AllUnread, Unread, HasRow

\* What a client is to learn it still is when posts are only added.
LEMMA LearningKept ==
  ASSUME replies \subseteq replies', NEW o, client'[o.actor] = client[o.actor], Learning(o)
  PROVE  Learning(o)'
  BY DEF Learning, Learns, Counted

\* Later posts do not change whose a post is that was owed or is handled.
LEMMA PostsStay ==
  ASSUME PushInv, Grows
  PROVE  /\ \A o \in owed : NotItsOwn(o)'
         /\ \A a \in Actors : handler'[a] = handler[a] => KnowsItsPost(a)'
<1>1. now \in Nat /\ now' >= now /\ (\A r \in replies : r.at \in Nat /\ r.at <= now)
  BY RowTypes DEF PushInv, BoardInv, NothingAhead, Grows
<1>2. ASSUME NEW o \in owed PROVE NotItsOwn(o)'
  <2>1. CASE o.by = "watch"
    <3>1. o \in Owed /\ Outstanding(o)
      BY DEF PushInv, PushTypeOK
    <3>2. o.at \in Nat /\ o.at <= now
      BY <1>1, <2>1, <3>1, OwedReply DEF PushInv
    <3>3. \A r \in replies' : r.at = o.at => r \in replies
      BY <1>1, <3>2 DEF Grows
    <3> QED BY <3>3 DEF PushInv, OwedToOthers, NotItsOwn
  <2> QED BY <2>1 DEF NotItsOwn
<1>3. ASSUME NEW a \in Actors, handler'[a] = handler[a] PROVE KnowsItsPost(a)'
  <2>1. CASE handler[a] # NoHandler
    <3>1. handler[a].at <= now /\ handler[a].at \in Nat
      BY <2>1, InstantsAssumption
      DEF PushInv, HandlersKnow, KnowsItsPost, PushTypeOK, Handlers
    <3>2. handler[a].at <= now'
      BY <1>1, <3>1 DEF Grows
    <3>3. \A r \in replies' : r.at = handler[a].at => r \in replies
      BY <1>1, <3>1 DEF Grows
    <3>4. [actor |-> a, at |-> handler[a].at] \notin mentions' \ mentions
      BY <1>1, <3>1 DEF Grows
    <3> QED BY <1>3, <3>2, <3>3, <3>4 DEF PushInv, HandlersKnow, KnowsItsPost
  <2> QED BY <1>3, <2>1 DEF KnowsItsPost
<1> QED BY <1>2, <1>3
-----------------------------------------------------------------------------
\* Only CreateThread and AddReply post, with a timestamp after all others.
LEMMA BoardStepGrows ==
  ASSUME BoardInv, [Next]_vars
  PROVE  BoardInv' /\ Grows
<1>1. BoardInv'
  BY NextPreserves
<1>2. now \in Nat /\ now' \in Nat
  BY <1>1, RowTypes, InstantsAssumption DEF BoardInv, TypeOK, ZeroTime
<1>3. CASE \E a \in Actors, t \in Threads, ms \in SUBSET Actors, at \in Instants :
              CreateThread(a, t, ms, at)
  BY <1>1, <1>2, <1>3, InstantsAssumption DEF CreateThread, MentionRows, Grows
<1>4. CASE \E a \in Actors, t \in Threads, es \in SUBSET Actors,
              ms \in SUBSET Actors, at \in Instants : AddReply(a, t, es, ms, at)
  BY <1>1, <1>2, <1>4, InstantsAssumption DEF AddReply, MentionRows, Grows
<1>5. CASE \E a \in Actors, t \in Threads : WatchThread(a, t) \/ UnwatchThread(a, t)
  BY <1>1, <1>2, <1>5 DEF WatchThread, UnwatchThread, Grows
<1>6. CASE \E a \in Actors : CatchUp(a)
  BY <1>1, <1>2, <1>6 DEF CatchUp, Grows
<1>7. CASE \E t \in Threads : ResolveThread(t) \/ ReopenThread(t)
  BY <1>1, <1>2, <1>7 DEF ResolveThread, ReopenThread, SetThreadStatus, Grows
<1>8. CASE UNCHANGED vars
  BY <1>1, <1>2, <1>8 DEF vars, Grows
<1> QED BY <1>1, <1>3, <1>4, <1>5, <1>6, <1>7, <1>8 DEF Next

\* A board operation that notifies nobody, of a human, a tool or a catch_up
\* whose answer is lost, leaves every promise of a push as it was.
LEMMA SilentStep ==
  ASSUME PushInv, [Next]_vars, NEW gone, Owes({}, gone),
         UNCHANGED <<agents, subscribed, handler, client>>
  PROVE  PushInv'
<1>1. BoardInv' /\ Grows
  BY BoardStepGrows DEF PushInv
<1>2. owed' \subseteq owed /\ \A o \in owed' : Outstanding(o)'
  BY DEF Owes
<1>3. PushTypeOK'
  BY <1>2 DEF PushInv, PushTypeOK
<1>4. HandlersKnow' /\ OwedToOthers'
  BY <1>1, <1>2, PostsStay DEF HandlersKnow, OwedToOthers
<1>5. PushReachesSubscribers'
  BY <1>1, <1>2, LearningKept DEF Grows, PushInv, PushReachesSubscribers, Telling
<1> QED BY <1>1, <1>3, <1>4, <1>5 DEF PushInv

\* After its catch_up an actor is owed nothing: neither a reply nor a mention
\* of it is left unread.
LEMMA NothingLeft ==
  ASSUME BoardInv, NEW a \in Actors, CatchUp(a)
  PROVE  AllUnread(a)' = {} /\ UnseenMentions(a)' = {}
<1>1. UnseenMentions(a)' = {}
  BY DEF CatchUp, UnseenMentions, MarkedSeen
<1>2. ASSUME NEW t \in Threads PROVE Unread(<<a, t>>)' = {}
  <2> DEFINE p == <<a, t>>
  <2>1. p \in Pairs /\ lastRead'[p] = IF Unread(p) # {} THEN Latest(Unread(p)) ELSE lastRead[p]
    BY DEF Pairs, CatchUp, CursorsAfterCatchUp
  <2>2. replies' = replies /\ \A r \in replies : r.at \in Nat
    BY RowTypes DEF CatchUp, BoardInv
  <2>3. CASE Unread(p) = {}
    BY <2>1, <2>2, <2>3 DEF Unread, HasRow
  <2>4. CASE Unread(p) # {}
    <3>1. /\ \E r \in Unread(p) : Latest(Unread(p)) = r.at
          /\ \A r \in Unread(p) : r.at <= Latest(Unread(p))
      BY <2>1, <2>4, LatestOfUnread DEF BoardInv
    <3>2. PICK u \in Unread(p) : lastRead'[p] = u.at
      BY <2>1, <2>4, <3>1
    <3>3. u \in replies /\ u.at > lastRead[p] /\ HasRow(p)
      BY <2>4 DEF Unread
    <3>4. lastRead[p] \in Int /\ \A r \in Unread(p) : r.at <= u.at
      BY <2>1, <2>4, <3>1, <3>2, RowTypes DEF BoardInv
    <3>5. ASSUME NEW r \in replies, r.thread = t, r.at > u.at PROVE FALSE
      <4>1. r \in Unread(p)
        BY <2>2, <3>3, <3>4, <3>5 DEF Unread
      <4> QED BY <2>2, <3>3, <3>4, <3>5, <4>1
    <3> QED BY <2>2, <3>2, <3>5 DEF Unread
  <2> QED BY <2>3, <2>4
<1> QED BY <1>1, <1>2 DEF AllUnread

\* catch_up returns all that was owed to its caller, so that the client may
\* forget the badge.
LEMMA CallCatchUpStep ==
  ASSUME PushInv, NEW a \in Actors, CallCatchUp(a)
  PROVE  PushInv'
<1>1. CatchUp(a) /\ Owes({}, {}) /\ UNCHANGED <<agents, subscribed, handler>>
  BY DEF CallCatchUp
<1>2. BoardInv' /\ Grows
  BY <1>1, BoardStepGrows DEF PushInv, Next
<1>3. owed' \subseteq owed /\ \A o \in owed' : Outstanding(o)'
  BY <1>1 DEF Owes
<1>4. client' \in [Actors -> Clients] /\ \A b \in Actors \ {a} : client'[b] = client[b]
  BY DEF CallCatchUp, Knows, PushInv, PushTypeOK, Clients
<1>5. PushTypeOK'
  BY <1>1, <1>3, <1>4 DEF PushInv, PushTypeOK
<1>6. HandlersKnow' /\ OwedToOthers'
  BY <1>1, <1>2, <1>3, PostsStay DEF HandlersKnow, OwedToOthers
<1>7. \A o \in owed' : o.actor # a
  BY <1>1, <1>3, NothingLeft DEF Outstanding, PushInv
<1>8. \A o \in owed' : o.actor \in Actors
  BY <1>3 DEF PushInv, PushTypeOK, Owed
<1>9. PushReachesSubscribers'
  BY <1>1, <1>2, <1>3, <1>4, <1>7, <1>8, LearningKept
     DEF Grows, PushInv, PushReachesSubscribers, Telling
<1> QED BY <1>2, <1>5, <1>6, <1>9 DEF PushInv
-----------------------------------------------------------------------------
\* A posting tool's transaction: whoever is owed a push for the new post, the
\* handler that begins has yet to look up.
LEMMA PostStep ==
  ASSUME PushInv, [Next]_vars,
         NEW a \in Actors, NEW t \in Threads, NEW at \in Instants,
         NEW pc \in {"watchers", "mentions"}, NEW new \in SUBSET Owed,
         a \in agents, handler[a] = NoHandler, at > now, now' = at,
         Begins(a, pc, t, at), Owes(new, {}),
         UNCHANGED <<agents, subscribed, client>>,
         \A o \in new : /\ o.actor \in subscribed /\ o.at = at /\ o.actor # a
                        /\ pc = "watchers" \/ o.by = "mention",
         pc = "watchers" => \A r \in replies' \ replies : r.thread = t /\ r.author = a,
         \A m \in mentions' \ mentions : m.actor # a
  PROVE  PushInv'
<1> DEFINE begun == [pc |-> pc, thread |-> t, at |-> at, targets |-> {}]
<1>1. BoardInv' /\ Grows
  BY BoardStepGrows DEF PushInv
<1>2. /\ handler'[a] = begun /\ begun \in Handlers /\ begun # NoHandler
      /\ \A b \in Actors \ {a} : handler'[b] = handler[b]
      /\ handler' \in [Actors -> Handlers]
  BY DEF Begins, PushInv, PushTypeOK, Handlers, NoHandler
<1>3. owed' \subseteq owed \cup new /\ \A o \in owed' : Outstanding(o)'
  BY DEF Owes
<1>4. PushTypeOK'
  <2>1. owed' \subseteq Owed /\ \A o \in owed' : o.actor \in subscribed'
    BY <1>3 DEF PushInv, PushTypeOK
  <2>2. \A b \in Actors :
            handler'[b] # NoHandler => b \in agents' /\ b \notin handler'[b].targets
    BY <1>2 DEF PushInv, PushTypeOK
  <2> QED BY <1>2, <1>3, <2>1, <2>2 DEF PushInv, PushTypeOK
<1>5. \A r \in replies' : r.at = at => r \in replies' \ replies
  <2>1. \A r \in replies : r.at \in Nat /\ r.at <= now
    BY RowTypes DEF PushInv, BoardInv, NothingAhead
  <2>2. at \in Nat /\ now \in Nat
    BY RowTypes, InstantsAssumption DEF PushInv, BoardInv
  <2> QED BY <2>1, <2>2
<1>6. HandlersKnow'
  <2>1. \A m \in mentions : m.at # at
    BY InstantsAssumption, RowTypes
    DEF PushInv, MentionsNotAhead, BoardInv, TypeOK, Mentions
  <2>2. [actor |-> a, at |-> at] \notin mentions'
    BY <2>1
  <2>3. KnowsItsPost(a)'
    BY <1>2, <1>5, <2>2, InstantsAssumption DEF KnowsItsPost
  <2> QED BY <1>1, <1>2, <2>3, PostsStay DEF HandlersKnow
<1>7. OwedToOthers'
  <2>1. \A o \in new : NotItsOwn(o)'
    BY <1>5 DEF NotItsOwn
  <2> QED BY <1>1, <1>3, <2>1, PostsStay DEF OwedToOthers
<1>8. PushReachesSubscribers'
  <2>1. \A o \in new : Telling(a, o)'
    BY <1>2 DEF Telling
  <2>2. ASSUME NEW o \in owed PROVE Learning(o)' \/ \E b \in Actors : Telling(b, o)'
    <3>1. CASE Learning(o)
      BY <1>1, <3>1, LearningKept DEF Grows
    <3>2. CASE \E b \in Actors : Telling(b, o)
      BY <1>2, <3>2 DEF Telling
    <3> QED BY <3>1, <3>2 DEF PushInv, PushReachesSubscribers
  <2> QED BY <1>3, <2>1, <2>2 DEF PushReachesSubscribers
<1> QED BY <1>1, <1>4, <1>6, <1>7, <1>8, PostsStay DEF PushInv

\* tool_create_thread.go: a thread's post owes a push to those it mentions.
LEMMA AgentCreateStep ==
  ASSUME PushInv, NEW a \in Actors, NEW t \in Threads, NEW ms \in SUBSET Actors,
         NEW at \in Instants, AgentCreate(a, t, ms, at)
  PROVE  PushInv'
<1> DEFINE new == MentionsOwed(ms \ {a}, at)
<1>1. CreateThread(a, t, ms, at) /\ Next
  BY DEF AgentCreate, Next
<1>2. at > now /\ now' = at /\ \A m \in mentions' \ mentions : m.actor # a
  BY <1>1 DEF CreateThread, MentionRows
<1>3. /\ new \in SUBSET Owed
      /\ \A o \in new : o.actor \in subscribed /\ o.at = at /\ o.actor # a /\ o.by = "mention"
  BY DEF MentionsOwed, Owed
<1>4. Begins(a, "mentions", t, at) /\ Owes(new, {})
  BY DEF AgentCreate
<1> HIDE DEF new
<1> QED BY <1>1, <1>2, <1>3, <1>4, PostStep DEF AgentCreate

\* tool_reply.go: a reply owes a push to the watchers its commit leaves and to
\* those it mentions, its author excepted.
LEMMA AgentReplyStep ==
  ASSUME PushInv, NEW a \in Actors, NEW t \in Threads, NEW es \in SUBSET Actors,
         NEW ms \in SUBSET Actors, NEW at \in Instants, AgentReply(a, t, es, ms, at)
  PROVE  PushInv'
<1> DEFINE new == MentionsOwed(ms \ {a}, at)
                    \cup WatchesOwed({b \in Actors \ {a} : <<b, t>> \in watcher'}, at)
<1>1. AddReply(a, t, es, ms, at) /\ Next
  BY DEF AgentReply, Next
<1>2. /\ at > now /\ now' = at
      /\ \A r \in replies' \ replies : r.thread = t /\ r.author = a
      /\ \A m \in mentions' \ mentions : m.actor # a
  BY <1>1 DEF AddReply, MentionRows
<1>3. /\ new \in SUBSET Owed
      /\ \A o \in new : o.actor \in subscribed /\ o.at = at /\ o.actor # a
  BY DEF MentionsOwed, WatchesOwed, Owed
<1>4. Begins(a, "watchers", t, at) /\ Owes(new, {})
  BY DEF AgentReply
<1> HIDE DEF new
<1> QED BY <1>1, <1>2, <1>3, <1>4, PostStep DEF AgentReply
-----------------------------------------------------------------------------
\* A step beside the board: what is owed was owed, and is as unread as it was.
LEMMA BesideTheBoard ==
  ASSUME PushInv, UNCHANGED vars, owed' \subseteq owed
  PROVE  /\ BoardInv' /\ OwedToOthers'
         /\ owed' \subseteq Owed /\ \A o \in owed' : Outstanding(o)'
         /\ \A a \in Actors : handler'[a] = handler[a] => KnowsItsPost(a)'
<1>1. BoardInv' /\ Grows
  BY BoardStepGrows DEF PushInv
<1>2. owed' \subseteq Owed /\ \A o \in owed' : Outstanding(o)'
  BY OutstandingKept DEF PushInv, PushTypeOK
<1> QED BY <1>1, <1>2, PostsStay DEF OwedToOthers

\* A step of a's handler: its next state is well-formed and of the same post,
\* and whoever it was to tell and is still owed, it tells or has told.
LEMMA HandlerStep ==
  ASSUME PushInv, NEW a \in Actors, NEW h \in Handlers, handler[a] # NoHandler,
         handler' = [handler EXCEPT ![a] = h],
         UNCHANGED <<vars, agents, subscribed>>,
         client' \in [Actors -> Clients], owed' \subseteq owed,
         h # NoHandler => /\ h.pc # "watchers" /\ h.at = handler[a].at
                          /\ a \notin h.targets,
         \A o \in owed' : /\ Learning(o) => Learning(o)'
                          /\ Telling(a, o) => Learning(o)' \/ Telling(a, o)'
  PROVE  PushInv'
<1>1. /\ handler'[a] = h /\ \A b \in Actors \ {a} : handler'[b] = handler[b]
      /\ handler' \in [Actors -> Handlers]
  BY DEF PushInv, PushTypeOK
<1>2. PushTypeOK'
  <2>1. \A b \in Actors :
            handler'[b] # NoHandler => b \in agents' /\ b \notin handler'[b].targets
    BY <1>1 DEF PushInv, PushTypeOK
  <2> QED BY <1>1, <2>1, BesideTheBoard DEF PushInv, PushTypeOK
<1>3. HandlersKnow'
  <2>1. KnowsItsPost(a)'
    BY <1>1 DEF PushInv, HandlersKnow, KnowsItsPost, vars
  <2> QED BY <1>1, <2>1, BesideTheBoard DEF HandlersKnow
<1>4. PushReachesSubscribers'
  <2> SUFFICES ASSUME NEW o \in owed'
               PROVE  Learning(o)' \/ \E b \in Actors : Telling(b, o)'
    BY DEF PushReachesSubscribers
  <2>1. \A b \in Actors \ {a} : Telling(b, o) => Telling(b, o)'
    BY <1>1 DEF Telling
  <2> QED BY <2>1 DEF PushInv, PushReachesSubscribers
<1> QED BY <1>2, <1>3, <1>4, BesideTheBoard DEF PushInv

\* WatchersOf reads the watchers after the commit, and finds among them whom
\* the reply is owed to: their watch stands, or the reply would not be unread.
LEMMA ReadWatchersStep ==
  ASSUME PushInv, NEW a \in Actors, ReadWatchers(a)
  PROVE  PushInv'
<1> DEFINE h == handler[a]
           found == {b \in Actors \ {a} : <<b, h.thread>> \in watcher}
           next == [pc |-> "mentions", thread |-> h.thread, at |-> h.at, targets |-> found]
<1>1. /\ h \in [pc : {"watchers"}, thread : Threads, at : Instants, targets : SUBSET Actors]
      /\ h # NoHandler
  BY DEF ReadWatchers, PushInv, PushTypeOK, Handlers, NoHandler
<1>2. /\ next.pc = "mentions" /\ next.at = h.at /\ next.targets = found
  OBVIOUS
<1>3. next \in Handlers /\ next # NoHandler /\ a \notin found
  BY <1>1, <1>2 DEF Handlers, NoHandler
<1>4. /\ handler' = [handler EXCEPT ![a] = next] /\ owed' = owed
      /\ UNCHANGED <<vars, agents, subscribed, client>>
  BY DEF ReadWatchers, Mutes
<1>5. handler'[a] = next
  BY <1>4 DEF PushInv, PushTypeOK
<1>6. ASSUME NEW o \in owed, Telling(a, o) PROVE Telling(a, o)'
  <2>1. o \in Owed /\ Outstanding(o) /\ o.at = h.at
    BY <1>6 DEF Telling, PushInv, PushTypeOK
  <2>2. CASE o.by = "mention"
    BY <1>2, <1>3, <1>5, <2>1, <2>2 DEF Telling
  <2>3. CASE o.by = "watch"
    <3>1. PICK r \in replies : r.at = o.at /\ <<o.actor, r.thread>> \in watcher
      BY <2>1, <2>3, OwedReply DEF PushInv
    <3>2. r.thread = h.thread /\ r.author = a
      BY <1>1, <2>1, <3>1 DEF PushInv, HandlersKnow, KnowsItsPost
    <3>3. r.author # o.actor
      BY <1>6, <2>3, <3>1 DEF PushInv, OwedToOthers, NotItsOwn
    <3>4. o.actor \in found
      BY <2>1, <3>1, <3>2, <3>3 DEF Owed
    <3> QED BY <1>2, <1>3, <1>5, <2>1, <3>4 DEF Telling
  <2> QED BY <2>1, <2>2, <2>3 DEF Owed
<1>7. \A o \in owed : Learning(o) => Learning(o)'
  BY <1>4, LearningKept DEF vars
<1>8. client' \in [Actors -> Clients]
  BY <1>4 DEF PushInv, PushTypeOK
<1>9. next.pc # "watchers" /\ next.at = handler[a].at /\ a \notin next.targets
  BY <1>2
<1> HIDE DEF next
<1> QED BY <1>1, <1>3, <1>4, <1>6, <1>7, <1>8, <1>9, HandlerStep
\* What a handler's state is while it looks up mentions and while it sends.
LEMMA HandlerStates ==
  ASSUME PushInv, NEW a \in Actors
  PROVE  /\ handler[a].pc \in {"watchers", "mentions"} =>
               handler[a] \in [pc : {"watchers", "mentions"}, thread : Threads,
                               at : Instants, targets : SUBSET Actors]
         /\ handler[a].pc = "send" =>
               handler[a] \in [pc : {"send"}, at : Instants, targets : SUBSET Actors]
         /\ handler[a].pc \in {"watchers", "mentions", "send"} =>
               handler[a] # NoHandler /\ a \notin handler[a].targets
  BY DEF PushInv, PushTypeOK, Handlers, NoHandler

\* A lookup of watchers that fails gives up what the reply owes to watchers.
LEMMA WatchersFailStep ==
  ASSUME PushInv, NEW a \in Actors, WatchersFail(a)
  PROVE  PushInv'
<1> DEFINE h == handler[a]
           next == [h EXCEPT !.pc = "mentions"]
<1>1. /\ h \in [pc : {"watchers", "mentions"}, thread : Threads,
                at : Instants, targets : SUBSET Actors]
      /\ h # NoHandler /\ a \notin h.targets
  BY HandlerStates DEF WatchersFail
<1>2. /\ next \in Handlers /\ next # NoHandler /\ next.pc = "mentions"
      /\ next.at = h.at /\ next.targets = h.targets
  BY <1>1 DEF Handlers, NoHandler
<1>3. /\ handler' = [handler EXCEPT ![a] = next]
      /\ owed' = owed \ OfPost(h.at, "watch")
      /\ UNCHANGED <<vars, agents, subscribed, client>>
  BY DEF WatchersFail, Mutes
<1>4. handler'[a] = next
  BY <1>3 DEF PushInv, PushTypeOK
<1>5. ASSUME NEW o \in owed', Telling(a, o) PROVE Telling(a, o)'
  <2>1. o \in Owed /\ o.at = h.at
    BY <1>3, <1>5 DEF Telling, PushInv, PushTypeOK
  <2>2. o.by = "mention"
    BY <1>3, <2>1 DEF Owed, OfPost
  <2> QED BY <1>2, <1>4, <2>1, <2>2 DEF Telling
<1>6. \A o \in owed' : Learning(o) => Learning(o)'
  BY <1>3, LearningKept DEF vars
<1>7. client' \in [Actors -> Clients]
  BY <1>3 DEF PushInv, PushTypeOK
<1> HIDE DEF next
<1> QED BY <1>1, <1>2, <1>3, <1>5, <1>6, <1>7, HandlerStep

\* The lookup of mentions finds every actor the post mentions: what is owed
\* for a mention is a row of the mentions table.
LEMMA ReadMentionsStep ==
  ASSUME PushInv, NEW a \in Actors, ReadMentions(a)
  PROVE  PushInv'
<1> DEFINE h == handler[a]
           found == {m.actor : m \in {n \in mentions : n.at = h.at}}
           next == [pc |-> "send", at |-> h.at, targets |-> h.targets \cup found]
<1>1. /\ h \in [pc : {"watchers", "mentions"}, thread : Threads,
                at : Instants, targets : SUBSET Actors]
      /\ h # NoHandler /\ a \notin h.targets /\ h.pc = "mentions"
  BY HandlerStates DEF ReadMentions
<1>2. found \subseteq Actors /\ a \notin found
  <2>1. mentions \subseteq Mentions
    BY DEF PushInv, BoardInv, TypeOK
  <2>2. [actor |-> a, at |-> h.at] \notin mentions
    BY <1>1 DEF PushInv, HandlersKnow, KnowsItsPost
  <2>3. \A m \in mentions : m = [actor |-> m.actor, at |-> m.at] /\ m.actor \in Actors
    BY <2>1 DEF Mentions
  <2> QED BY <2>2, <2>3
<1>3. /\ next \in Handlers /\ next # NoHandler /\ a \notin next.targets
      /\ next.pc = "send" /\ next.at = h.at /\ next.targets = h.targets \cup found
  BY <1>1, <1>2 DEF Handlers, NoHandler
<1>4. /\ handler' = [handler EXCEPT ![a] = next] /\ owed' = owed
      /\ UNCHANGED <<vars, agents, subscribed, client>>
  BY DEF ReadMentions, Mutes
<1>5. handler'[a] = next
  BY <1>4 DEF PushInv, PushTypeOK
<1>6. ASSUME NEW o \in owed, Telling(a, o) PROVE Telling(a, o)'
  <2>1. Outstanding(o) /\ o.at = h.at
    BY <1>6 DEF Telling, PushInv, PushTypeOK
  <2>2. o.by = "mention" => o.actor \in found
    BY <2>1 DEF Outstanding, UnseenMentions
  <2>3. o.actor \in next.targets
    BY <1>1, <1>3, <1>6, <2>2 DEF Telling
  <2> QED BY <1>3, <1>5, <2>1, <2>3 DEF Telling
<1>7. \A o \in owed : Learning(o) => Learning(o)'
  BY <1>4, LearningKept DEF vars
<1>8. client' \in [Actors -> Clients]
  BY <1>4 DEF PushInv, PushTypeOK
<1> HIDE DEF next
<1> QED BY <1>1, <1>3, <1>4, <1>6, <1>7, <1>8, HandlerStep
\* A lookup of mentions that fails gives up what the post owes to the mentioned.
LEMMA MentionsFailStep ==
  ASSUME PushInv, NEW a \in Actors, MentionsFail(a)
  PROVE  PushInv'
<1> DEFINE h == handler[a]
           next == [pc |-> "send", at |-> h.at, targets |-> h.targets]
<1>1. /\ h \in [pc : {"watchers", "mentions"}, thread : Threads,
                at : Instants, targets : SUBSET Actors]
      /\ h # NoHandler /\ a \notin h.targets /\ h.pc = "mentions"
  BY HandlerStates DEF MentionsFail
<1>2. /\ next \in Handlers /\ next # NoHandler /\ a \notin next.targets
      /\ next.pc = "send" /\ next.at = h.at /\ next.targets = h.targets
  BY <1>1 DEF Handlers, NoHandler
<1>3. /\ handler' = [handler EXCEPT ![a] = next]
      /\ owed' = owed \ OfPost(h.at, "mention")
      /\ UNCHANGED <<vars, agents, subscribed, client>>
  BY DEF MentionsFail, Mutes
<1>4. handler'[a] = next
  BY <1>3 DEF PushInv, PushTypeOK
<1>5. ASSUME NEW o \in owed', Telling(a, o) PROVE Telling(a, o)'
  <2>1. o \in Owed /\ o.at = h.at
    BY <1>3, <1>5 DEF Telling, PushInv, PushTypeOK
  <2>2. o.by # "mention"
    BY <1>3, <2>1 DEF Owed, OfPost
  <2> QED BY <1>1, <1>2, <1>4, <1>5, <2>1, <2>2 DEF Telling
<1>6. \A o \in owed' : Learning(o) => Learning(o)'
  BY <1>3, LearningKept DEF vars
<1>7. client' \in [Actors -> Clients]
  BY <1>3 DEF PushInv, PushTypeOK
<1> HIDE DEF next
<1> QED BY <1>1, <1>2, <1>3, <1>5, <1>6, <1>7, HandlerStep

\* ResourceUpdated, or its failure, takes one target off the list: the client
\* is told, or is owed nothing for the post any more.
LEMMA SendStep ==
  ASSUME PushInv, NEW a \in Actors, NEW b \in Actors, Send(a, b) \/ SendFails(a, b)
  PROVE  PushInv'
<1> DEFINE h == handler[a]
           next == [h EXCEPT !.targets = @ \ {b}]
<1>1. /\ h \in [pc : {"send"}, at : Instants, targets : SUBSET Actors]
      /\ h # NoHandler /\ a \notin h.targets
  BY HandlerStates DEF Send, SendFails
<1>2. /\ next \in Handlers /\ next # NoHandler /\ a \notin next.targets
      /\ next.pc = "send" /\ next.at = h.at /\ next.targets = h.targets \ {b}
  BY <1>1 DEF Handlers, NoHandler
<1>3. /\ handler' = [handler EXCEPT ![a] = next]
      /\ UNCHANGED <<vars, agents, subscribed>>
      /\ owed' \subseteq owed
  BY DEF Send, SendFails, Mutes
<1>4. handler'[a] = next
  BY <1>3 DEF PushInv, PushTypeOK
<1>5. \/ client' = client
      \/ client' = [client EXCEPT ![b].note = TRUE]
  BY DEF Send, SendFails
<1>6. client' \in [Actors -> Clients]
  <2>1. client \in [Actors -> Clients]
    BY DEF PushInv, PushTypeOK
  <2>2. [client[b] EXCEPT !.note = TRUE] \in Clients
    BY <2>1 DEF Clients
  <2> QED BY <1>5, <2>1, <2>2
<1>7. ASSUME NEW o \in owed', Learning(o) PROVE Learning(o)'
  <2>1. o.actor \in Actors
    BY <1>3, <1>7 DEF PushInv, PushTypeOK, Owed
  <2>2. \/ client'[o.actor] = client[o.actor]
        \/ client'[o.actor] = [client[o.actor] EXCEPT !.note = TRUE]
    BY <1>5, <2>1 DEF PushInv, PushTypeOK
  <2>3. client[o.actor] \in Clients
    BY <2>1 DEF PushInv, PushTypeOK
  <2>4. CASE client'[o.actor] = client[o.actor]
    BY <1>3, <1>7, <2>4, LearningKept DEF vars
  <2>5. CASE client'[o.actor] = [client[o.actor] EXCEPT !.note = TRUE]
    <3>1. client'[o.actor].note
      BY <2>3, <2>5 DEF Clients
    <3> QED BY <3>1 DEF Learning, Learns
  <2> QED BY <2>2, <2>4, <2>5
<1>8. ASSUME NEW o \in owed', Telling(a, o) PROVE Learning(o)' \/ Telling(a, o)'
  <2>1. o \in Owed /\ o.at = h.at /\ o.actor \in h.targets /\ o.actor \in subscribed
    BY <1>1, <1>3, <1>8 DEF Telling, PushInv, PushTypeOK
  <2>2. CASE o.actor # b
    BY <1>2, <1>4, <2>1, <2>2 DEF Telling
  <2>3. CASE o.actor = b /\ Send(a, b)
    <3>1. client' = [client EXCEPT ![b].note = TRUE]
      BY <2>1, <2>3 DEF Send
    <3>2. client'[b].note
      BY <3>1 DEF PushInv, PushTypeOK, Clients
    <3> QED BY <2>3, <3>2 DEF Learning, Learns
  <2>4. CASE o.actor = b /\ SendFails(a, b)
    <3>1. o \in OfActor(b)
      BY <2>1, <2>4 DEF Owed, OfActor
    <3> QED BY <1>8, <2>1, <2>4, <3>1 DEF SendFails, Mutes
  <2> QED BY <2>2, <2>3, <2>4
<1> HIDE DEF next
<1> QED BY <1>1, <1>2, <1>3, <1>6, <1>7, <1>8, HandlerStep

\* The handler answers when nobody is left to tell.
LEMMA AnswerStep ==
  ASSUME PushInv, NEW a \in Actors, Answer(a)
  PROVE  PushInv'
<1>1. /\ handler[a] \in [pc : {"send"}, at : Instants, targets : SUBSET Actors]
      /\ handler[a] # NoHandler /\ handler[a].targets = {}
  BY HandlerStates DEF Answer
<1>2. /\ handler' = [handler EXCEPT ![a] = NoHandler] /\ owed' = owed
      /\ UNCHANGED <<vars, agents, subscribed, client>>
  BY DEF Answer, Mutes
<1>3. \A o \in owed : ~ Telling(a, o)
  BY <1>1 DEF Telling
<1>4. \A o \in owed : Learning(o) => Learning(o)'
  BY <1>2, LearningKept DEF vars
<1>5. client' \in [Actors -> Clients] /\ NoHandler \in Handlers
  BY <1>2 DEF PushInv, PushTypeOK, Handlers
<1> QED BY <1>1, <1>2, <1>3, <1>4, <1>5, HandlerStep

-----------------------------------------------------------------------------
\* A step of the client, of its subscriptions or of the whole process: handlers
\* run on or are all gone, and what is still owed is still to be learnt.
LEMMA ClientStep ==
  ASSUME PushInv, UNCHANGED <<vars, agents>>, owed' \subseteq owed,
         subscribed' \subseteq agents, \A o \in owed' : o.actor \in subscribed',
         client' \in [Actors -> Clients],
         \/ handler' = handler /\ \A o \in owed' : Learning(o) => Learning(o)'
         \/ handler' = [a \in Actors |-> NoHandler] /\ owed' = {}
  PROVE  PushInv'
<1>1. PushTypeOK'
  <2>1. handler' \in [Actors -> Handlers]
    BY DEF PushInv, PushTypeOK, Handlers
  <2>2. \A a \in Actors :
           handler'[a] # NoHandler => a \in agents' /\ a \notin handler'[a].targets
    BY DEF PushInv, PushTypeOK
  <2> QED BY <2>1, <2>2, BesideTheBoard DEF PushInv, PushTypeOK
<1>2. HandlersKnow'
  <2>1. CASE handler' = handler
    BY <2>1, BesideTheBoard DEF HandlersKnow
  <2>2. CASE handler' = [a \in Actors |-> NoHandler]
    BY <2>2 DEF HandlersKnow, KnowsItsPost
  <2> QED BY <2>1, <2>2
<1>3. PushReachesSubscribers'
  BY DEF PushInv, PushReachesSubscribers, Telling
<1> QED BY <1>1, <1>2, <1>3, BesideTheBoard DEF PushInv

\* Subscribing owes nothing yet; a subscription that ends takes what was owed
\* to it along, and the process all of them.
LEMMA SubscriptionStep ==
  ASSUME PushInv, \/ \E a \in Actors : Subscribe(a) \/ Unsubscribe(a)
                  \/ Crash
  PROVE  PushInv'
<1>t. PushTypeOK
  BY DEF PushInv
<1>1. ASSUME NEW a \in Actors, Subscribe(a) PROVE PushInv'
  <2>1. \A o \in owed' : Learning(o) => Learning(o)'
    BY <1>1, LearningKept DEF Subscribe, vars
  <2> QED BY <1>1, <1>t, <2>1, ClientStep DEF Subscribe, PushTypeOK
<1>2. ASSUME NEW a \in Actors, Unsubscribe(a) PROVE PushInv'
  <2>1. client' \in [Actors -> Clients] /\ \A b \in Actors \ {a} : client'[b] = client[b]
    BY <1>2, <1>t DEF Unsubscribe, PushTypeOK, Clients, Idle
  <2>2. \A o \in owed' : o \in Owed /\ o.actor # a
    BY <1>2, <1>t DEF Unsubscribe, PushTypeOK, Owed, OfActor
  <2>3. \A o \in owed' : Learning(o) => Learning(o)'
    BY <1>2, <2>1, <2>2, LearningKept DEF Unsubscribe, vars, Owed
  <2> QED BY <1>2, <1>t, <2>1, <2>2, <2>3, ClientStep DEF Unsubscribe, PushTypeOK
<1>3. CASE Crash
  <2>1. client' \in [Actors -> Clients]
    BY <1>3 DEF Crash, Clients, Idle
  <2> QED BY <1>3, <2>1, ClientStep DEF Crash
<1> QED BY <1>1, <1>2, <1>3

\* A reply owed for a watch is after that watch's cursor.
LEMMA OwedIsCounted ==
  ASSUME BoardInv, NEW o \in Owed, o.by = "watch", Outstanding(o)
  PROVE  \E w \in Watches(o.actor) : \E r \in Counted(w) : r.at = o.at
<1> DEFINE a == o.actor
<1>1. PICK t \in Threads : \E r \in Unread(<<a, t>>) : r.at = o.at
  BY DEF Outstanding, AllUnread
<1>2. PICK r \in Unread(<<a, t>>) : r.at = o.at
  BY <1>1
<1>3. HasRow(<<a, t>>) /\ r \in replies /\ r.thread = t /\ r.at > lastRead[<<a, t>>]
  BY <1>2 DEF Unread
<1>4. <<t, lastRead[<<a, t>>]>> \in Watches(a)
  BY <1>3 DEF Watches
<1>5. r \in Counted(<<t, lastRead[<<a, t>>]>>)
  BY <1>3 DEF Counted
<1> QED BY <1>2, <1>4, <1>5

\* A watch read from its table has a cursor that is a time.
LEMMA WatchesTyped ==
  ASSUME BoardInv, NEW a \in Actors
  PROVE  Watches(a) \subseteq Threads \X (Instants \cup {ZeroTime})
<1>1. \A t \in Threads : <<a, t>> \in Pairs
  BY DEF Pairs
<1>2. \A p \in Pairs : lastRead[p] \in Instants \cup {ZeroTime, NoRow}
  BY DEF BoardInv, TypeOK
<1>3. \A t \in Threads : HasRow(<<a, t>>) => lastRead[<<a, t>>] \in Instants \cup {ZeroTime}
  BY <1>1, <1>2 DEF HasRow
<1>4. ASSUME NEW w \in Watches(a) PROVE w \in Threads \X (Instants \cup {ZeroTime})
  <2>1. PICK t \in Threads : HasRow(<<a, t>>) /\ w = <<t, lastRead[<<a, t>>]>>
    BY DEF Watches
  <2> QED BY <1>3, <2>1
<1> QED BY <1>4

\* GetCatchUpSummary reads the watches, counts the replies of each, then the
\* mentions: a note that is acted upon counts whatever is still owed.
LEMMA ReadStep ==
  ASSUME PushInv, NEW a \in Actors,
         StartRead(a) \/ ReadWatches(a) \/ CountReplies(a) \/ CountMentions(a)
  PROVE  PushInv'
<1>t. PushTypeOK /\ BoardInv /\ client[a] \in Clients
  BY DEF PushInv, PushTypeOK
<1>1. PICK c \in Clients :
         /\ client' = [client EXCEPT ![a] = c]
         /\ \A o \in owed : o.actor = a /\ Learns(client[a], o) => Learns(c, o)
  <2>1. CASE StartRead(a)
    <3> DEFINE c == [Idle EXCEPT !.pc = "watches"]
    <3>1. c \in Clients /\ c.pc = "watches"
      BY DEF Clients, Idle
    <3> QED BY <2>1, <3>1 DEF StartRead, Knows, Learns
  <2>2. CASE ReadWatches(a)
    <3> DEFINE c == [client[a] EXCEPT !.pc = "replies", !.left = Watches(a)]
    <3>1. c \in Clients /\ c.pc = "replies" /\ c.left = Watches(a)
      BY <1>t, WatchesTyped DEF Clients
    <3>2. ASSUME NEW o \in owed, o.actor = a PROVE Learns(c, o)
      <4>1. o \in Owed /\ Outstanding(o)
        BY <1>t DEF PushTypeOK
      <4>2. o.by # "mention" => \E w \in c.left : \E r \in Counted(w) : r.at = o.at
        BY <1>t, <3>1, <3>2, <4>1, OwedIsCounted DEF Owed
      <4> HIDE DEF c
      <4> QED BY <3>1, <4>2 DEF Learns
    <3> QED BY <2>2, <3>1, <3>2 DEF ReadWatches, Knows
  <2>3. CASE CountReplies(a)
    <3>1. PICK w \in client[a].left :
             client' = [client EXCEPT ![a] =
                [client[a] EXCEPT !.left = @ \ {w}, !.some = @ \/ Counted(w) # {}]]
      BY <2>3 DEF CountReplies, Knows
    <3> DEFINE c == [client[a] EXCEPT !.left = @ \ {w}, !.some = @ \/ Counted(w) # {}]
    <3>2. /\ c \in Clients /\ c.note = client[a].note /\ c.pc = client[a].pc
          /\ c.left = client[a].left \ {w}
          /\ c.some = (client[a].some \/ Counted(w) # {})
      BY <1>t DEF Clients
    <3>3. client' = [client EXCEPT ![a] = c]
      BY <3>1
    <3> HIDE DEF c
    <3>4. ASSUME NEW o \in owed, Learns(client[a], o) PROVE Learns(c, o)
      <4>1. CASE client[a].note \/ client[a].pc \in {"watches", "badge"}
        BY <3>2, <4>1 DEF Learns
      <4>2. CASE client[a].pc = "replies" /\ (client[a].some \/ o.by = "mention")
        BY <3>2, <4>2 DEF Learns
      <4>3. CASE /\ client[a].pc = "replies"
                 /\ \E v \in client[a].left : \E r \in Counted(v) : r.at = o.at
        <5>1. PICK v \in client[a].left : \E r \in Counted(v) : r.at = o.at
          BY <4>3
        <5>2. v = w => c.some
          BY <3>2, <5>1
        <5>3. v # w => v \in c.left
          BY <3>2, <5>1
        <5> QED BY <3>2, <4>3, <5>1, <5>2, <5>3 DEF Learns
      <4> QED BY <3>4, <4>1, <4>2, <4>3 DEF Learns
    <3> QED BY <3>2, <3>3, <3>4
  <2>4. CASE CountMentions(a)
    <3> DEFINE found == client[a].some \/ UnseenMentions(a) # {}
               c == [client[a] EXCEPT !.pc = IF found THEN "badge" ELSE "idle", !.some = FALSE]
    <3>1. /\ c \in Clients /\ c.note = client[a].note
          /\ c.pc = IF found THEN "badge" ELSE "idle"
          /\ client' = [client EXCEPT ![a] = c]
      BY <1>t, <2>4 DEF Clients, CountMentions, Shows, Knows
    <3>2. ASSUME NEW o \in owed, o.actor = a, Learns(client[a], o) PROVE c.note \/ c.pc = "badge"
      <4>1. o.by = "mention" => UnseenMentions(a) # {}
        BY <1>t, <3>2 DEF PushTypeOK, Outstanding
      <4>2. client[a].pc = "replies" /\ client[a].left = {}
        BY <2>4 DEF CountMentions, Reads
      <4>3. client[a].note \/ client[a].some \/ o.by = "mention"
        BY <3>2, <4>2 DEF Learns
      <4> HIDE DEF c
      <4> QED BY <3>1, <4>1, <4>3
    <3> HIDE DEF c
    <3> QED BY <3>1, <3>2 DEF Learns
  <2> QED BY <2>1, <2>2, <2>3, <2>4
<1>2. UNCHANGED <<vars, agents, subscribed, handler, owed>>
  BY DEF StartRead, ReadWatches, CountReplies, CountMentions
<1>3. client' \in [Actors -> Clients]
  BY <1>1, <1>t DEF PushTypeOK
<1>4. ASSUME NEW o \in owed, Learning(o) PROVE Learning(o)'
  <2>1. o.actor \in Actors
    BY <1>t DEF PushTypeOK, Owed
  <2>2. CASE o.actor # a
    BY <1>1, <1>2, <1>4, <1>t, <2>1, <2>2, LearningKept DEF PushTypeOK, vars
  <2>3. CASE o.actor = a
    <3>1. Learns(c, o) /\ client'[a] = c
      BY <1>1, <1>4, <1>t, <2>3 DEF Learning, PushTypeOK
    <3>2. Learns(c, o)'
      BY <1>1, <1>2, <3>1 DEF Learns, Counted, vars
    <3> QED BY <2>3, <3>1, <3>2 DEF Learning, Learns
  <2> QED BY <2>2, <2>3
<1> QED BY <1>2, <1>3, <1>4, <1>t, ClientStep DEF PushTypeOK

-----------------------------------------------------------------------------
\* Every action keeps the invariant.
LEMMA PushNextPreserves == PushInv /\ [PushNext]_pvars => PushInv'
<1> SUFFICES ASSUME PushInv, [PushNext]_pvars PROVE PushInv'
  OBVIOUS
<1>1. ASSUME NEW a \in Actors, NEW t \in Threads, NEW ms \in SUBSET Actors,
             NEW at \in Instants, HumanCreate(a, t, ms, at) \/ HumanReply(a, t, ms, at)
      PROVE  PushInv'
  <2>1. Next
    BY <1>1 DEF HumanCreate, HumanReply, Silently, Next
  <2> QED BY <1>1, <2>1, SilentStep DEF HumanCreate, HumanReply, Silently
<1>2. ASSUME NEW a \in Actors, NEW t \in Threads, Watch(a, t) \/ Unwatch(a, t)
      PROVE  PushInv'
  <2>1. Next
    BY <1>2 DEF Watch, Unwatch, Silently, Next
  <2> QED BY <1>2, <2>1, SilentStep DEF Watch, Unwatch, Silently
<1>3. ASSUME NEW a \in Actors, Handle(a) PROVE PushInv'
  BY <1>3, ReadWatchersStep, WatchersFailStep, ReadMentionsStep, MentionsFailStep,
     SendStep, AnswerStep DEF Handle
<1>4. ASSUME NEW a \in Actors, AnswerLost(a) PROVE PushInv'
  <2>1. Next
    BY <1>4 DEF AnswerLost, Next
  <2> QED BY <1>4, <2>1, SilentStep DEF AnswerLost
<1>5. CASE UNCHANGED pvars
  <2>1. UNCHANGED <<vars, agents, subscribed, handler, client, owed>>
    BY <1>5 DEF pvars, push
  <2>2. \A o \in owed : Learning(o) => Learning(o)'
    BY <2>1, LearningKept DEF vars
  <2> QED BY <2>1, <2>2, ClientStep DEF PushInv, PushTypeOK
<1> QED BY <1>1, <1>2, <1>3, <1>4, <1>5, AgentCreateStep, AgentReplyStep,
           SubscriptionStep, ReadStep, CallCatchUpStep DEF PushNext

\* The invariant holds in every state of the server and its clients.
LEMMA AlwaysPushInv == PushSpec => []PushInv
  BY PushInitEstablishes, PushNextPreserves, PTL DEF PushSpec

-----------------------------------------------------------------------------
\* Every variable keeps its type, and no handler tells its own caller.
THEOREM PushTypeCorrect == PushSpec => []PushTypeOK
<1>1. PushInv => PushTypeOK
  BY DEF PushInv
<1> QED BY <1>1, AlwaysPushInv, PTL

\* tool_reply.go, tool_create_thread.go: a subscriber that is owed a push for
\* a post it has not read learns of it, whatever posts, watches and reads come
\* between the commit and the lookups.
THEOREM SubscribersAreTold == PushSpec => []PushReachesSubscribers
<1>1. PushInv => PushReachesSubscribers
  BY DEF PushInv
<1> QED BY <1>1, AlwaysPushInv, PTL

-----------------------------------------------------------------------------
\* Tools, REST handlers, lookups, subscriptions and crashes do to the tables
\* what a board operation does, or nothing.
LEMMA PushStepsTheBoard == [PushNext]_pvars => [Next]_vars
<1> SUFFICES ASSUME [PushNext]_pvars PROVE [Next]_vars
  OBVIOUS
<1>1. ASSUME NEW a \in Actors, NEW t \in Threads, NEW ms \in SUBSET Actors, NEW at \in Instants,
             \/ HumanCreate(a, t, ms, at) \/ HumanReply(a, t, ms, at) \/ AgentCreate(a, t, ms, at)
             \/ \E es \in SUBSET Actors : AgentReply(a, t, es, ms, at)
      PROVE  Next
  BY <1>1 DEF HumanCreate, HumanReply, AgentCreate, AgentReply, Silently, Next
<1>2. ASSUME NEW a \in Actors, NEW t \in Threads, Watch(a, t) \/ Unwatch(a, t) PROVE Next
  BY <1>2 DEF Watch, Unwatch, Silently, Next
<1>3. ASSUME NEW a \in Actors, CallCatchUp(a) \/ AnswerLost(a) PROVE Next
  BY <1>3 DEF CallCatchUp, AnswerLost, Next
<1>4. ASSUME NEW a \in Actors, Handle(a) PROVE UNCHANGED vars
  BY <1>4 DEF Handle, ReadWatchers, WatchersFail, ReadMentions, MentionsFail, Send, SendFails,
              Answer, Mutes
<1>5. ASSUME NEW a \in Actors,
             \/ Subscribe(a) \/ Unsubscribe(a) \/ StartRead(a) \/ ReadWatches(a)
             \/ CountReplies(a) \/ CountMentions(a)
      PROVE  UNCHANGED vars
  BY <1>5 DEF Subscribe, Unsubscribe, StartRead, ReadWatches, CountReplies, CountMentions
<1>6. CASE Crash
  BY <1>6 DEF Crash
<1>7. CASE UNCHANGED pvars
  BY <1>7 DEF pvars
<1> QED BY <1>1, <1>2, <1>3, <1>4, <1>5, <1>6, <1>7 DEF PushNext

\* Under the MCP tools, the REST handlers and the pushes between them the board
\* is the board: what is proved of it holds with all of them at work.
THEOREM PushKeepsTheBoard == PushSpec => Spec /\ InboxSpec
<1>1. PushInit => Init
  BY DEF PushInit
<1>2. PushSpec => Spec
  BY <1>1, PushStepsTheBoard, PTL DEF PushSpec, Spec
<1> QED BY <1>2, BoardImplementsInbox
=============================================================================
