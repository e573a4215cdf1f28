--------------------------------- MODULE Push ---------------------------------
(***************************************************************************)
(* Push on top of Board: an agent subscribes to its catch-up resource, the *)
(* reply and create_thread tools send resources/updated after their commit *)
(* to the watchers and the mentioned they then look up, and the client     *)
(* that is told reads the resource's counts and calls catch_up if they are *)
(* not zero.  Humans post over REST, which sends nothing.                  *)
(*                                                                         *)
(* The subscriber's side is not in this repository; it is taken to do what *)
(* the resource's description is for.  Resolving and reopening threads, in *)
(* Board, sends nothing and changes no count; it is left out here.         *)
(***************************************************************************)
EXTENDS Board

VARIABLES
    agents,      \* the actors that speak MCP; the others are humans
    subscribed,  \* agents with a subscription on a standing stream
    handler,     \* an agent's tool call between its commit and its answer
    client,      \* what a subscriber knows
    owed         \* history: posts an agent is to be told of and has not read

push  == <<agents, subscribed, handler, client, owed>>
pvars == <<vars, push>>

NoHandler == [pc |-> "none"]
Handlers  == {NoHandler}
    \cup [pc : {"watchers", "mentions"}, thread : Threads, at : Instants, targets : SUBSET Actors]
    \cup [pc : {"send"}, at : Instants, targets : SUBSET Actors]

\* `note`: a notification the client has not acted upon.  Of the read under way,
\* `left`: the watches whose replies are still to be counted, each with the
\* cursor it was read with; `some`: a reply was counted.
Idle    == [note |-> FALSE, pc |-> "idle", left |-> {}, some |-> FALSE]
Clients == [note : BOOLEAN, pc : {"idle", "watches", "replies", "badge"},
            left : SUBSET (Threads \X (Instants \cup {ZeroTime})), some : BOOLEAN]
Owed    == [actor : Actors, at : Instants, by : {"watch", "mention"}]

\* The resource counts the post for the actor.
Outstanding(o) ==
    IF o.by = "mention" THEN [actor |-> o.actor, at |-> o.at] \in UnseenMentions(o.actor)
                        ELSE \E r \in AllUnread(o.actor) : r.at = o.at

PushTypeOK ==
    /\ agents \subseteq Actors /\ subscribed \subseteq agents
    /\ handler \in [Actors -> Handlers]
    /\ \A a \in Actors : handler[a] # NoHandler => a \in agents /\ a \notin handler[a].targets
    /\ client \in [Actors -> Clients]
    /\ owed \subseteq Owed
    /\ \A o \in owed : o.actor \in subscribed /\ Outstanding(o)

PushInit ==
    /\ Init
    /\ agents \in SUBSET Actors
    /\ subscribed = {}
    /\ handler = [a \in Actors |-> NoHandler]
    /\ client = [a \in Actors |-> Idle]
    /\ owed = {}

-----------------------------------------------------------------------------
\* What is owed after a step: what was, with `new` and without `gone`, as far
\* as it is still unread.
Owes(new, gone) == owed' = {o \in (owed \cup new) \ gone : Outstanding(o)'}

OfActor(a) == [actor : {a}, at : Instants, by : {"watch", "mention"}]
OfPost(at, by) == [actor : Actors, at : {at}, by : {by}]

\* A board operation that notifies nobody.
Silently(step, gone) == step /\ UNCHANGED <<agents, subscribed, handler, client>> /\ Owes({}, gone)

\* Humans: the REST handlers.
HumanCreate(a, t, ms, at) == a \notin agents /\ Silently(CreateThread(a, t, ms, at), {})
HumanReply(a, t, ms, at)  == a \notin agents /\ Silently(AddReply(a, t, {}, ms, at), {})

\* Agents: the tools that notify nobody.
Watch(a, t)   == a \in agents /\ Silently(WatchThread(a, t), {})
Unwatch(a, t) ==
    a \in agents /\ Silently(UnwatchThread(a, t), {o \in OfActor(a) : o.by = "watch"})

\* Mutant: the tool answers without notifying.
BeginsNothing(a, pc, t, at) == UNCHANGED handler

\* The posting tools: the transaction, and then the handler's lookups.
Begins(a, pc, t, at) ==
    handler' = [handler EXCEPT ![a] = [pc |-> pc, thread |-> t, at |-> at, targets |-> {}]]

MentionsOwed(ms, at) == [actor : ms \cap subscribed, at : {at}, by : {"mention"}]
WatchesOwed(ws, at)  == [actor : ws \cap subscribed, at : {at}, by : {"watch"}]

AgentCreate(a, t, ms, at) ==
    /\ a \in agents /\ handler[a] = NoHandler
    /\ CreateThread(a, t, ms, at)
    /\ Begins(a, "mentions", t, at)
    /\ Owes(MentionsOwed(ms \ {a}, at), {})
    /\ UNCHANGED <<agents, subscribed, client>>

AgentReply(a, t, extras, ms, at) ==
    /\ a \in agents /\ handler[a] = NoHandler
    /\ AddReply(a, t, extras, ms, at)
    /\ Begins(a, "watchers", t, at)
    /\ Owes(MentionsOwed(ms \ {a}, at)
              \cup WatchesOwed({b \in Actors \ {a} : <<b, t>> \in watcher'}, at), {})
    /\ UNCHANGED <<agents, subscribed, client>>

-----------------------------------------------------------------------------
\* notifyReplyTargets and notifyCreateThreadTargets.
Mutes(gone) ==
    /\ owed' = owed \ gone
    /\ UNCHANGED <<vars, agents, subscribed>>

\* Mutant: watchers are left to be found by the mentions' lookup.
SkipWatchers(a) ==
    /\ handler[a].pc = "watchers"
    /\ handler' = [handler EXCEPT ![a].pc = "mentions"]
    /\ Mutes({}) /\ UNCHANGED client

\* Mutant: the replier is told of its own reply.
ReadAllWatchers(a) ==
    LET h == handler[a]
    IN  /\ h.pc = "watchers"
        /\ handler' = [handler EXCEPT ![a] =
               [pc |-> "mentions", thread |-> h.thread, at |-> h.at,
                targets |-> {b \in Actors : <<b, h.thread>> \in watcher}]]
        /\ Mutes({}) /\ UNCHANGED client

ReadWatchers(a) ==
    LET h == handler[a]
    IN  /\ h.pc = "watchers"
        /\ handler' = [handler EXCEPT ![a] =
               [pc |-> "mentions", thread |-> h.thread, at |-> h.at,
                targets |-> {b \in Actors \ {a} : <<b, h.thread>> \in watcher}]]
        /\ Mutes({}) /\ UNCHANGED client

WatchersFail(a) ==
    /\ handler[a].pc = "watchers"
    /\ handler' = [handler EXCEPT ![a].pc = "mentions"]
    /\ Mutes(OfPost(handler[a].at, "watch")) /\ UNCHANGED client

ReadMentions(a) ==
    LET h == handler[a]
    IN  /\ h.pc = "mentions"
        /\ handler' = [handler EXCEPT ![a] =
               [pc |-> "send", at |-> h.at,
                targets |-> h.targets \cup {m.actor : m \in {n \in mentions : n.at = h.at}}]]
        /\ Mutes({}) /\ UNCHANGED client

MentionsFail(a) ==
    LET h == handler[a]
    IN  /\ h.pc = "mentions"
        /\ handler' = [handler EXCEPT ![a] = [pc |-> "send", at |-> h.at, targets |-> h.targets]]
        /\ Mutes(OfPost(h.at, "mention")) /\ UNCHANGED client

\* ResourceUpdated reaches the sessions that are subscribed at that moment.
Send(a, b) ==
    /\ handler[a].pc = "send" /\ b \in handler[a].targets
    /\ handler' = [handler EXCEPT ![a].targets = @ \ {b}]
    /\ client' = IF b \in subscribed THEN [client EXCEPT ![b].note = TRUE] ELSE client
    /\ Mutes({})

SendFails(a, b) ==
    /\ handler[a].pc = "send" /\ b \in handler[a].targets
    /\ handler' = [handler EXCEPT ![a].targets = @ \ {b}]
    /\ Mutes({o \in OfActor(b) : o.at = handler[a].at}) /\ UNCHANGED client

Answer(a) ==
    /\ handler[a].pc = "send" /\ handler[a].targets = {}
    /\ handler' = [handler EXCEPT ![a] = NoHandler]
    /\ Mutes({}) /\ UNCHANGED client

Handle(a) ==
    \/ ReadWatchers(a) \/ WatchersFail(a) \/ ReadMentions(a) \/ MentionsFail(a) \/ Answer(a)
    \/ \E b \in Actors : Send(a, b) \/ SendFails(a, b)

-----------------------------------------------------------------------------
\* Subscriptions.  A session is the process's own: it ends with the stream,
\* and all of them with the process, and so do the handlers.
Subscribe(a) ==
    /\ a \in agents
    /\ subscribed' = subscribed \cup {a}
    /\ UNCHANGED <<vars, agents, handler, client, owed>>

Unsubscribe(a) ==
    /\ subscribed' = subscribed \ {a}
    /\ client' = [client EXCEPT ![a] = Idle]
    /\ owed' = owed \ OfActor(a)
    /\ UNCHANGED <<vars, agents, handler>>

Crash ==
    /\ subscribed' = {}
    /\ handler' = [a \in Actors |-> NoHandler]
    /\ client' = [a \in Actors |-> Idle]
    /\ owed' = {}
    /\ UNCHANGED <<vars, agents>>

-----------------------------------------------------------------------------
\* The client and the resource: GetCatchUpSummary reads the watches, counts the
\* replies of one after the other, and then the mentions, a statement each.
Knows(a, new) == client' = [client EXCEPT ![a] = new]
Reads(a, pc)  == a \in subscribed /\ client[a].pc = pc

StartRead(a) ==
    /\ Reads(a, "idle") /\ client[a].note
    /\ Knows(a, [Idle EXCEPT !.pc = "watches"])
    /\ UNCHANGED <<vars, agents, subscribed, handler, owed>>

Watches(a) == {<<t, lastRead[<<a, t>>]>> : t \in {u \in Threads : HasRow(<<a, u>>)}}

ReadWatches(a) ==
    /\ Reads(a, "watches")
    /\ Knows(a, [client[a] EXCEPT !.pc = "replies", !.left = Watches(a)])
    /\ UNCHANGED <<vars, agents, subscribed, handler, owed>>

\* The replies after the cursor a watch was read with.
Counted(w) == {r \in replies : r.thread = w[1] /\ r.at > w[2]}

CountReplies(a) ==
    /\ Reads(a, "replies")
    /\ \E w \in client[a].left :
          Knows(a, [client[a] EXCEPT !.left = @ \ {w}, !.some = @ \/ Counted(w) # {}])
    /\ UNCHANGED <<vars, agents, subscribed, handler, owed>>

\* The counts are shown if they are not zero.
Shows(a, some) ==
    Knows(a, [client[a] EXCEPT !.pc = IF some THEN "badge" ELSE "idle", !.some = FALSE])

\* Mutant: the summary is of replies alone.
CountNoMentions(a) ==
    /\ Reads(a, "replies") /\ client[a].left = {}
    /\ Shows(a, client[a].some)
    /\ UNCHANGED <<vars, agents, subscribed, handler, owed>>

CountMentions(a) ==
    /\ Reads(a, "replies") /\ client[a].left = {}
    /\ Shows(a, client[a].some \/ UnseenMentions(a) # {})
    /\ UNCHANGED <<vars, agents, subscribed, handler, owed>>

\* catch_up, called for the badge or out of habit.
CallCatchUp(a) ==
    /\ a \in agents
    /\ CatchUp(a)
    /\ Knows(a, [client[a] EXCEPT !.pc = IF @ = "badge" THEN "idle" ELSE @])
    /\ Owes({}, {})
    /\ UNCHANGED <<agents, subscribed, handler>>

\* Its answer is lost on the way, with the marks committed: nothing shows the
\* client what it missed.
AnswerLost(a) ==
    /\ a \in agents
    /\ CatchUp(a)
    /\ Owes({}, {})
    /\ UNCHANGED <<agents, subscribed, handler, client>>

FollowsUp(a) ==
    \/ StartRead(a) \/ ReadWatches(a) \/ CountReplies(a) \/ CountMentions(a)
    \/ client[a].pc = "badge" /\ CallCatchUp(a)

-----------------------------------------------------------------------------
PushNext ==
    \/ \E a \in Actors, t \in Threads, ms \in SUBSET Actors, at \in Instants :
          \/ HumanCreate(a, t, ms, at) \/ HumanReply(a, t, ms, at) \/ AgentCreate(a, t, ms, at)
          \/ \E es \in SUBSET Actors : AgentReply(a, t, es, ms, at)
    \/ \E a \in Actors, t \in Threads : Watch(a, t) \/ Unwatch(a, t)
    \/ \E a \in Actors :
          \/ Handle(a) \/ Subscribe(a) \/ Unsubscribe(a)
          \/ StartRead(a) \/ ReadWatches(a) \/ CountReplies(a) \/ CountMentions(a)
          \/ CallCatchUp(a) \/ AnswerLost(a)
    \/ Crash

\* The server runs the handlers it began and the client acts on what it is
\* told; nobody is bound to post, subscribe or poll.
Fairness ==
    \A a \in Actors : WF_pvars(Handle(a)) /\ WF_pvars(FollowsUp(a))

PushSpec == PushInit /\ [][PushNext]_pvars /\ Fairness

-----------------------------------------------------------------------------
\* A client in this state will count the post: it is told and has not counted
\* yet, or has counted something.
Learns(c, o) ==
    \/ c.note \/ c.pc \in {"watches", "badge"}
    \/ /\ c.pc = "replies"
       /\ \/ c.some \/ o.by = "mention"
          \/ \E w \in c.left : \E r \in Counted(w) : r.at = o.at

Learning(o) == Learns(client[o.actor], o)

\* The handler of the post has its actor among the targets or still to find.
Telling(a, o) ==
    LET h == handler[a]
    IN  /\ h # NoHandler /\ h.at = o.at
        /\ \/ o.actor \in h.targets
           \/ h.pc = "watchers"
           \/ h.pc = "mentions" /\ o.by = "mention"

\* "receives notifications/resources/updated ... when it is mentioned or a
\* thread it watches gets a reply": while a post over MCP is unread for an
\* agent that was subscribed and watching, or mentioned, when it was
\* committed, the client is about to learn of it or the handler about to tell
\* it, unless a lookup or the send failed.
PushReachesSubscribers == \A o \in owed : Learning(o) \/ \E a \in Actors : Telling(a, o)

\* "so it can call catch_up immediately instead of polling": what a
\* subscriber is owed a push for, it comes to read without polling.
SubscribersCatchUp ==
    \A a \in Actors : owed \cap OfActor(a) # {} ~> owed \cap OfActor(a) = {}
=============================================================================
