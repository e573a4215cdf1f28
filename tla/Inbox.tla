-------------------------------- MODULE Inbox --------------------------------
(***************************************************************************)
(* What the board promises an actor, with no timestamps, no cursors and no *)
(* watch tables: in the threads it watches every reply waits for it, once, *)
(* until catch_up hands it over or the actor replies there itself; a post  *)
(* that mentions it waits until catch_up tells of it.  Board keeps one     *)
(* timestamp per watch instead of what waits; it implements this.          *)
(***************************************************************************)
CONSTANTS Actors, Threads,
          Stamps    \* what tells one post from another

VARIABLES
    opened,     \* threads that exist
    watching,   \* pairs <<actor, thread>>
    posted,     \* the replies there are
    unread,     \* the replies that wait for an actor
    mail,       \* the mentions that wait for an actor
    got, told   \* what catch_up handed over, as in Board

vars == <<opened, watching, posted, unread, mail, got, told>>

Init ==
    /\ opened = {} /\ watching = {} /\ posted = {}
    /\ unread = [a \in Actors |-> {}] /\ mail = [a \in Actors |-> {}]
    /\ got = [a \in Actors |-> {}] /\ told = {}

\* Everyone a post mentions but its author is to be told.
Mentioning(a, ms, at) ==
    mail' = [b \in Actors |-> IF b \in ms \ {a} THEN mail[b] \cup {[actor |-> b, at |-> at]}
                                                ELSE mail[b]]

Of(rs, t) == {r \in rs : r.thread = t}

CreateThread(a, t, ms, at) ==
    /\ t \notin opened
    /\ opened' = opened \cup {t}
    /\ watching' = watching \cup {<<a, t>>}
    /\ Mentioning(a, ms, at)
    /\ UNCHANGED <<posted, unread, got, told>>

\* The reply waits for the others that watch; whoever begins to watch by it
\* finds the whole thread; its author has read the thread.
AddReply(a, t, extras, ms, at) ==
    LET r == [thread |-> t, author |-> a, at |-> at]
    IN  /\ t \in opened /\ r \notin posted
        /\ posted' = posted \cup {r}
        /\ watching' = watching \cup ((extras \cup {a}) \X {t})
        /\ unread' = [b \in Actors |->
               CASE b = a -> unread[b] \ Of(posted, t)
                 [] b # a /\ <<b, t>> \in watching -> unread[b] \cup {r}
                 [] b \in extras \ {a} /\ <<b, t>> \notin watching -> unread[b] \cup Of(posted', t)
                 [] OTHER -> unread[b]]
        /\ Mentioning(a, ms, at)
        /\ UNCHANGED <<opened, got, told>>

WatchThread(a, t) ==
    /\ t \in opened
    /\ watching' = watching \cup {<<a, t>>}
    /\ unread' = IF <<a, t>> \in watching THEN unread
                 ELSE [unread EXCEPT ![a] = @ \cup Of(posted, t)]
    /\ UNCHANGED <<opened, posted, mail, got, told>>

UnwatchThread(a, t) ==
    /\ watching' = watching \ {<<a, t>>}
    /\ unread' = [unread EXCEPT ![a] = @ \ Of(posted, t)]
    /\ got' = [got EXCEPT ![a] = @ \ Of(posted, t)]
    /\ UNCHANGED <<opened, posted, mail, told>>

\* Hands over what waits.
CatchUp(a) ==
    /\ got' = [got EXCEPT ![a] = @ \cup unread[a]]
    /\ unread' = [unread EXCEPT ![a] = {}]
    /\ told' = told \cup mail[a]
    /\ mail' = [mail EXCEPT ![a] = {}]
    /\ UNCHANGED <<opened, watching, posted>>

Next ==
    \/ \E a \in Actors, t \in Threads, ms \in SUBSET Actors, at \in Stamps :
          \/ CreateThread(a, t, ms, at)
          \/ \E extras \in SUBSET Actors : AddReply(a, t, extras, ms, at)
    \/ \E a \in Actors, t \in Threads : WatchThread(a, t) \/ UnwatchThread(a, t)
    \/ \E a \in Actors : CatchUp(a)

Spec == Init /\ [][Next]_vars
=============================================================================
