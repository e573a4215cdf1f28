------------------------------ MODULE ThreadList ------------------------------
(***************************************************************************)
(* The page that lists threads, ThreadList.jsx: it loads a list or a       *)
(* search when its route changes, "Load more" appends the next page, and   *)
(* answers replace or extend what is shown in the order they arrive.       *)
(* Threads are created, resolved and reopened meanwhile.  An agent that    *)
(* walks list_threads keeps the same state, with limits of its own.        *)
(*                                                                         *)
(* A query is one statement, and its answer arrives with it: a change      *)
(* between the two is one after the answer.                                *)
(***************************************************************************)
EXTENDS Listing

CONSTANTS
    Filters,    \* routes without a query: [status, tags]
    Queries,    \* search queries, as sets of words
    Limits,     \* limits requests ask for; the page sends none, which is 0
    Requests,   \* requests under way at the same time
    MaxShown    \* bound: "Load more" is not pressed with more threads shown

ASSUME LimitTypes == Limits \subseteq Int

VARIABLES
    route,     \* the filter or query of the page's address
    shown,     \* the threads on the page, in order
    cursor,    \* nextCursor
    pending,   \* the requests under way
    walk,      \* history: all that is shown was loaded for this route, one
               \* request after the other
    owed,      \* history: the threads that match the route since it was loaded,
               \* none of a search whose limit was full
    ever       \* history: the threads that matched it at some time since

page == <<route, shown, cursor, pending>>
past == <<walk, owed, ever>>
vars == <<threads, page, past>>

Lists    == [kind : {"list"}, filter : Filters]
Searches == [kind : {"search"}, words : Queries]
Routes   == Lists \cup Searches
NoRequest == [pc |-> "none"]

\* `there`: history, the threads that existed at a search's first statement.
PageRequests   == [pc : {"list"}, route : Lists, cursor : Cursors, limit : Limits]
SearchRequests == [pc : {"text"}, route : Searches, limit : Limits]
TagRequests(r) == r.pc = "tags" /\ r.route \in Searches /\ r.limit \in Limits
                    /\ Range(r.found) \subseteq Ids /\ r.there \subseteq Ids

IsRequest(r) == r = NoRequest \/ r \in PageRequests \/ r \in SearchRequests \/ TagRequests(r)

TypeOK ==
    /\ threads \in [Ids -> Rows \cup {NoThread}]
    /\ route \in Routes
    /\ shown \in Seq(Ids)
    /\ cursor \in Cursors
    /\ route.kind = "search" /\ walk => cursor = NoCursor
    /\ \A k \in Requests : IsRequest(pending[k])
    /\ owed \subseteq Created /\ ever \subseteq Created

First(r, limit) ==
    IF r.kind = "list"
    THEN [pc |-> "list", route |-> r, cursor |-> NoCursor, limit |-> limit]
    ELSE [pc |-> "text", route |-> r, limit |-> limit]

Quiet == \A k \in Requests : pending[k] = NoRequest

\* The page has been opened at some address and asks for its threads.
Init ==
    /\ threads = [t \in Ids |-> NoThread]
    /\ route \in Routes
    /\ shown = <<>> /\ cursor = NoCursor
    /\ \E k \in Requests, limit \in Limits :
          pending = [j \in Requests |-> IF j = k THEN First(route, limit) ELSE NoRequest]
    /\ walk = FALSE /\ owed = {} /\ ever = {}

-----------------------------------------------------------------------------
\* The threads of the route now, and after a change of the table.
Wanted(r) ==
    IF r.kind = "list" THEN Matching(r.filter)
    ELSE TextMatches(r.words) \cup {t \in Created : HasTag(t, r.words)}

Change(step) ==
    /\ step
    /\ UNCHANGED <<page, walk>>
    /\ owed' = IF walk THEN owed \cap Wanted(route)' ELSE {}
    /\ ever' = IF walk THEN ever \cup Wanted(route)' ELSE {}

Create(t, at, content) == Change(CreateThread(t, at, content))
Resolve(t) == Change(SetThreadStatus(t, "resolved"))
Reopen(t)  == Change(SetThreadStatus(t, "open"))

-----------------------------------------------------------------------------
NoWalk == walk' = FALSE /\ owed' = {} /\ ever' = {}

Send(k, r) == pending[k] = NoRequest /\ pending' = [pending EXCEPT ![k] = r]
Done(k)    == pending' = [pending EXCEPT ![k] = NoRequest]

\* A page that an error took down is opened again.  (Another one may be at any
\* time: it is then where a page opened at Init is after the same creations.)
OpenAgain(k, r, limit) ==
    /\ shown = <<>> /\ cursor = NoCursor /\ Quiet
    /\ route' = r
    /\ Send(k, First(r, limit))
    /\ NoWalk
    /\ UNCHANGED <<threads, shown, cursor>>

\* The effect of a new route, or of another status beside the same query (which
\* the search does not use); what is on the page stays until the answer.
Navigate(k, r, limit) ==
    /\ r # route \/ r.kind = "search"
    /\ route' = r
    /\ Send(k, First(r, limit))
    /\ NoWalk
    /\ UNCHANGED <<threads, shown, cursor>>

\* Nothing keeps the button from being pressed while an answer is awaited.
LoadMore(k, limit) ==
    /\ route.kind = "list" /\ cursor # NoCursor
    /\ Len(shown) < MaxShown
    /\ Send(k, [pc |-> "list", route |-> route, cursor |-> cursor, limit |-> limit])
    /\ IF Quiet THEN UNCHANGED past ELSE NoWalk
    /\ UNCHANGED <<threads, route, shown, cursor>>

\* The answer of request k fills the page from its beginning: a walk starts
\* there if k was the route's and the last under way.
StartsWalk(k, there) ==
    IF pending[k].route = route /\ (\A j \in Requests \ {k} : pending[j] = NoRequest)
    THEN walk' = TRUE /\ owed' = there /\ ever' = Wanted(route)
    ELSE NoWalk

ListAnswer(k) ==
    LET r == pending[k]
    IN  /\ r.pc = "list"
        /\ \E answer \in ListThreads(r.route.filter, r.cursor, r.limit) :
              /\ IF r.cursor = NoCursor
                 THEN shown' = answer.threads /\ StartsWalk(k, Wanted(route))
                 ELSE shown' = shown \o answer.threads /\ UNCHANGED past
              /\ cursor' = answer.next
        /\ Done(k)
        /\ UNCHANGED <<threads, route>>

SearchTextAnswer(k) ==
    LET r == pending[k]
    IN  /\ r.pc = "text"
        /\ \E found \in SearchText(r.route.words, r.limit) :
              pending' = [pending EXCEPT ![k] =
                 [pc |-> "tags", route |-> r.route, limit |-> r.limit, found |-> found,
                  there |-> Wanted(r.route)]]
        /\ UNCHANGED <<threads, route, shown, cursor, past>>

\* Mutant: the list's cursor is kept.
SearchAnswerKeepingCursor(k) ==
    LET r == pending[k]
    IN  /\ r.pc = "tags"
        /\ shown' \in SearchTags(r.route.words, r.limit, r.found)
        /\ StartsWalk(k, IF Len(shown') < Clamp(r.limit) THEN r.there ELSE {})
        /\ Done(k)
        /\ UNCHANGED <<threads, route, cursor>>

SearchAnswer(k) ==
    LET r == pending[k]
    IN  /\ r.pc = "tags"
        /\ shown' \in SearchTags(r.route.words, r.limit, r.found)
        /\ cursor' = NoCursor
        /\ StartsWalk(k, IF Len(shown') < Clamp(r.limit) THEN r.there ELSE {})
        /\ Done(k)
        /\ UNCHANGED <<threads, route>>

\* The network fails, or an agent's tool call: an error is shown above what was
\* there.
RequestFails(k) ==
    /\ pending[k] # NoRequest
    /\ Done(k)
    /\ UNCHANGED <<threads, route, shown, cursor, past>>

\* The server answers with an error's JSON, which is taken for a page: it has no
\* threads to render, and React takes the whole page down.
ErrorAnswer(k) ==
    /\ pending[k] # NoRequest
    /\ shown' = <<>> /\ cursor' = NoCursor
    /\ pending' = [j \in Requests |-> NoRequest]
    /\ NoWalk
    /\ UNCHANGED <<threads, route>>

Next ==
    \/ \E t \in Ids :
          \/ \E at \in Instants, content \in Contents : Create(t, at, content)
          \/ Resolve(t) \/ Reopen(t)
    \/ \E k \in Requests :
          \/ \E limit \in Limits :
                \/ LoadMore(k, limit)
                \/ \E r \in Routes : Navigate(k, r, limit) \/ OpenAgain(k, r, limit)
          \/ ListAnswer(k) \/ SearchTextAnswer(k) \/ SearchAnswer(k)
          \/ RequestFails(k) \/ ErrorAnswer(k)

Spec == Init /\ [][Next]_vars

-----------------------------------------------------------------------------
Listed == walk /\ route.kind = "list"

\* "Load more" and search show a thread once, and a list is newest first
\* throughout, although threads tie on created_at, appear and change status
\* between two pages.
ShownOnce ==
    /\ walk => IsInjective(shown)
    /\ Listed => \A i, j \in DOMAIN shown : i < j => <<shown[i], shown[j]>> \in Newer

\* No page border swallows a thread: one that matched the filter since the
\* first page is on the page or still ahead of the cursor.
ListMissesNothing ==
    Listed => \A t \in owed :
        t \in Range(shown) \/ (cursor # NoCursor /\ Reaches(cursor, t))

\* A page shows no thread that never matched its filter while it was read.
ListShowsMatches == Listed => Range(shown) \subseteq ever

\* Search fills its limit: a thread it leaves out although it matched by text
\* or by tag when the search began was left out for want of room.
SearchMissesNothing == walk /\ route.kind = "search" => owed \subseteq Range(shown)
=============================================================================
