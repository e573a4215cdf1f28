-------------------------------- MODULE Listing --------------------------------
(***************************************************************************)
(* The threads table as ListThreads and Search query it: pages of threads  *)
(* newest first, continued from a cursor, and full-text matches followed   *)
(* by tag matches.                                                         *)
(*                                                                         *)
(* A thread's id is a number for the order of ids; its text is the set of  *)
(* words a full-text query would find in its title and body.               *)
(***************************************************************************)
EXTENDS Integers, Sequences, FiniteSets, FiniteSetsExt, Functions

CONSTANTS
    Ids,           \* thread ids, in the order of the id column
    Instants,      \* timestamps a thread may carry
    Contents,      \* the texts and tags new threads are given
    DefaultLimit,  \* 20 in the code
    MaxLimit       \* 100 in the code

ASSUME IdsAssumption ==
    IsFiniteSet(Ids) /\ Ids \subseteq Nat \ {0} /\ Instants \subseteq Nat
ASSUME ContentsAssumption == \A c \in Contents : DOMAIN c = {"tags", "text"}
ASSUME LimitsAssumption ==
    DefaultLimit \in Nat /\ MaxLimit \in Nat /\ 0 < DefaultLimit /\ DefaultLimit <= MaxLimit

VARIABLE threads   \* threads table: the row of an id, or NoThread

NoThread == [none |-> TRUE]
NoCursor == [at |-> 0, id |-> 0]    \* the empty cursor string

Rows    == [at : Instants, status : {"open", "resolved"}, content : Contents]
Cursors == [at : Instants, id : Ids] \cup {NoCursor}
Created == {t \in Ids : threads[t] # NoThread}

-----------------------------------------------------------------------------
\* created_at is taken before the commit, and clocks repeat themselves: a new
\* thread may be older than one that is listed already, or as old.
CreateThread(t, at, content) ==
    /\ t \notin Created
    /\ threads' = [threads EXCEPT ![t] = [at |-> at, status |-> "open", content |-> content]]

SetThreadStatus(t, status) ==
    /\ t \in Created
    /\ threads' = [threads EXCEPT ![t].status = status]

-----------------------------------------------------------------------------
Clamp(limit) == IF limit <= 0 \/ limit > MaxLimit THEN DefaultLimit ELSE limit

\* The answers of SELECT ... ORDER BY ... LIMIT n over the rows S, for the
\* pairs of threads of which the first comes before the second.
Answers(S, n, before) ==
    {s \in [1 .. Min({n, Cardinality(S)}) -> S] :
        /\ IsInjective(s)
        /\ \A i, j \in DOMAIN s : i < j => <<s[j], s[i]>> \notin before
        /\ \A t \in S \ Range(s), i \in DOMAIN s : <<t, s[i]>> \notin before}

Younger == {q \in Created \X Created : threads[q[1]].at > threads[q[2]].at}
Newer   == Younger \cup {q \in Created \X Created :
                            threads[q[1]].at = threads[q[2]].at /\ q[1] > q[2]}
Unordered == {}

HasStatus(t, status) == status = "all" \/ threads[t].status = status
HasTag(t, tags)      == threads[t].content.tags \cap tags # {}
Matching(f) == {t \in Created : HasStatus(t, f.status) /\ (f.tags = {} \/ HasTag(t, f.tags))}

\* Mutant: the cursor compares times alone.
ReachesOlder(c, t) == c = NoCursor \/ threads[t].at < c.at

Reaches(c, t) ==
    \/ c = NoCursor
    \/ threads[t].at < c.at
    \/ threads[t].at = c.at /\ t < c.id

\* Mutant: OR binds weaker than the AND that joins it to the other conditions.
ContinuedUnparenthesised(f, c) ==
    {t \in Matching(f) : c = NoCursor \/ threads[t].at < c.at}
      \cup {t \in Created : c # NoCursor /\ threads[t].at = c.at /\ t < c.id}

\* The rows ListThreads selects, before LIMIT.
Continued(f, c) == {t \in Matching(f) : Reaches(c, t)}

\* Mutant: the cursor is taken from the row that was only fetched to look ahead.
NextCursorOfLookAhead(rows, n) ==
    IF Len(rows) > n THEN [at |-> threads[rows[n + 1]].at, id |-> rows[n + 1]] ELSE NoCursor

NextCursor(rows, n) ==
    IF Len(rows) > n THEN [at |-> threads[rows[n]].at, id |-> rows[n]] ELSE NoCursor

\* One row more than the limit is fetched to know whether a next page exists.
ListThreads(f, c, limit) ==
    LET n == Clamp(limit)
    IN  {[threads |-> SubSeq(rows, 1, Min({n, Len(rows)})), next |-> NextCursor(rows, n)] :
            rows \in Answers(Continued(f, c), n + 1, Newer)}

\* Every word of the query is in the text; ranking is the database's.
TextMatches(words) == {t \in Created : words # {} /\ words \subseteq threads[t].content.text}
SearchText(words, limit) == Answers(TextMatches(words), Clamp(limit), Unordered)

\* Mutant: the full-text matches are not excluded.
SearchTagsAgain(words, limit, found) ==
    IF Len(found) < Clamp(limit)
    THEN {found \o s : s \in Answers({t \in Created : HasTag(t, words)},
                                     Clamp(limit) - Len(found), Younger)}
    ELSE {found}

\* Mutant: tags are looked at only when no text matched.
SearchTagsInstead(words, limit, found) ==
    IF found = <<>>
    THEN Answers({t \in Created : HasTag(t, words)}, Clamp(limit), Younger)
    ELSE {found}

\* matchThreadsByTagName: any word names a tag, for the room that is left.
SearchTags(words, limit, found) ==
    IF Len(found) < Clamp(limit)
    THEN {found \o s : s \in Answers({t \in Created \ Range(found) : HasTag(t, words)},
                                     Clamp(limit) - Len(found), Younger)}
    ELSE {found}
=============================================================================
