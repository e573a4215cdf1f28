------------------------------ MODULE Mentions ------------------------------
(***************************************************************************)
(* createMentions and resolveMentionTarget of internal/storage: whom the   *)
(* @handles of a post reach, while agents are created and profiles set     *)
(* beside it.  A post looks its handles up one after the other, each in up *)
(* to four queries; other requests commit between any two of them (READ    *)
(* COMMITTED; on SQLite a post sees its snapshot, as if nobody had).       *)
(*                                                                         *)
(* A post is the sequence of the handles found outside its code regions.   *)
(* Names that nicknamePattern or the empty-name checks refuse change       *)
(* nothing and are left out.                                               *)
(***************************************************************************)
EXTENDS Integers, Sequences, FiniteSets, SequencesExt

CONSTANTS
    Agents,      \* actor ids CreateAgent draws
    Unknown,     \* ids PUT /api/profiles may name that no actor has
    Names,       \* display names, nicknames and handles
    Lower,       \* lower() of the database
    Posts,       \* posts handled at the same time
    MaxHandles   \* bound: handles of one post

ASSUME LowerAssumption ==
    Lower \in [Names -> Names] /\ \A n \in Names : Lower[Lower[n]] = Lower[n]
ASSUME NamesAssumption == "" \notin Names
ASSUME IdsAssumption ==
    Agents \cap Unknown = {} /\ IsFiniteSet(Agents) /\ IsFiniteSet(Unknown)
ASSUME MaxHandlesAssumption == MaxHandles \in Nat

Ids  == Agents \cup Unknown
None == ""    \* no name is empty: the checks of CreateAgent and UpsertActorProfile

VARIABLES
    display,   \* actors table: display_name by id, or None
    nick,      \* actor_profiles table: nickname by actor id, or None
    tx         \* the posts under way

vars == <<display, nick, tx>>

Created(a) == display[a] # None

Idle == [pc |-> "idle"]

Init ==
    /\ display = [a \in Ids |-> None]
    /\ nick = [a \in Ids |-> None]
    /\ tx = [p \in Posts |-> Idle]

Lookups == {"nick", "display", "foldednick", "foldeddisplay"}
Posting(p) == tx[p].pc \in Lookups \cup {"next"}
Over(p)    == tx[p].pc \in {"idle", "posted", "refused"}

\* The requests after somebody's commit: a post under way or stored notes it.
Disturbed(t) == [p \in Posts |-> IF t[p].pc \in Lookups \cup {"next", "posted"}
                                 THEN [t[p] EXCEPT !.quiet = FALSE] ELSE t[p]]

-----------------------------------------------------------------------------
\* display_name has a unique index.
CreateAgent(a, n) ==
    /\ ~ Created(a)
    /\ \A b \in Ids : display[b] # n
    /\ display' = [display EXCEPT ![a] = n]
    /\ tx' = Disturbed(tx)
    /\ UNCHANGED nick

\* Mutant of NicknameFree: profiles without an actor are not looked at.
NicknameFreeAmongActors(a, n) == \A b \in Ids \ {a} : nick[b] # n \/ ~ Created(b)

\* No other actor has the nickname.  UpsertActorProfile asks before it writes,
\* and the unique index decides again at the write, when it may be taken since.
NicknameFree(a, n) == \A b \in Ids \ {a} : nick[b] # n

\* By an actor for itself, or by an admin for any id.
UpsertActorProfile(a, n) ==
    /\ Created(a) \/ a \in Unknown
    /\ NicknameFree(a, n)
    /\ nick' = [nick EXCEPT ![a] = n]
    /\ tx' = Disturbed(tx)
    /\ UNCHANGED display

-----------------------------------------------------------------------------
\* createMentions on the handles of a body; `rows` are the Mention rows,
\* `who` (history) is the actor each resolved handle found.
StartPost(p, a, handles) ==
    /\ Over(p)
    /\ Created(a)
    /\ tx' = [tx EXCEPT ![p] = [pc |-> "next", author |-> a, handles |-> handles,
                                todo |-> handles, resolved |-> << >>,
                                unresolved |-> << >>, rows |-> << >>,
                                who |-> << >>, quiet |-> TRUE]]
    /\ UNCHANGED <<display, nick>>

Name(p) == Head(tx[p].todo)

\* Each name of a post is looked up once.
SeenNames(p) == ToSet(tx[p].resolved) \cup ToSet(tx[p].unresolved)

\* Mutant of NextHandle: a repeated handle is looked up again.
NextHandleAgain(p) ==
    /\ tx[p].pc = "next"
    /\ tx' = [tx EXCEPT ![p].pc = IF tx[p].todo = << >> THEN "posted" ELSE "nick"]
    /\ UNCHANGED <<display, nick>>

NextHandle(p) ==
    /\ tx[p].pc = "next"
    /\ tx' = IF tx[p].todo = << >> THEN [tx EXCEPT ![p].pc = "posted"]
             ELSE IF Name(p) \in SeenNames(p) THEN [tx EXCEPT ![p].todo = Tail(@)]
             ELSE [tx EXCEPT ![p].pc = "nick"]
    /\ UNCHANGED <<display, nick>>

\* Mutant of Mentioned: notify-once goes by handle, not by actor.
MentionedAgain(t, a) == IF a = t.author THEN t.rows ELSE Append(t.rows, a)

\* No row for the author, and one per actor, whatever the spelling.
Mentioned(t, a) ==
    IF a = t.author \/ a \in ToSet(t.rows) THEN t.rows ELSE Append(t.rows, a)

Matched(t, a) ==
    [t EXCEPT !.pc = "next", !.todo = Tail(@), !.resolved = Append(@, Head(t.todo)),
              !.who = Append(@, a), !.rows = Mentioned(t, a)]
Missed(t) ==
    [t EXCEPT !.pc = "next", !.todo = Tail(@), !.unresolved = Append(@, Head(t.todo))]

Match(p, a)    == tx' = [tx EXCEPT ![p] = Matched(@, a)]
NoMatch(p)     == tx' = [tx EXCEPT ![p] = Missed(@)]
TryNext(p, pc) == tx' = [tx EXCEPT ![p].pc = pc]

\* A profile leads to its actor, and the post fails if there is none.
MatchProfile(p, a) ==
    IF Created(a) THEN Match(p, a)
    ELSE tx' = [tx EXCEPT ![p] = [pc |-> "refused", author |-> @.author]]

ExactNickname(p) ==
    LET found == {a \in Ids : nick[a] = Name(p)}
    IN  /\ tx[p].pc = "nick"
        /\ IF found = {} THEN TryNext(p, "display")
                         ELSE \E a \in found : MatchProfile(p, a)
        /\ UNCHANGED <<display, nick>>

ExactDisplayName(p) ==
    LET found == {a \in Ids : display[a] = Name(p)}
    IN  /\ tx[p].pc = "display"
        /\ IF found = {} THEN TryNext(p, "foldednick")
                         ELSE \E a \in found : Match(p, a)
        /\ UNCHANGED <<display, nick>>

Folds(column, n) == {a \in Ids : column[a] # None /\ Lower[column[a]] = Lower[n]}

\* Mutant of FoldedNickname: an ambiguous handle is an error.
FoldedNicknameStrict(p) ==
    LET found == Folds(nick, Name(p))
    IN  /\ tx[p].pc = "foldednick"
        /\ CASE found = {}             -> TryNext(p, "foldeddisplay")
             [] Cardinality(found) > 1 -> tx' = [tx EXCEPT ![p] =
                                                   [pc |-> "refused", author |-> @.author]]
             [] OTHER                  -> \E a \in found : MatchProfile(p, a)
        /\ UNCHANGED <<display, nick>>

\* More than one match is ambiguous and resolves to nobody.
FoldedNickname(p) ==
    LET found == Folds(nick, Name(p))
    IN  /\ tx[p].pc = "foldednick"
        /\ CASE found = {}             -> TryNext(p, "foldeddisplay")
             [] Cardinality(found) > 1 -> NoMatch(p)
             [] OTHER                  -> \E a \in found : MatchProfile(p, a)
        /\ UNCHANGED <<display, nick>>

\* Mutant of FoldedDisplayName: the first of several is taken.
FoldedDisplayNameFirst(p) ==
    LET found == Folds(display, Name(p))
    IN  /\ tx[p].pc = "foldeddisplay"
        /\ IF found = {} THEN NoMatch(p) ELSE \E a \in found : Match(p, a)
        /\ UNCHANGED <<display, nick>>

FoldedDisplayName(p) ==
    LET found == Folds(display, Name(p))
    IN  /\ tx[p].pc = "foldeddisplay"
        /\ IF Cardinality(found) # 1 THEN NoMatch(p)
                                     ELSE \E a \in found : Match(p, a)
        /\ UNCHANGED <<display, nick>>

Next ==
    \/ \E a \in Agents, n \in Names : CreateAgent(a, n)
    \/ \E a \in Ids, n \in Names : UpsertActorProfile(a, n)
    \/ \E p \in Posts, a \in Agents, hs \in BoundedSeq(Names, MaxHandles) :
          StartPost(p, a, hs)
    \/ \E p \in Posts :
          \/ NextHandle(p)
          \/ ExactNickname(p) \/ ExactDisplayName(p)
          \/ FoldedNickname(p) \/ FoldedDisplayName(p)

Spec == Init /\ [][Next]_vars

-----------------------------------------------------------------------------
\* Both name columns are unique, as resolveMentionTarget relies on for its
\* exact lookups.
TypeOK ==
    /\ display \in [Ids -> Names \cup {None}]
    /\ nick \in [Ids -> Names \cup {None}]
    /\ \A a, b \in Ids : a # b =>
          /\ Created(a) => display[a] # display[b]
          /\ nick[a] # None => nick[a] # nick[b]
    /\ \A p \in Posts :
          /\ Over(p) \/ Posting(p)
          /\ Posting(p) => /\ ToSet(tx[p].rows) \subseteq Agents
                           /\ tx[p].author \in Agents
                           /\ Len(tx[p].who) = Len(tx[p].resolved)

\* createMentions: "the actual notify-once guarantee: one row per actor per
\* post", and none for the author, through any number of spellings and even
\* when a nickname changes hands between two lookups.
NotifiedOnce ==
    \A p \in Posts : Posting(p) \/ tx[p].pc = "posted" =>
        IsInjective(tx[p].rows) /\ tx[p].author \notin ToSet(tx[p].rows)

\* MentionReport: every handle of a stored post is reported once, as resolved
\* or unresolved, and the resolved ones are exactly the delivered mentions.
ReportTellsDelivery ==
    \A p \in Posts : tx[p].pc = "posted" =>
        /\ IsInjective(tx[p].resolved \o tx[p].unresolved)
        /\ SeenNames(p) = ToSet(tx[p].handles)
        /\ ToSet(tx[p].rows) = ToSet(tx[p].who) \ {tx[p].author}

\* resolveMentionTarget's documented precedence, as a reference: the first of
\* the four sets that is not empty decides, and only a single match counts.
Tier(n) ==
    LET tiers == <<{a \in Ids : nick[a] = n}, {a \in Ids : display[a] = n},
                   Folds(nick, n), Folds(display, n)>>
        full  == {i \in 1 .. 4 : tiers[i] # {}}
    IN  IF full = {} THEN {} ELSE tiers[CHOOSE i \in full : \A j \in full : i <= j]

\* A post nobody's commit has come between resolves every handle by it.
ResolvesAsDocumented ==
    \A p \in Posts : (Posting(p) \/ tx[p].pc = "posted") /\ tx[p].quiet =>
        /\ \A i \in DOMAIN tx[p].resolved : Tier(tx[p].resolved[i]) = {tx[p].who[i]}
        /\ \A i \in DOMAIN tx[p].unresolved : Cardinality(Tier(tx[p].unresolved[i])) # 1

\* "unresolvable or ambiguous @name in free-form body text; not an error": a
\* post is refused only for a handle that a profile without an actor answers
\* to, which PUT /api/profiles makes of any id.
RefusedOnlyForOrphans ==
    [][\A p \in Posts : tx[p].pc # "refused" /\ tx'[p].pc = "refused" =>
          \E x \in Folds(nick, Name(p)) : ~ Created(x)]_vars
=============================================================================
