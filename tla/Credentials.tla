----------------------------- MODULE Credentials -----------------------------
(***************************************************************************)
(* The bearer tokens of the MCP server: an administrator creates agents,   *)
(* issues and revokes tokens and loads the list of agents over REST, while *)
(* requests to /mcp pass RequireAgentToken, whose AuthenticateAgentToken   *)
(* runs three database statements that the others come between.            *)
(*                                                                         *)
(* A token and its agent_credentials row are one value: the row holds the  *)
(* token's hash, drawn from 32 random bytes.                               *)
(***************************************************************************)
EXTENDS FiniteSets

CONSTANTS
    Ids,      \* actor ids, created or only typed into a request
    Tokens,   \* tokens, each with its credential
    Procs     \* requests to /mcp handled at the same time

VARIABLES
    kind,     \* actors table: the kind of an actor, or "absent"
    cred,     \* agent_credentials table: the row of a token, or NoCred
    call,     \* the requests to /mcp under way
    page,     \* the administrator's GET /api/agents and what it showed
    shut,     \* history: tokens a revocation that returned was about
    before    \* history: the listed agents' tokens issued and shut when the GET began

vars == <<kind, cred, call, page, shut, before>>

NoCred   == [none |-> TRUE]
Rows     == [owner : Ids, revoked : BOOLEAN, used : BOOLEAN]
IdleCall == [pc |-> "idle"]
IdlePage == [pc |-> "idle"]

\* `late`: the token had been revoked when the request arrived.
Calls == {IdleCall}
    \cup [pc : {"find"}, token : Tokens, late : BOOLEAN]
    \cup [pc : {"touch", "actor", "admitted"}, token : Tokens, late : BOOLEAN, owner : Ids]
Pages == {IdlePage}
    \cup [pc : {"tokens"}, agents : SUBSET Ids]
    \cup [pc : {"shown"}, agents : SUBSET Ids, active : SUBSET Ids]

TypeOK ==
    /\ kind \in [Ids -> {"absent", "agent", "human"}]
    /\ cred \in [Tokens -> Rows \cup {NoCred}]
    /\ call \in [Procs -> Calls]
    /\ page \in Pages
    /\ shut \subseteq Tokens
    /\ before \in [issued : SUBSET Tokens, shut : SUBSET Tokens]

Init ==
    /\ kind = [a \in Ids |-> "absent"]
    /\ cred = [c \in Tokens |-> NoCred]
    /\ call = [p \in Procs |-> IdleCall]
    /\ page = IdlePage
    /\ shut = {}
    /\ before = [issued |-> {}, shut |-> {}]

-----------------------------------------------------------------------------
Issued(c)  == cred[c] # NoCred
Live(c)    == Issued(c) /\ ~ cred[c].revoked
TokensOf(a) == {c \in Tokens : Issued(c) /\ cred[c].owner = a}
Usable(a)  == \E c \in TokensOf(a) : Live(c)

\* The actors table.  An id is a UUID drawn here, so no token names it yet.
CreateActor(a, k) ==
    /\ kind[a] = "absent" /\ TokensOf(a) = {}
    /\ kind' = [kind EXCEPT ![a] = k]
    /\ UNCHANGED <<cred, call, page, shut, before>>

CreateAgent(a) == CreateActor(a, "agent")
CreateHuman(a) == CreateActor(a, "human")

\* Any id the path names gets a token, an actor's or not.
IssueAgentToken(c, a) ==
    /\ ~ Issued(c)
    /\ cred' = [cred EXCEPT ![c] = [owner |-> a, revoked |-> FALSE, used |-> FALSE]]
    /\ UNCHANGED <<kind, call, page, shut, before>>

\* `revoked_at IS NULL` rows among cs are revoked, in one UPDATE.
Revoke(cs) ==
    /\ cred' = [c \in Tokens |-> IF c \in cs /\ Live(c)
                                 THEN [cred[c] EXCEPT !.revoked = TRUE] ELSE cred[c]]
    /\ shut' = shut \cup cs
    /\ UNCHANGED <<kind, call, page, before>>

RevokeAgentToken(c) == Issued(c) /\ Revoke({c})

\* Mutant: the bulk form stops after the first row.
RevokeOneOf(a) ==
    /\ TokensOf(a) # {}
    /\ \E c \in TokensOf(a) :
          cred' = [cred EXCEPT ![c].revoked = TRUE]
    /\ shut' = shut \cup TokensOf(a)
    /\ UNCHANGED <<kind, call, page, before>>

\* DELETE /api/agents/{id}: the actor's row stays.
RevokeAllAgentCredentials(a) == Revoke(TokensOf(a))

-----------------------------------------------------------------------------
\* RequireAgentToken and AuthenticateAgentToken.
Go(p, new) == call' = [call EXCEPT ![p] = new]
At(p, pc)  == call[p].pc = pc
Asks(p, pc, a) ==
    Go(p, [pc |-> pc, token |-> call[p].token, late |-> call[p].late, owner |-> a])

StartCall(p, c) ==
    /\ At(p, "idle")
    /\ Go(p, [pc |-> "find", token |-> c, late |-> c \in shut])
    /\ UNCHANGED <<kind, cred, page, shut, before>>

\* Mutant: a lookup that finds no row is no error, and its actor is nobody.
FindOrEmpty(p) ==
    /\ At(p, "find")
    /\ Asks(p, "touch", IF Live(call[p].token) THEN cred[call[p].token].owner ELSE NoCred)
    /\ UNCHANGED <<kind, cred, page, shut, before>>

\* Mutant: the lookup forgets revoked_at.
FindAnyCredential(p) ==
    /\ At(p, "find")
    /\ Issued(call[p].token)
    /\ Asks(p, "touch", cred[call[p].token].owner)
    /\ UNCHANGED <<kind, cred, page, shut, before>>

FindCredential(p) ==
    /\ At(p, "find")
    /\ Live(call[p].token)
    /\ Asks(p, "touch", cred[call[p].token].owner)
    /\ UNCHANGED <<kind, cred, page, shut, before>>

\* No such row, or the statement failed: 401 either way.
NotFound(p) ==
    /\ At(p, "find")
    /\ Go(p, IdleCall)
    /\ UNCHANGED <<kind, cred, page, shut, before>>

\* Mutant: the row read before is saved whole.
SaveCredential(p) ==
    /\ At(p, "touch")
    /\ cred' = [cred EXCEPT ![call[p].token] =
                   [owner |-> call[p].owner, revoked |-> FALSE, used |-> TRUE]]
    /\ Asks(p, "actor", call[p].owner)
    /\ UNCHANGED <<kind, page, shut, before>>

\* The UPDATE names last_used_at alone.
TouchCredential(p) ==
    /\ At(p, "touch")
    /\ cred' = [cred EXCEPT ![call[p].token].used = TRUE]
    /\ Asks(p, "actor", call[p].owner)
    /\ UNCHANGED <<kind, page, shut, before>>

\* A failure to note the use is logged and passed over.
TouchFails(p) ==
    /\ At(p, "touch")
    /\ Asks(p, "actor", call[p].owner)
    /\ UNCHANGED <<kind, cred, page, shut, before>>

ReadActor(p) ==
    /\ At(p, "actor")
    /\ kind[call[p].owner] # "absent"
    /\ Asks(p, "admitted", call[p].owner)
    /\ UNCHANGED <<kind, cred, page, shut, before>>

\* The token's id has no actor, or the statement failed.
NoActor(p) ==
    /\ At(p, "actor")
    /\ Go(p, IdleCall)
    /\ UNCHANGED <<kind, cred, page, shut, before>>

\* The handler answers; a standing GET stream may take as long as it likes.
EndCall(p) ==
    /\ At(p, "admitted")
    /\ Go(p, IdleCall)
    /\ UNCHANGED <<kind, cred, page, shut, before>>

-----------------------------------------------------------------------------
\* listAgentsHandler: the agents, and then the ids with an active token.
ReadAgents ==
    LET agents == {a \in Ids : kind[a] = "agent"}
        theirs == UNION {TokensOf(a) : a \in agents}
    IN  /\ page.pc \in {"idle", "shown"}
        /\ page' = [pc |-> "tokens", agents |-> agents]
        /\ before' = [issued |-> theirs, shut |-> theirs \cap shut]
        /\ UNCHANGED <<kind, cred, call, shut>>

ReadActiveTokens ==
    /\ page.pc = "tokens"
    /\ page' = [pc |-> "shown", agents |-> page.agents,
                active |-> {a \in page.agents : Usable(a)}]
    /\ UNCHANGED <<kind, cred, call, shut, before>>

Next ==
    \/ \E a \in Ids : CreateAgent(a) \/ CreateHuman(a) \/ RevokeAllAgentCredentials(a)
    \/ \E c \in Tokens : RevokeAgentToken(c) \/ \E a \in Ids : IssueAgentToken(c, a)
    \/ \E p \in Procs :
          \/ \E c \in Tokens : StartCall(p, c)
          \/ FindCredential(p) \/ NotFound(p) \/ TouchCredential(p) \/ TouchFails(p)
          \/ ReadActor(p) \/ NoActor(p) \/ EndCall(p)
    \/ ReadAgents \/ ReadActiveTokens

Spec == Init /\ [][Next]_vars

-----------------------------------------------------------------------------
\* "It no longer authenticates" (deleteAgentHandler): once a revocation of a
\* token has returned, no request that arrives with it is admitted, whatever
\* the requests that were looked up before are still writing to its row.
LateCallsRefused == \A p \in Procs : At(p, "admitted") => ~ call[p].late

\* has_active_token comes from a statement of its own, later than the agents, so
\* the list mixes two moments; yet it lists nobody as able to call whose every
\* token had been revoked when the GET began, and nobody as unable who holds a
\* token issued by then and not revoked since, whatever an administrator and the
\* requests that note their tokens' use write in between.
ListTellsWhoMayCall ==
    page.pc = "shown" => \A a \in page.agents :
        /\ a \in page.active => ~ (TokensOf(a) \subseteq before.shut)
        /\ TokensOf(a) \cap before.issued \subseteq shut \/ a \in page.active
=============================================================================
