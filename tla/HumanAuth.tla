------------------------------ MODULE HumanAuth ------------------------------
(***************************************************************************)
(* How a human's request gets its actor and its role: RequireHumanAuth     *)
(* runs OIDCProvider.Authenticate on the session cookie, refreshing the    *)
(* session against Keycloak once its checkpoint has passed, and then       *)
(* GetOrCreateHumanActor.  Requests interleave between any two database    *)
(* statements and Keycloak calls; login and logout run beside them.        *)
(*                                                                         *)
(* A refresh token is the number Keycloak gave it within its grant.  The   *)
(* checkpoint (ExpiresAt) is `fresh`, which Expire clears.                 *)
(***************************************************************************)
EXTENDS Integers, FiniteSets

CONSTANTS
    Subjects,    \* Keycloak subjects
    Names,       \* display names
    NameOf,      \* the display name Keycloak reports for a subject
    Sids,        \* session ids callbacks draw
    Procs,       \* requests handled at the same time
    MaxToken     \* rotations of a refresh token, per session

ASSUME NameOfAssumption == NameOf \in [Subjects -> Names]
ASSUME MaxTokenAssumption == MaxToken \in Nat \ {0}

Roles == {"admin", "viewer"}
None  == [none |-> TRUE]

VARIABLES
    sessions,   \* sessions table: the row of a session id, or None
    identity,   \* user_identities table: by subject, or None
    actors,     \* actors table, its human rows
    req,        \* the requests under way
    kcRole,     \* Keycloak: the role a subject's groups give it
    kcToken,    \* Keycloak: the refresh token a session's grant accepts; 0: none
    answered    \* history: the actors requests of a subject ran as

vars == <<sessions, identity, actors, req, kcRole, kcToken, answered>>

Rows     == [subject : Subjects, role : Roles, token : 1 .. MaxToken, fresh : BOOLEAN]
ActorIds == Subjects \X Procs    \* a UUID drawn by one request for one subject
ActorRows == [id : ActorIds, name : Names]
Identities == [actor : ActorIds, role : Roles]

IdleReq == [pc |-> "idle"]
Pcs == {"idle", "session", "refresh", "delete", "save", "identity", "role",
        "insert", "insertactor", "commit", "reread", "actor"}

Init ==
    /\ sessions = [s \in Sids |-> None]
    /\ identity = [u \in Subjects |-> None]
    /\ actors = {}
    /\ req = [p \in Procs |-> IdleReq]
    /\ kcRole \in [Subjects -> Roles]
    /\ kcToken = [s \in Sids |-> 0]
    /\ answered = [u \in Subjects |-> {}]

tables   == <<sessions, identity, actors>>
keycloak == <<kcRole, kcToken>>

Active(p) == req[p].pc # "idle"

\* The request moves on to `new`, with what it still needs of what it knew;
\* End is its answer.
Knows(pc) ==
    {"pc", "sid"} \cup (IF pc = "delete" THEN {} ELSE {"subject"})
      \cup (IF pc \in {"refresh", "save"} THEN {"token"} ELSE {})
      \cup (IF pc \in {"save", "identity", "role", "insert", "insertactor", "commit"}
            THEN {"role"} ELSE {})
      \cup (IF pc \in {"role", "insertactor", "commit", "actor"} THEN {"id"} ELSE {})

Go(p, new) == req' = [req EXCEPT ![p] = [k \in Knows(new.pc) |->
                                           IF k \in DOMAIN new THEN new[k] ELSE @[k]]]
End(p)     == req' = [req EXCEPT ![p] = IdleReq]

-----------------------------------------------------------------------------
\* Keycloak and the browser.
ChangeRole(u) ==
    /\ kcRole' = [kcRole EXCEPT ![u] = IF @ = "admin" THEN "viewer" ELSE "admin"]
    /\ UNCHANGED <<tables, req, kcToken, answered>>

EndGrant(s) ==
    /\ kcToken[s] # 0
    /\ kcToken' = [kcToken EXCEPT ![s] = 0]
    /\ UNCHANGED <<tables, req, kcRole, answered>>

\* callback: a session with an id of its own and Keycloak's current role.
Callback(s, u) ==
    /\ sessions[s] = None /\ kcToken[s] = 0
    /\ \A p \in Procs : Active(p) => req[p].sid # s
    /\ sessions' = [sessions EXCEPT ![s] =
                       [subject |-> u, role |-> kcRole[u], token |-> 1, fresh |-> TRUE]]
    /\ kcToken' = [kcToken EXCEPT ![s] = 1]
    /\ UNCHANGED <<identity, actors, req, kcRole, answered>>

\* logout deletes the row; Keycloak is not told.
Logout(s) ==
    /\ sessions' = [sessions EXCEPT ![s] = None]
    /\ UNCHANGED <<identity, actors, req, keycloak, answered>>

\* sessionRefreshInterval passes.
Expire(s) ==
    /\ sessions[s] # None
    /\ sessions' = [sessions EXCEPT ![s].fresh = FALSE]
    /\ UNCHANGED <<identity, actors, req, keycloak, answered>>

-----------------------------------------------------------------------------
\* Authenticate
Begin(p, s) ==
    /\ ~ Active(p)
    /\ req' = [req EXCEPT ![p] = [pc |-> "session", sid |-> s]]
    /\ UNCHANGED <<tables, keycloak, answered>>

\* Unauthorized without a row; a fresh row is believed without asking Keycloak.
ReadSession(p) ==
    LET row == sessions[req[p].sid]
    IN  /\ req[p].pc = "session"
        /\ \/ row = None /\ End(p)
           \/ row # None /\ row.fresh
                /\ Go(p, [pc |-> "identity", subject |-> row.subject, role |-> row.role])
           \/ row # None /\ ~ row.fresh
                /\ Go(p, [pc |-> "refresh", subject |-> row.subject, token |-> row.token])
        /\ UNCHANGED <<tables, keycloak, answered>>

\* Mutant of RefreshAccepted: an answer without a new token is stored as it is.
RefreshStoringWhatCame(p) ==
    LET s == req[p].sid
    IN  /\ req[p].pc = "refresh"
        /\ req[p].token = kcToken[s]
        /\ \/ UNCHANGED kcToken /\ Go(p, [pc |-> "save", role |-> kcRole[req[p].subject], token |-> 0])
           \/ /\ kcToken[s] < MaxToken
              /\ kcToken' = [kcToken EXCEPT ![s] = @ + 1]
              /\ Go(p, [pc |-> "save", role |-> kcRole[req[p].subject], token |-> kcToken'[s]])
        /\ UNCHANGED <<tables, kcRole, answered>>

\* Keycloak takes the token, gives the subject's current claims and may rotate
\* the token, which makes the old one worthless.
RefreshAccepted(p) ==
    LET s == req[p].sid
    IN  /\ req[p].pc = "refresh"
        /\ req[p].token = kcToken[s]
        /\ \E new \in {kcToken[s], kcToken[s] + 1} :
              /\ new <= MaxToken
              /\ kcToken' = [kcToken EXCEPT ![s] = new]
              /\ Go(p, [pc |-> "save", role |-> kcRole[req[p].subject], token |-> new])
        /\ UNCHANGED <<tables, kcRole, answered>>

\* Mutant of RefreshFailed: an outage of Keycloak lets the request through.
RefreshFailingOpen(p) ==
    /\ req[p].pc = "refresh"
    /\ Go(p, [pc |-> "identity", role |-> "viewer"])
    /\ UNCHANGED <<tables, keycloak, answered>>

\* Mutant of RefreshFailed: the exchange is tried again until it succeeds.
RefreshRetrying(p) ==
    /\ req[p].pc = "refresh"
    /\ req[p].token # kcToken[req[p].sid]
    /\ UNCHANGED vars

\* Refused, unreachable, or the stored token does not decrypt.
RefreshFailed(p) ==
    /\ req[p].pc = "refresh"
    /\ Go(p, [pc |-> "delete"])
    /\ UNCHANGED <<tables, keycloak, answered>>

DeleteSession(p) ==
    /\ req[p].pc = "delete"
    /\ sessions' = [sessions EXCEPT ![req[p].sid] = None]
    /\ End(p)
    /\ UNCHANGED <<identity, actors, keycloak, answered>>

Refreshed(p) == [subject |-> req[p].subject, role |-> req[p].role,
                 token |-> req[p].token, fresh |-> TRUE]

\* gorm's Save: an UPDATE of the row, or its INSERT when there is none.
SaveSession(p) ==
    /\ req[p].pc = "save"
    /\ sessions' = [sessions EXCEPT ![req[p].sid] = Refreshed(p)]
    /\ Go(p, [pc |-> "identity"])
    /\ UNCHANGED <<identity, actors, keycloak, answered>>

-----------------------------------------------------------------------------
\* GetOrCreateHumanActor
FindIdentity(p) ==
    LET row == identity[req[p].subject]
    IN  /\ req[p].pc = "identity"
        /\ \/ row = None /\ Go(p, [pc |-> "insert"])
           \/ row # None /\ row.role = req[p].role
                /\ Go(p, [pc |-> "actor", id |-> row.actor])
           \/ row # None /\ row.role # req[p].role
                /\ Go(p, [pc |-> "role", id |-> row.actor])
        /\ UNCHANGED <<tables, keycloak, answered>>

UpdateRole(p) ==
    /\ req[p].pc = "role"
    /\ identity' = [identity EXCEPT ![req[p].subject].role = req[p].role]
    /\ Go(p, [pc |-> "actor"])
    /\ UNCHANGED <<sessions, actors, keycloak, answered>>

\* The uncommitted inserts of the creating transactions.
Inserting(p) == req[p].pc \in {"insertactor", "commit"}
NamePending(p) == req[p].pc = "commit"

\* INSERT ... ON CONFLICT DO NOTHING waits for an uncommitted row of the same
\* subject; only the request whose insert took effect goes on to the Actor.
InsertIdentity(p) ==
    LET u == req[p].subject
    IN  /\ req[p].pc = "insert"
        /\ \A o \in Procs \ {p} : Inserting(o) => req[o].subject # u
        /\ IF identity[u] = None THEN Go(p, [pc |-> "insertactor", id |-> <<u, p>>])
                                 ELSE Go(p, [pc |-> "reread"])
        /\ UNCHANGED <<tables, keycloak, answered>>

NameTaken(u) == \E a \in actors : a.name = NameOf[u]

\* Mutant of InsertActor: a person with the same name is taken for the same.
InsertActorByName(p) ==
    LET u == req[p].subject
        same == {a \in actors : a.name = NameOf[u]}
    IN  /\ req[p].pc = "insertactor"
        /\ \A o \in Procs \ {p} : NamePending(o) => NameOf[req[o].subject] # NameOf[u]
        /\ IF same = {} THEN Go(p, [pc |-> "commit"])
                        ELSE \E a \in same : Go(p, [pc |-> "commit", id |-> a.id])
        /\ UNCHANGED <<tables, keycloak, answered>>

\* Mutant of InsertActor: the identity's insert is not rolled back with it.
InsertActorAlone(p) ==
    LET u == req[p].subject
    IN  /\ req[p].pc = "insertactor"
        /\ \A o \in Procs \ {p} : NamePending(o) => NameOf[req[o].subject] # NameOf[u]
        /\ IF NameTaken(u)
           THEN /\ identity' = [identity EXCEPT ![u] = [actor |-> req[p].id, role |-> req[p].role]]
                /\ End(p)
           ELSE Go(p, [pc |-> "commit"]) /\ UNCHANGED identity
        /\ UNCHANGED <<sessions, actors, keycloak, answered>>

\* display_name is unique: somebody else's name rolls the transaction back.
InsertActor(p) ==
    LET u == req[p].subject
    IN  /\ req[p].pc = "insertactor"
        /\ \A o \in Procs \ {p} : NamePending(o) => NameOf[req[o].subject] # NameOf[u]
        /\ IF NameTaken(u) THEN End(p) ELSE Go(p, [pc |-> "commit"])
        /\ UNCHANGED <<tables, keycloak, answered>>

CommitActor(p) ==
    LET u == req[p].subject
    IN  /\ req[p].pc = "commit"
        /\ identity' = [identity EXCEPT ![u] = [actor |-> req[p].id, role |-> req[p].role]]
        /\ actors' = actors \cup {[id |-> req[p].id, name |-> NameOf[u]]}
        /\ Go(p, [pc |-> "actor"])
        /\ UNCHANGED <<sessions, keycloak, answered>>

\* Lost the race: the winner's identity is committed by now.
FindWinner(p) ==
    LET row == identity[req[p].subject]
    IN  /\ req[p].pc = "reread"
        /\ IF row = None THEN End(p) ELSE Go(p, [pc |-> "actor", id |-> row.actor])
        /\ UNCHANGED <<tables, keycloak, answered>>

\* The actor's row is read last; the handler runs as it, with the role.
FindActor(p) ==
    LET u == req[p].subject
    IN  /\ req[p].pc = "actor"
        /\ IF \E a \in actors : a.id = req[p].id
           THEN answered' = [answered EXCEPT ![u] = @ \cup {req[p].id}]
           ELSE UNCHANGED answered
        /\ End(p)
        /\ UNCHANGED <<tables, keycloak>>

\* A statement fails (SQLITE_BUSY, a lost connection): the request ends and
\* what it had not committed is gone.
StatementFails(p) ==
    /\ Active(p) /\ req[p].pc # "refresh"
    /\ End(p)
    /\ UNCHANGED <<tables, keycloak, answered>>

Step(p) ==
    \/ ReadSession(p)
    \/ RefreshAccepted(p) \/ RefreshFailed(p) \/ DeleteSession(p) \/ SaveSession(p)
    \/ FindIdentity(p) \/ UpdateRole(p)
    \/ InsertIdentity(p) \/ InsertActor(p) \/ CommitActor(p)
    \/ FindWinner(p) \/ FindActor(p)

Next ==
    \/ \E u \in Subjects : ChangeRole(u)
    \/ \E s \in Sids : EndGrant(s) \/ Logout(s) \/ Expire(s)
    \/ \E s \in Sids, u \in Subjects : Callback(s, u)
    \/ \E p \in Procs, s \in Sids : Begin(p, s)
    \/ \E p \in Procs : Step(p) \/ StatementFails(p)

Spec == Init /\ [][Next]_vars

\* The database and Keycloak answer every call of a request.  Strong: an insert
\* that waits for another transaction's row is queued for it, and proceeds
\* although the row may be inserted again by later requests.
FairSpec == Spec /\ \A p \in Procs : SF_vars(Step(p))

-----------------------------------------------------------------------------
TypeOK ==
    /\ sessions \in [Sids -> Rows \cup {None}]
    /\ identity \in [Subjects -> Identities \cup {None}]
    /\ actors \subseteq ActorRows
    /\ \A p \in Procs :
          /\ req[p].pc \in Pcs
          /\ Active(p) => req[p].sid \in Sids
          /\ "subject" \in DOMAIN req[p] => req[p].subject \in Subjects
          /\ "token" \in DOMAIN req[p] => req[p].token \in 1 .. MaxToken
          /\ "role" \in DOMAIN req[p] => req[p].role \in Roles
          /\ "id" \in DOMAIN req[p] => req[p].id \in {req[p].subject} \X Procs
    /\ kcRole \in [Subjects -> Roles]
    /\ kcToken \in [Sids -> 0 .. MaxToken]
    /\ answered \in [Subjects -> SUBSET ActorIds]

\* The function's Concurrency comment: however first calls for one subject
\* race, lose or fail half way, all of them run as the same actor, and no two
\* people (who may share a display name) ever run as one.
OneActorPerSubject ==
    /\ \A u \in Subjects : Cardinality(answered[u]) <= 1
    /\ \A u, v \in Subjects : u # v => answered[u] \cap answered[v] = {}

\* No identity is ever left without its actor row (every later request of
\* that subject would fail), and no two humans share a name.
IdentityHasActor ==
    /\ \A u \in Subjects : identity[u] # None =>
          \E a \in actors : a.id = identity[u].actor /\ a.name = NameOf[u]
    /\ \A a, b \in actors : a.name = b.name => a = b

\* A session is over when its row is gone (a logout, a refused refresh), or when
\* Keycloak ended its grant and the checkpoint has passed.
Over(s) == \/ sessions[s] = None
           \/ kcToken[s] = 0 /\ ~ sessions[s].fresh

\* Who the session let in, or still may: a request past Authenticate, and a
\* refresh Keycloak has accepted or, its token being the current one, will.
Admitted(p, s) == /\ Active(p) /\ req[p].sid = s
                  /\ req[p].pc \notin {"session", "refresh", "delete", "save"}
Refreshes(p, s) == /\ Active(p) /\ req[p].sid = s
                   /\ \/ req[p].pc = "save"
                      \/ req[p].pc = "refresh" /\ req[p].token = kcToken[s]
Inside(s) == {p \in Procs : Admitted(p, s) \/ Refreshes(p, s)}

LoggedIn(s) == kcToken[s] = 0 /\ kcToken'[s] = 1
SavedLate(p, s) == req[p].pc = "save" /\ sessions'[s] = Refreshed(p)

\* models.go on Session: its lifetime is bounded by Keycloak's refresh token, and
\* a logout ends it.  Once it is over, no request that was not inside gets in, and
\* it opens again only by a new login or by the Save of a refresh that was inside
\* when it ended: that Save inserts the row a logout (or another request's
\* refused refresh) has deleted, and the cookie is good again.
OverAdmitsNobodyNew ==
    [][\A s \in Sids : Over(s) =>
          \/ LoggedIn(s)
          \/ /\ Inside(s)' \subseteq Inside(s)
             /\ Over(s)' \/ \E p \in Inside(s) : SavedLate(p, s)]_vars

\* Every request is answered: waiting for another's insert never goes on forever.
EveryRequestEnds == \A p \in Procs : Active(p) ~> ~ Active(p)
=============================================================================
