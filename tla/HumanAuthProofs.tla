--------------------------- MODULE HumanAuthProofs ---------------------------
(***************************************************************************)
(* One actor per person, no identity without its actor, and sessions that  *)
(* stay over, for any number of people, sessions and requests.  HumanInv   *)
(* adds what the requests under way hold: a creating transaction is the    *)
(* only one of its subject, and the only one past the display name's       *)
(* unique index for its name.                                              *)
(***************************************************************************)
EXTENDS HumanAuth, FiniteSetTheorems, TLAPS

\* What a request's record holds at each step.
Fields(pc) == IF pc = "idle" THEN {"pc"}
              ELSE IF pc = "session" THEN {"pc", "sid"} ELSE Knows(pc)

ReqShape == /\ DOMAIN req = Procs
            /\ \A p \in Procs : DOMAIN req[p] = Fields(req[p].pc)

\* A creating transaction's subject has no identity yet and no other such
\* transaction; its actor's id is its own.
CreatesAlone ==
    \A p \in Procs : Inserting(p) =>
        /\ req[p].id = <<req[p].subject, p>>
        /\ identity[req[p].subject] = None
        /\ \A o \in Procs \ {p} : Inserting(o) => req[o].subject # req[p].subject

\* Past the unique index the name is this transaction's.
NameReserved ==
    \A p \in Procs : NamePending(p) =>
        /\ ~ NameTaken(req[p].subject)
        /\ \A o \in Procs \ {p} :
              NamePending(o) => NameOf[req[o].subject] # NameOf[req[p].subject]

\* A request that has found an identity holds that identity's actor.
HoldsIdentity ==
    \A p \in Procs : req[p].pc \in {"role", "actor"} =>
        /\ identity[req[p].subject] # None
        /\ req[p].id = identity[req[p].subject].actor

\* An identity's actor was drawn for its subject, and nobody of that subject
\* ran as another.
AnsweredAsIdentity ==
    \A u \in Subjects :
        /\ identity[u] # None => identity[u].actor \in {u} \X Procs
        /\ answered[u] # {} => identity[u] # None /\ answered[u] = {identity[u].actor}

HumanInv == /\ TypeOK /\ ReqShape /\ CreatesAlone /\ NameReserved
            /\ HoldsIdentity /\ AnsweredAsIdentity /\ IdentityHasActor

-----------------------------------------------------------------------------
\* The mark of a missing row is not a row.
LEMMA NoneIsNoRow == None \notin Identities /\ None \notin Rows
  BY DEF None, Identities, Rows

\* What a request under way has in its record.
LEMMA ReqFields ==
  ASSUME TypeOK, ReqShape, NEW p \in Procs
  PROVE  /\ req[p].pc \in Pcs
         /\ req[p].pc # "idle" => req[p].sid \in Sids
         /\ req[p].pc \notin {"idle", "session", "delete"} => req[p].subject \in Subjects
         /\ req[p].pc \in {"refresh", "save"} => req[p].token \in 1 .. MaxToken
         /\ req[p].pc \in {"save", "identity", "role", "insert", "insertactor", "commit"}
               => req[p].role \in Roles
         /\ req[p].pc \in {"role", "insertactor", "commit", "actor"}
               => req[p].id \in {req[p].subject} \X Procs
<1>1. DOMAIN req[p] = Fields(req[p].pc)
  BY DEF ReqShape
<1> QED BY <1>1 DEF TypeOK, Fields, Knows, Active, Pcs

\* The initial tables are empty and nobody asks.
LEMMA InitHumanInv == Init => HumanInv
<1> SUFFICES ASSUME Init PROVE HumanInv
  OBVIOUS
<1>1. \A p \in Procs : req[p] = IdleReq
  BY DEF Init
<1>2. TypeOK
  BY <1>1, MaxTokenAssumption DEF Init, TypeOK, IdleReq, Pcs, Active
<1>3. ReqShape
  BY <1>1 DEF Init, ReqShape, IdleReq, Fields
<1>4. CreatesAlone /\ NameReserved /\ HoldsIdentity
  BY <1>1 DEF CreatesAlone, NameReserved, HoldsIdentity, Inserting, NamePending, IdleReq
<1>5. AnsweredAsIdentity /\ IdentityHasActor
  BY DEF Init, AnsweredAsIdentity, IdentityHasActor
<1> QED BY <1>2, <1>3, <1>4, <1>5 DEF HumanInv

-----------------------------------------------------------------------------
\* What a request may hold: its fields, each of its type.
WellFormed(r) ==
    /\ r.pc \in Pcs
    /\ DOMAIN r = Fields(r.pc)
    /\ r.pc # "idle" => r.sid \in Sids
    /\ "subject" \in DOMAIN r => r.subject \in Subjects
    /\ "token" \in DOMAIN r => r.token \in 1 .. MaxToken
    /\ "role" \in DOMAIN r => r.role \in Roles
    /\ "id" \in DOMAIN r => r.id \in {r.subject} \X Procs

\* Go and End rewrite one request's record.
OnlyMoves(p) == DOMAIN req' = Procs /\ \A q \in Procs \ {p} : req'[q] = req[q]

LEMMA EndMoves ==
  ASSUME ReqShape, NEW p \in Procs, End(p)
  PROVE  OnlyMoves(p) /\ req'[p] = IdleReq /\ WellFormed(req'[p])
  BY DEF ReqShape, End, OnlyMoves, IdleReq, WellFormed, Fields, Pcs

\* Requests keep their shape when the one that moves moves to a good record.
LEMMA MovesKeepShape ==
  ASSUME TypeOK, ReqShape, NEW p \in Procs, OnlyMoves(p), WellFormed(req'[p]),
         sessions' \in [Sids -> Rows \cup {None}],
         identity' \in [Subjects -> Identities \cup {None}],
         actors' \subseteq ActorRows,
         kcRole' \in [Subjects -> Roles], kcToken' \in [Sids -> 0 .. MaxToken],
         answered' \in [Subjects -> SUBSET ActorIds]
  PROVE  TypeOK' /\ ReqShape'
<1>1. ReqShape'
  BY DEF ReqShape, OnlyMoves, WellFormed
<1> QED BY <1>1 DEF TypeOK, OnlyMoves, WellFormed, Active

\* A step of one request that leaves the identities and actors alone and moves
\* within the invariant.
LEMMA QuietStep ==
  ASSUME HumanInv, NEW p \in Procs, OnlyMoves(p), WellFormed(req'[p]),
         UNCHANGED <<identity, actors, answered>>,
         sessions' \in [Sids -> Rows \cup {None}],
         kcRole' \in [Subjects -> Roles], kcToken' \in [Sids -> 0 .. MaxToken],
         Inserting(p)' => /\ req'[p].id = <<req'[p].subject, p>>
                          /\ identity[req'[p].subject] = None
                          /\ \A o \in Procs \ {p} :
                                Inserting(o) => req[o].subject # req'[p].subject,
         NamePending(p)' => /\ ~ NameTaken(req'[p].subject)
                            /\ \A o \in Procs \ {p} : NamePending(o) =>
                                  NameOf[req[o].subject] # NameOf[req'[p].subject],
         req'[p].pc \in {"role", "actor"} =>
            /\ identity[req'[p].subject] # None
            /\ req'[p].id = identity[req'[p].subject].actor
  PROVE  HumanInv'
<1>t. TypeOK /\ ReqShape
  BY DEF HumanInv
<1>1. TypeOK' /\ ReqShape'
  BY <1>t, MovesKeepShape DEF TypeOK
<1>2. CreatesAlone'
  BY DEF HumanInv, CreatesAlone, Inserting, OnlyMoves
<1>3. NameReserved'
  BY DEF HumanInv, NameReserved, NamePending, NameTaken, OnlyMoves
<1>4. HoldsIdentity'
  BY DEF HumanInv, HoldsIdentity, OnlyMoves
<1>5. AnsweredAsIdentity' /\ IdentityHasActor'
  BY DEF HumanInv, AnsweredAsIdentity, IdentityHasActor
<1> QED BY <1>1, <1>2, <1>3, <1>4, <1>5 DEF HumanInv

\* A request that ends, or goes where it holds neither an id nor an insert,
\* while the identities and actors stay.
LEMMA HarmlessStep ==
  ASSUME HumanInv, NEW p \in Procs, OnlyMoves(p), WellFormed(req'[p]),
         UNCHANGED <<identity, actors, answered>>,
         sessions' \in [Sids -> Rows \cup {None}],
         kcRole' \in [Subjects -> Roles], kcToken' \in [Sids -> 0 .. MaxToken],
         req'[p].pc \notin {"role", "insertactor", "commit", "actor"}
  PROVE  HumanInv'
  BY QuietStep DEF Inserting, NamePending

-----------------------------------------------------------------------------
\* Keycloak, logins and logouts touch no request, identity or actor.
LEMMA OutsideStep ==
  ASSUME HumanInv, UNCHANGED <<identity, actors, req, answered>>,
         sessions' \in [Sids -> Rows \cup {None}],
         kcRole' \in [Subjects -> Roles], kcToken' \in [Sids -> 0 .. MaxToken]
  PROVE  HumanInv'
<1>1. TypeOK'
  BY DEF HumanInv, TypeOK, Active
<1>2. ReqShape' /\ CreatesAlone' /\ NameReserved' /\ HoldsIdentity'
  BY DEF HumanInv, ReqShape, CreatesAlone, NameReserved, HoldsIdentity,
         Inserting, NamePending, NameTaken
<1>3. AnsweredAsIdentity' /\ IdentityHasActor'
  BY DEF HumanInv, AnsweredAsIdentity, IdentityHasActor
<1> QED BY <1>1, <1>2, <1>3 DEF HumanInv

LEMMA WorldKeeps ==
  ASSUME HumanInv,
         \/ \E u \in Subjects : ChangeRole(u)
         \/ \E s \in Sids : EndGrant(s) \/ Logout(s) \/ Expire(s)
         \/ \E s \in Sids, u \in Subjects : Callback(s, u)
  PROVE  HumanInv'
<1>t. TypeOK
  BY DEF HumanInv
<1>1. ASSUME NEW u \in Subjects, ChangeRole(u) PROVE HumanInv'
  BY <1>1, <1>t, OutsideStep DEF ChangeRole, tables, TypeOK, Roles
<1>2. ASSUME NEW s \in Sids, EndGrant(s) \/ Logout(s) \/ Expire(s) PROVE HumanInv'
  <2>1. sessions[s] # None => [sessions[s] EXCEPT !.fresh = FALSE] \in Rows
    <3>1. sessions[s] # None => sessions[s] \in Rows
      BY <1>t DEF TypeOK
    <3> QED BY <3>1 DEF Rows
  <2>2. CASE EndGrant(s)
    BY <2>2, <1>t, MaxTokenAssumption, OutsideStep DEF EndGrant, tables, TypeOK
  <2>3. CASE Logout(s)
    BY <2>3, <1>t, OutsideStep DEF Logout, keycloak, TypeOK
  <2>4. CASE Expire(s)
    BY <2>4, <2>1, <1>t, OutsideStep DEF Expire, keycloak, TypeOK
  <2> QED BY <1>2, <2>2, <2>3, <2>4
<1>3. ASSUME NEW s \in Sids, NEW u \in Subjects, Callback(s, u)
      PROVE  HumanInv'
  <2>1. [subject |-> u, role |-> kcRole[u], token |-> 1, fresh |-> TRUE] \in Rows
    BY <1>3, <1>t, MaxTokenAssumption DEF TypeOK, Rows
  <2>2. 1 \in 0 .. MaxToken
    BY MaxTokenAssumption
  <2> QED BY <1>3, <2>1, <2>2, <1>t, OutsideStep DEF Callback, TypeOK
<1> QED BY <1>1, <1>2, <1>3

\* Begin
LEMMA BeginKeeps ==
  ASSUME HumanInv, NEW p \in Procs, NEW s \in Sids, Begin(p, s)
  PROVE  HumanInv'
<1>t. TypeOK /\ ReqShape
  BY DEF HumanInv
<1>1. OnlyMoves(p) /\ req'[p] = [pc |-> "session", sid |-> s]
  BY <1>t DEF Begin, ReqShape, OnlyMoves
<1>2. WellFormed(req'[p])
  BY <1>1 DEF WellFormed, Fields, Pcs
<1> QED BY <1>1, <1>2, <1>t, HarmlessStep DEF Begin, tables, keycloak, TypeOK

\* A request that ends changes nothing else.
LEMMA EndKeeps ==
  ASSUME HumanInv, NEW p \in Procs, End(p),
         sessions' \in [Sids -> Rows \cup {None}],
         UNCHANGED <<identity, actors, answered, kcRole, kcToken>>
  PROVE  HumanInv'
<1>t. TypeOK /\ ReqShape
  BY DEF HumanInv
<1>1. OnlyMoves(p) /\ req'[p] = IdleReq /\ WellFormed(req'[p])
  BY <1>t, EndMoves
<1> QED BY <1>1, <1>t, HarmlessStep DEF TypeOK, IdleReq

\* Authenticate's steps hold no identity yet.
LEMMA AuthenticateKeeps ==
  ASSUME HumanInv, NEW p \in Procs,
         \/ ReadSession(p) \/ RefreshAccepted(p) \/ RefreshFailed(p)
         \/ DeleteSession(p) \/ SaveSession(p)
  PROVE  HumanInv'
<1>t. TypeOK /\ ReqShape
  BY DEF HumanInv
<1>f. /\ Active(p) => req[p].sid \in Sids
      /\ DOMAIN req[p] = Fields(req[p].pc)
  BY <1>t DEF TypeOK, ReqShape
<1>1. CASE ReadSession(p)
  <2> DEFINE row == sessions[req[p].sid]
  <2>1. CASE row = None /\ End(p)
    BY <1>1, <2>1, <1>t, EndKeeps DEF ReadSession, tables, keycloak, TypeOK
  <2>2. row # None => row \in Rows
    BY <1>1, <1>f, <1>t DEF ReadSession, Active, TypeOK
  <2>3. CASE row # None /\ Go(p, [pc |-> "identity", subject |-> row.subject, role |-> row.role])
    <3>1. /\ OnlyMoves(p) /\ DOMAIN req'[p] = Knows("identity")
          /\ req'[p].pc = "identity" /\ req'[p].sid = req[p].sid
          /\ req'[p].subject = row.subject /\ req'[p].role = row.role
      BY <2>3, <1>t DEF Go, Knows, ReqShape, OnlyMoves
    <3>2. WellFormed(req'[p])
      BY <1>1, <2>2, <2>3, <3>1, <1>f
         DEF ReadSession, Active, WellFormed, Fields, Knows, Pcs, Rows
    <3> QED BY <1>1, <3>1, <3>2, <1>t, HarmlessStep DEF ReadSession, tables, keycloak, TypeOK
  <2>4. CASE row # None /\ Go(p, [pc |-> "refresh", subject |-> row.subject, token |-> row.token])
    <3>1. /\ OnlyMoves(p) /\ DOMAIN req'[p] = Knows("refresh")
          /\ req'[p].pc = "refresh" /\ req'[p].sid = req[p].sid
          /\ req'[p].subject = row.subject /\ req'[p].token = row.token
      BY <2>4, <1>t DEF Go, Knows, ReqShape, OnlyMoves
    <3>2. WellFormed(req'[p])
      BY <1>1, <2>2, <2>4, <3>1, <1>f
         DEF ReadSession, Active, WellFormed, Fields, Knows, Pcs, Rows
    <3> QED BY <1>1, <3>1, <3>2, <1>t, HarmlessStep DEF ReadSession, tables, keycloak, TypeOK
  <2> QED BY <1>1, <2>1, <2>3, <2>4 DEF ReadSession
<1>2. CASE RefreshAccepted(p)
  <2>1. req[p].token \in 1 .. MaxToken /\ req[p].subject \in Subjects /\ req[p].sid \in Sids
    BY <1>2, <1>t, ReqFields DEF RefreshAccepted, Pcs
  <2>2. PICK new \in {kcToken[req[p].sid], kcToken[req[p].sid] + 1} :
           /\ new <= MaxToken
           /\ kcToken' = [kcToken EXCEPT ![req[p].sid] = new]
           /\ Go(p, [pc |-> "save", role |-> kcRole[req[p].subject], token |-> new])
    BY <1>2 DEF RefreshAccepted
  <2>3. new \in 1 .. MaxToken /\ new \in 0 .. MaxToken
    BY <1>2, <2>1, <2>2, MaxTokenAssumption DEF RefreshAccepted
  <2>4. /\ OnlyMoves(p) /\ DOMAIN req'[p] = Knows("save")
        /\ req'[p].pc = "save" /\ req'[p].sid = req[p].sid
        /\ req'[p].subject = req[p].subject
        /\ req'[p].role = kcRole[req[p].subject] /\ req'[p].token = new
    BY <1>2, <2>2, <1>f, <1>t DEF RefreshAccepted, Go, Knows, ReqShape, OnlyMoves
  <2>6. WellFormed(req'[p])
    BY <2>1, <2>3, <2>4, <1>t DEF WellFormed, Fields, Knows, Pcs, TypeOK
  <2>5. kcToken' \in [Sids -> 0 .. MaxToken]
    BY <2>2, <2>3, <1>t DEF TypeOK
  <2> QED BY <1>2, <2>4, <2>5, <2>6, <1>t, HarmlessStep DEF RefreshAccepted, tables, TypeOK
<1>3. CASE RefreshFailed(p)
  <2>1. /\ OnlyMoves(p) /\ DOMAIN req'[p] = Knows("delete")
        /\ req'[p].pc = "delete" /\ req'[p].sid = req[p].sid
    BY <1>3, <1>t DEF RefreshFailed, Go, Knows, ReqShape, OnlyMoves
  <2>2. WellFormed(req'[p])
    BY <1>3, <2>1, <1>f DEF RefreshFailed, Active, WellFormed, Fields, Knows, Pcs
  <2> QED BY <1>3, <2>1, <2>2, <1>t, HarmlessStep DEF RefreshFailed, tables, keycloak, TypeOK
<1>4. CASE DeleteSession(p)
  BY <1>4, <1>t, EndKeeps DEF DeleteSession, keycloak, TypeOK
<1>5. CASE SaveSession(p)
  <2>1. /\ req[p].sid \in Sids /\ req[p].subject \in Subjects
        /\ req[p].role \in Roles /\ req[p].token \in 1 .. MaxToken
    BY <1>5, <1>t, ReqFields DEF SaveSession
  <2>2. /\ OnlyMoves(p) /\ DOMAIN req'[p] = Knows("identity")
        /\ req'[p].pc = "identity" /\ req'[p].sid = req[p].sid
        /\ req'[p].subject = req[p].subject /\ req'[p].role = req[p].role
    BY <1>5, <1>f, <1>t DEF SaveSession, Go, Knows, ReqShape, OnlyMoves
  <2>5. WellFormed(req'[p])
    BY <2>1, <2>2 DEF WellFormed, Fields, Knows, Pcs
  <2>3. Refreshed(p) \in Rows
    BY <2>1 DEF Refreshed, Rows
  <2>4. sessions' \in [Sids -> Rows \cup {None}]
    BY <1>5, <2>3, <1>t DEF SaveSession, TypeOK
  <2> QED BY <1>5, <2>2, <2>4, <2>5, <1>t, HarmlessStep DEF SaveSession, keycloak, TypeOK
<1> QED BY <1>1, <1>2, <1>3, <1>4, <1>5

-----------------------------------------------------------------------------
\* GetOrCreateHumanActor's reads, its inserts before the commit, and failures.
LEMMA LookupKeeps ==
  ASSUME HumanInv, NEW p \in Procs, FindIdentity(p) \/ FindWinner(p)
  PROVE  HumanInv'
<1> DEFINE row == identity[req[p].subject]
<1>t. TypeOK /\ ReqShape
  BY DEF HumanInv
<1>f. /\ req[p].sid \in Sids /\ req[p].subject \in Subjects
      /\ FindIdentity(p) => req[p].role \in Roles
      /\ DOMAIN req[p] = Fields(req[p].pc)
      /\ UNCHANGED <<sessions, identity, actors, answered, kcRole, kcToken>>
  BY <1>t, ReqFields DEF FindIdentity, FindWinner, ReqShape, tables, keycloak
<1>a. row # None => row.actor \in {req[p].subject} \X Procs
  BY <1>f DEF HumanInv, AnsweredAsIdentity
<1>1. CASE Go(p, [pc |-> "insert"]) /\ FindIdentity(p)
  <2>1. /\ OnlyMoves(p) /\ DOMAIN req'[p] = Knows("insert")
        /\ req'[p].pc = "insert" /\ req'[p].sid = req[p].sid
        /\ req'[p].subject = req[p].subject /\ req'[p].role = req[p].role
    BY <1>1, <1>f, <1>t DEF FindIdentity, Go, Knows, Fields, ReqShape, OnlyMoves
  <2>2. WellFormed(req'[p])
    BY <1>1, <1>f, <2>1 DEF WellFormed, Fields, Knows, Pcs
  <2> QED BY <1>f, <2>1, <2>2, <1>t, HarmlessStep DEF TypeOK
<1>2. CASE Go(p, [pc |-> "actor", id |-> row.actor]) /\ row # None
  <2>1. /\ OnlyMoves(p) /\ DOMAIN req'[p] = Knows("actor")
        /\ req'[p].pc = "actor" /\ req'[p].sid = req[p].sid
        /\ req'[p].subject = req[p].subject /\ req'[p].id = row.actor
    BY <1>2, <1>f, <1>t DEF FindIdentity, FindWinner, Go, Knows, Fields, ReqShape, OnlyMoves
  <2>2. WellFormed(req'[p])
    BY <1>f, <1>a, <1>2, <2>1 DEF WellFormed, Fields, Knows, Pcs
  <2> QED BY <1>2, <1>f, <2>1, <2>2, <1>t, QuietStep DEF TypeOK, Inserting, NamePending
<1>3. CASE Go(p, [pc |-> "role", id |-> row.actor]) /\ row # None /\ FindIdentity(p)
  <2>1. /\ OnlyMoves(p) /\ DOMAIN req'[p] = Knows("role")
        /\ req'[p].pc = "role" /\ req'[p].sid = req[p].sid
        /\ req'[p].subject = req[p].subject /\ req'[p].id = row.actor
        /\ req'[p].role = req[p].role
    BY <1>3, <1>f, <1>t DEF FindIdentity, Go, Knows, Fields, ReqShape, OnlyMoves
  <2>2. WellFormed(req'[p])
    BY <1>f, <1>a, <1>3, <2>1 DEF WellFormed, Fields, Knows, Pcs
  <2> QED BY <1>3, <1>f, <2>1, <2>2, <1>t, QuietStep DEF TypeOK, Inserting, NamePending
<1>4. CASE End(p)
  BY <1>4, <1>f, <1>t, EndKeeps DEF TypeOK
<1> QED BY <1>1, <1>2, <1>3, <1>4 DEF FindIdentity, FindWinner

\* Only one creating transaction of a subject gets past its first insert.
LEMMA InsertIdentityKeeps ==
  ASSUME HumanInv, NEW p \in Procs, InsertIdentity(p)
  PROVE  HumanInv'
<1> DEFINE u == req[p].subject
<1>t. TypeOK /\ ReqShape
  BY DEF HumanInv
<1>f. /\ req[p].sid \in Sids /\ u \in Subjects /\ req[p].role \in Roles
      /\ DOMAIN req[p] = Fields(req[p].pc)
      /\ UNCHANGED <<sessions, identity, actors, answered, kcRole, kcToken>>
  BY <1>t, ReqFields DEF InsertIdentity, ReqShape, tables, keycloak
<1>1. CASE identity[u] = None
  <2>1. /\ OnlyMoves(p) /\ DOMAIN req'[p] = Knows("insertactor")
        /\ req'[p].pc = "insertactor" /\ req'[p].sid = req[p].sid
        /\ req'[p].subject = u /\ req'[p].id = <<u, p>> /\ req'[p].role = req[p].role
    BY <1>1, <1>f, <1>t DEF InsertIdentity, Go, Knows, Fields, ReqShape, OnlyMoves
  <2>2. WellFormed(req'[p])
    BY <1>f, <2>1 DEF WellFormed, Fields, Knows, Pcs
  <2>3. \A o \in Procs \ {p} : Inserting(o) => req[o].subject # u
    BY DEF InsertIdentity
  <2> QED BY <1>1, <1>f, <2>1, <2>2, <2>3, <1>t, QuietStep DEF TypeOK, NamePending
<1>2. CASE identity[u] # None
  <2>1. /\ OnlyMoves(p) /\ DOMAIN req'[p] = Knows("reread")
        /\ req'[p].pc = "reread" /\ req'[p].sid = req[p].sid /\ req'[p].subject = u
    BY <1>2, <1>f, <1>t DEF InsertIdentity, Go, Knows, Fields, ReqShape, OnlyMoves
  <2>2. WellFormed(req'[p])
    BY <1>f, <2>1 DEF WellFormed, Fields, Knows, Pcs
  <2> QED BY <1>f, <2>1, <2>2, <1>t, HarmlessStep DEF TypeOK
<1> QED BY <1>1, <1>2

\* And only one transaction of a display name gets past the second.
LEMMA InsertActorKeeps ==
  ASSUME HumanInv, NEW p \in Procs, InsertActor(p)
  PROVE  HumanInv'
<1> DEFINE u == req[p].subject
<1>t. TypeOK /\ ReqShape
  BY DEF HumanInv
<1>f. /\ req[p].sid \in Sids /\ u \in Subjects /\ req[p].role \in Roles
      /\ req[p].id \in {u} \X Procs
      /\ DOMAIN req[p] = Fields(req[p].pc)
      /\ UNCHANGED <<sessions, identity, actors, answered, kcRole, kcToken>>
  BY <1>t, ReqFields DEF InsertActor, ReqShape, tables, keycloak
<1>1. CASE NameTaken(u)
  BY <1>1, <1>f, <1>t, EndKeeps DEF InsertActor, TypeOK
<1>2. CASE ~ NameTaken(u)
  <2>1. /\ OnlyMoves(p) /\ DOMAIN req'[p] = Knows("commit")
        /\ req'[p].pc = "commit" /\ req'[p].sid = req[p].sid
        /\ req'[p].subject = u /\ req'[p].id = req[p].id /\ req'[p].role = req[p].role
    BY <1>2, <1>f, <1>t DEF InsertActor, Go, Knows, Fields, ReqShape, OnlyMoves
  <2>2. WellFormed(req'[p])
    BY <1>f, <2>1 DEF WellFormed, Fields, Knows, Pcs
  <2>3. \A o \in Procs \ {p} : NamePending(o) => NameOf[req[o].subject] # NameOf[u]
    BY DEF InsertActor
  <2>4. /\ req[p].id = <<u, p>> /\ identity[u] = None
        /\ \A o \in Procs \ {p} : Inserting(o) => req[o].subject # u
    BY DEF InsertActor, HumanInv, CreatesAlone, Inserting
  <2> QED BY <1>2, <1>f, <2>1, <2>2, <2>3, <2>4, <1>t, QuietStep DEF TypeOK
<1> QED BY <1>1, <1>2

\* The role is written to an identity that exists and keeps its actor.
LEMMA UpdateRoleKeeps ==
  ASSUME HumanInv, NEW p \in Procs, UpdateRole(p)
  PROVE  HumanInv'
<1> DEFINE u == req[p].subject
<1>t. TypeOK /\ ReqShape
  BY DEF HumanInv
<1>f. /\ req[p].sid \in Sids /\ u \in Subjects /\ req[p].role \in Roles
      /\ req[p].id \in {u} \X Procs
      /\ DOMAIN req[p] = Fields(req[p].pc)
      /\ UNCHANGED <<sessions, actors, answered, kcRole, kcToken>>
  BY <1>t, ReqFields DEF UpdateRole, ReqShape, keycloak
<1>1. identity[u] \in Identities /\ identity[u] # None /\ req[p].id = identity[u].actor
  BY <1>f, <1>t DEF UpdateRole, HumanInv, HoldsIdentity, TypeOK
<1> DEFINE new == [identity[u] EXCEPT !.role = req[p].role]
<1>2. new \in Identities /\ new # None /\ new.actor = identity[u].actor
  <2>1. new \in Identities /\ new.actor = identity[u].actor
    BY <1>1, <1>f DEF Identities
  <2> QED BY <2>1, NoneIsNoRow
<1>3. \A v \in Subjects : identity'[v] = IF v = u THEN new ELSE identity[v]
  BY <1>f, <1>t DEF UpdateRole, TypeOK
<1>4. identity' \in [Subjects -> Identities \cup {None}]
  BY <1>2, <1>t DEF UpdateRole, TypeOK
<1>5. \A v \in Subjects : /\ identity'[v] # None <=> identity[v] # None
                          /\ identity[v] # None => identity'[v].actor = identity[v].actor
  BY <1>1, <1>2, <1>3
<1>6. /\ OnlyMoves(p) /\ DOMAIN req'[p] = Knows("actor")
      /\ req'[p].pc = "actor" /\ req'[p].sid = req[p].sid
      /\ req'[p].subject = u /\ req'[p].id = req[p].id
  BY <1>f, <1>t DEF UpdateRole, Go, Knows, Fields, ReqShape, OnlyMoves
<1>7. WellFormed(req'[p])
  BY <1>f, <1>6 DEF WellFormed, Fields, Knows, Pcs
<1>8. TypeOK' /\ ReqShape'
  BY <1>4, <1>6, <1>7, <1>f, <1>t, MovesKeepShape DEF TypeOK
<1>s. \A o \in Procs : req[o].pc \notin {"idle", "session", "delete"} => req[o].subject \in Subjects
  BY <1>t, ReqFields
<1>9. CreatesAlone'
  BY <1>5, <1>6, <1>s DEF HumanInv, CreatesAlone, Inserting, OnlyMoves
<1>10. NameReserved'
  BY <1>6, <1>f DEF HumanInv, NameReserved, NamePending, NameTaken, OnlyMoves
<1>11. HoldsIdentity'
  BY <1>1, <1>5, <1>6, <1>s, <1>f DEF HumanInv, HoldsIdentity, OnlyMoves
<1>12. AnsweredAsIdentity' /\ IdentityHasActor'
  BY <1>5, <1>f DEF HumanInv, AnsweredAsIdentity, IdentityHasActor
<1> QED BY <1>8, <1>9, <1>10, <1>11, <1>12 DEF HumanInv

\* The identity and its actor appear together, for a subject and a name that
\* had none.
LEMMA CommitActorKeeps ==
  ASSUME HumanInv, NEW p \in Procs, CommitActor(p)
  PROVE  HumanInv'
<1> DEFINE u   == req[p].subject
           new == [actor |-> req[p].id, role |-> req[p].role]
           row == [id |-> req[p].id, name |-> NameOf[u]]
<1>t. TypeOK /\ ReqShape
  BY DEF HumanInv
<1>f. /\ req[p].sid \in Sids /\ u \in Subjects /\ req[p].role \in Roles
      /\ req[p].id \in {u} \X Procs
      /\ DOMAIN req[p] = Fields(req[p].pc)
      /\ req[p].pc = "commit"
      /\ actors' = actors \cup {row}
      /\ UNCHANGED <<sessions, answered, kcRole, kcToken>>
  BY <1>t, ReqFields DEF CommitActor, ReqShape, keycloak
<1>1. /\ identity[u] = None
      /\ \A o \in Procs \ {p} : Inserting(o) => req[o].subject # u
  BY <1>f DEF HumanInv, CreatesAlone, Inserting
<1>2. /\ ~ NameTaken(u)
      /\ \A o \in Procs \ {p} : NamePending(o) => NameOf[req[o].subject] # NameOf[u]
  BY <1>f DEF HumanInv, NameReserved, NamePending
<1>3. new \in Identities /\ new # None /\ row \in ActorRows
  <2>1. new \in Identities /\ row \in ActorRows
    BY <1>f, NameOfAssumption DEF Identities, ActorRows, ActorIds
  <2> QED BY <2>1, NoneIsNoRow
<1>4. \A v \in Subjects : identity'[v] = IF v = u THEN new ELSE identity[v]
  BY <1>f, <1>t DEF CommitActor, TypeOK
<1>5. identity' \in [Subjects -> Identities \cup {None}]
  BY <1>3, <1>t DEF CommitActor, TypeOK
<1>6. /\ OnlyMoves(p) /\ DOMAIN req'[p] = Knows("actor")
      /\ req'[p].pc = "actor" /\ req'[p].sid = req[p].sid
      /\ req'[p].subject = u /\ req'[p].id = req[p].id
  BY <1>f, <1>t DEF CommitActor, Go, Knows, Fields, ReqShape, OnlyMoves
<1>7. WellFormed(req'[p])
  BY <1>f, <1>6 DEF WellFormed, Fields, Knows, Pcs
<1>8. TypeOK' /\ ReqShape'
  <2>1. actors' \subseteq ActorRows
    BY <1>3, <1>f, <1>t DEF TypeOK
  <2> QED BY <2>1, <1>5, <1>6, <1>7, <1>f, <1>t, MovesKeepShape DEF TypeOK
<1>s. \A o \in Procs : req[o].pc \notin {"idle", "session", "delete"} => req[o].subject \in Subjects
  BY <1>t, ReqFields
<1>9. CreatesAlone'
  BY <1>1, <1>4, <1>6, <1>s DEF HumanInv, CreatesAlone, Inserting, OnlyMoves
<1>10. NameReserved'
  <2>1. ASSUME NEW o \in Procs, NamePending(o)'
        PROVE  o # p /\ NamePending(o) /\ req'[o] = req[o]
    BY <2>1, <1>6 DEF NamePending, OnlyMoves
  <2>2. ASSUME NEW o \in Procs, NamePending(o)' PROVE ~ NameTaken(req[o].subject)'
    BY <2>1, <2>2, <1>2, <1>f DEF HumanInv, NameReserved, NameTaken
  <2> QED BY <2>1, <2>2 DEF HumanInv, NameReserved, NameTaken
<1>11. HoldsIdentity'
  <2>1. ASSUME NEW o \in Procs \ {p}, req'[o].pc \in {"role", "actor"}
        PROVE  /\ identity'[req'[o].subject] # None
               /\ req'[o].id = identity'[req'[o].subject].actor
    <3>1. req'[o] = req[o] /\ req[o].subject \in Subjects
      BY <2>1, <1>6, <1>s DEF OnlyMoves
    <3>2. identity[req[o].subject] # None /\ req[o].id = identity[req[o].subject].actor
      BY <2>1, <3>1 DEF HumanInv, HoldsIdentity
    <3> QED BY <3>1, <3>2, <1>1, <1>4
  <2>2. identity'[req'[p].subject] = new /\ new.actor = req'[p].id
    BY <1>4, <1>6, <1>f
  <2> QED BY <2>1, <2>2, <1>3 DEF HoldsIdentity
<1>12. AnsweredAsIdentity'
  BY <1>1, <1>3, <1>4, <1>f DEF HumanInv, AnsweredAsIdentity
<1>13. IdentityHasActor'
  BY <1>2, <1>3, <1>4, <1>f DEF HumanInv, IdentityHasActor, NameTaken
<1> QED BY <1>8, <1>9, <1>10, <1>11, <1>12, <1>13 DEF HumanInv

\* What the handler runs as is the identity's actor.
LEMMA FindActorKeeps ==
  ASSUME HumanInv, NEW p \in Procs, FindActor(p)
  PROVE  HumanInv'
<1> DEFINE u == req[p].subject
<1>t. TypeOK /\ ReqShape
  BY DEF HumanInv
<1>f. /\ u \in Subjects /\ req[p].id \in {u} \X Procs
      /\ UNCHANGED <<sessions, identity, actors, kcRole, kcToken>>
  BY <1>t, ReqFields DEF FindActor, tables, keycloak
<1>1. identity[u] # None /\ req[p].id = identity[u].actor
  BY DEF FindActor, HumanInv, HoldsIdentity
<1>2. answered[u] \cup {req[p].id} = {identity[u].actor}
  BY <1>1, <1>f DEF HumanInv, AnsweredAsIdentity
<1>3. CASE UNCHANGED answered
  BY <1>3, <1>f, <1>t, EndKeeps DEF FindActor, TypeOK
<1>4. CASE answered' = [answered EXCEPT ![u] = @ \cup {req[p].id}]
  <2>1. \A v \in Subjects : answered'[v] = IF v = u THEN {identity[u].actor} ELSE answered[v]
    BY <1>2, <1>4, <1>t, <1>f DEF TypeOK
  <2>2. answered' \in [Subjects -> SUBSET ActorIds]
    <3>1. req[p].id \in ActorIds
      BY <1>f DEF ActorIds
    <3> QED BY <3>1, <1>4, <1>t DEF TypeOK
  <2>3. OnlyMoves(p) /\ req'[p] = IdleReq /\ WellFormed(req'[p])
    BY <1>t, EndMoves DEF FindActor
  <2>4. TypeOK' /\ ReqShape'
    BY <2>2, <2>3, <1>f, <1>t, MovesKeepShape DEF TypeOK
  <2>5. CreatesAlone' /\ NameReserved' /\ HoldsIdentity'
    BY <2>3, <1>f DEF HumanInv, CreatesAlone, NameReserved, HoldsIdentity, Inserting,
                      NamePending, NameTaken, OnlyMoves, IdleReq
  <2>6. AnsweredAsIdentity' /\ IdentityHasActor'
    BY <2>1, <1>1, <1>f DEF HumanInv, AnsweredAsIdentity, IdentityHasActor
  <2> QED BY <2>4, <2>5, <2>6 DEF HumanInv
<1> QED BY <1>3, <1>4 DEF FindActor

-----------------------------------------------------------------------------
\* Every action keeps the invariant.
LEMMA NextHumanInv == HumanInv /\ [Next]_vars => HumanInv'
<1> SUFFICES ASSUME HumanInv, [Next]_vars PROVE HumanInv'
  OBVIOUS
<1>t. TypeOK
  BY DEF HumanInv
<1>1. ASSUME NEW p \in Procs, Step(p) PROVE HumanInv'
  BY <1>1, AuthenticateKeeps, LookupKeeps, UpdateRoleKeeps, InsertIdentityKeeps,
     InsertActorKeeps, CommitActorKeeps, FindActorKeeps DEF Step
<1>2. ASSUME NEW p \in Procs, StatementFails(p) PROVE HumanInv'
  BY <1>2, <1>t, EndKeeps DEF StatementFails, tables, keycloak, TypeOK
<1>3. CASE UNCHANGED vars
  BY <1>3, <1>t, OutsideStep DEF vars, TypeOK
<1> QED BY <1>1, <1>2, <1>3, WorldKeeps, BeginKeeps DEF Next

\* The invariant holds whatever people, Keycloak and requests do.
LEMMA AlwaysHumanInv == Spec => []HumanInv
  BY InitHumanInv, NextHumanInv, PTL DEF Spec

-----------------------------------------------------------------------------
\* Every table and request keeps its type.
THEOREM HumanTypeCorrect == Spec => []TypeOK
<1>1. HumanInv => TypeOK
  BY DEF HumanInv
<1> QED BY <1>1, AlwaysHumanInv, PTL

\* human_repo.go, the Concurrency comment: however the first calls of one
\* subject race, lose or fail half way, all of them run as one actor, and no
\* two people run as the same.
THEOREM OnePersonOneActor == Spec => []OneActorPerSubject
<1>1. HumanInv => OneActorPerSubject
  <2> SUFFICES ASSUME HumanInv PROVE OneActorPerSubject
    OBVIOUS
  <2>1. ASSUME NEW u \in Subjects PROVE Cardinality(answered[u]) <= 1
    <3>1. CASE answered[u] = {}
      BY <3>1, FS_EmptySet
    <3>2. CASE answered[u] # {}
      <4>1. answered[u] = {identity[u].actor}
        BY <3>2 DEF HumanInv, AnsweredAsIdentity
      <4>2. Cardinality({identity[u].actor}) = 1
        BY FS_Singleton
      <4> QED BY <4>1, <4>2
    <3> QED BY <3>1, <3>2
  <2>2. ASSUME NEW u \in Subjects, NEW v \in Subjects, u # v
        PROVE  answered[u] \cap answered[v] = {}
    BY <2>2 DEF HumanInv, AnsweredAsIdentity
  <2> QED BY <2>1, <2>2 DEF OneActorPerSubject
<1> QED BY <1>1, AlwaysHumanInv, PTL

\* human_repo.go, the creating transaction: an identity and its actor exist
\* together, and no two humans share a name.
THEOREM IdentitiesHaveActors == Spec => []IdentityHasActor
<1>1. HumanInv => IdentityHasActor
  BY DEF HumanInv
<1> QED BY <1>1, AlwaysHumanInv, PTL

-----------------------------------------------------------------------------
\* A request that does not end goes on for the same session.
LEMMA StepMoves ==
  ASSUME HumanInv, NEW p \in Procs, Step(p), ~ End(p)
  PROVE  OnlyMoves(p) /\ req[p].pc # "idle" /\ req'[p].sid = req[p].sid
<1>t. TypeOK /\ ReqShape
  BY DEF HumanInv
<1>1. CASE ReadSession(p) \/ RefreshAccepted(p)
  BY <1>1, <1>t DEF ReadSession, RefreshAccepted, Go, Knows, ReqShape, OnlyMoves
<1>2. CASE RefreshFailed(p) \/ DeleteSession(p) \/ SaveSession(p)
  BY <1>2, <1>t DEF RefreshFailed, DeleteSession, SaveSession, Go, Knows, ReqShape, OnlyMoves
<1>3. CASE FindIdentity(p) \/ UpdateRole(p)
  BY <1>3, <1>t DEF FindIdentity, UpdateRole, Go, Knows, ReqShape, OnlyMoves
<1>4. CASE InsertIdentity(p) \/ InsertActor(p)
  BY <1>4, <1>t DEF InsertIdentity, InsertActor, Go, Knows, ReqShape, OnlyMoves
<1>5. CASE CommitActor(p) \/ FindWinner(p) \/ FindActor(p)
  BY <1>5, <1>t DEF CommitActor, FindWinner, FindActor, Go, Knows, ReqShape, OnlyMoves
<1> QED BY <1>1, <1>2, <1>3, <1>4, <1>5 DEF Step

\* A refresh token in a row or in a request is never ahead of the one the grant
\* accepts: a rotation makes nobody's token current but the caller's own.
TokensBehind ==
    \A s \in Sids : kcToken[s] # 0 =>
        /\ sessions[s] # None => sessions[s].token <= kcToken[s]
        /\ \A p \in Procs : req[p].pc \in {"refresh", "save"} /\ req[p].sid = s
              => req[p].token <= kcToken[s]

SessionInv == HumanInv /\ TokensBehind

\* What a step may do to a session that is over.
OverStep(s) == \/ LoggedIn(s)
               \/ /\ Inside(s)' \subseteq Inside(s)
                  /\ Over(s)' \/ \E p \in Inside(s) : SavedLate(p, s)

\* A request that moves to neither a refresh nor a Save, and is let in by no
\* session it was not inside, while the sessions and grants stay.
LEMMA QuietMove ==
  ASSUME SessionInv, NEW p \in Procs, OnlyMoves(p), UNCHANGED <<sessions, kcToken>>,
         req'[p].pc \notin {"refresh", "save"},
         \A s \in Sids : Over(s) /\ Admitted(p, s)' => p \in Inside(s)
  PROVE  TokensBehind' /\ \A s \in Sids : Over(s) => OverStep(s)
<1>1. TokensBehind'
  BY DEF SessionInv, TokensBehind, OnlyMoves
<1>2. ASSUME NEW s \in Sids, Over(s) PROVE OverStep(s)
  <2>1. ASSUME NEW q \in Procs, q \in Inside(s)' PROVE q \in Inside(s)
    <3>1. CASE q = p
      BY <1>2, <2>1, <3>1 DEF Inside, Refreshes
    <3>2. CASE q # p
      BY <2>1, <3>2 DEF Inside, Admitted, Refreshes, Active, OnlyMoves
    <3> QED BY <3>1, <3>2
  <2>2. Over(s)'
    BY <1>2 DEF Over
  <2> QED BY <2>1, <2>2 DEF OverStep, Inside
<1> QED BY <1>1, <1>2

\* GetOrCreateHumanActor, a failing refresh and every end.
LEMMA HandlerMoves ==
  ASSUME SessionInv, NEW p \in Procs,
         \/ StatementFails(p) \/ RefreshFailed(p)
         \/ FindIdentity(p) \/ UpdateRole(p) \/ InsertIdentity(p) \/ InsertActor(p)
         \/ CommitActor(p) \/ FindWinner(p) \/ FindActor(p)
  PROVE  TokensBehind' /\ \A s \in Sids : Over(s) => OverStep(s)
<1>t. TypeOK /\ ReqShape /\ HumanInv
  BY DEF HumanInv, SessionInv
<1>1. UNCHANGED <<sessions, kcToken>>
  BY DEF StatementFails, RefreshFailed, FindIdentity, UpdateRole, InsertIdentity,
         InsertActor, CommitActor, FindWinner, FindActor, tables, keycloak
<1>2. CASE End(p)
  <2>1. OnlyMoves(p) /\ req'[p] = IdleReq
    BY <1>2, <1>t, EndMoves
  <2>2. req'[p].pc = "idle"
    BY <2>1 DEF IdleReq
  <2> QED BY <1>1, <2>1, <2>2, QuietMove DEF Admitted, Active
<1>3. CASE RefreshFailed(p)
  <2>1. OnlyMoves(p) /\ req'[p].pc = "delete"
    BY <1>3, <1>t DEF RefreshFailed, Go, Knows, ReqShape, OnlyMoves
  <2> QED BY <1>1, <2>1, QuietMove DEF Admitted
<1>4. CASE Step(p) /\ ~ End(p) /\ ~ RefreshFailed(p)
  <2>1. OnlyMoves(p) /\ req[p].pc # "idle" /\ req'[p].sid = req[p].sid
    BY <1>4, <1>t, StepMoves
  <2>2. req[p].pc \notin {"session", "refresh", "delete", "save"}
    BY <1>4 DEF StatementFails, FindIdentity, UpdateRole, InsertIdentity,
                InsertActor, CommitActor, FindWinner, FindActor
  <2>3. req'[p].pc \notin {"refresh", "save"}
    <3>1. CASE FindIdentity(p) \/ UpdateRole(p)
      BY <3>1, <1>t DEF FindIdentity, UpdateRole, Go, Knows, ReqShape
    <3>2. CASE InsertIdentity(p) \/ InsertActor(p)
      BY <3>2, <1>4, <1>t DEF InsertIdentity, InsertActor, Go, Knows, ReqShape
    <3>3. CASE CommitActor(p) \/ FindWinner(p)
      BY <3>3, <1>4, <1>t DEF CommitActor, FindWinner, Go, Knows, ReqShape
    <3> QED BY <1>4, <3>1, <3>2, <3>3 DEF FindActor, StatementFails
  <2> QED BY <1>1, <2>1, <2>2, <2>3, QuietMove DEF Inside, Admitted, Active
<1> QED BY <1>2, <1>3, <1>4 DEF StatementFails, Step

\* A session that is over, read: no row ends the request, and what a stale row
\* holds is no token of an ended grant.
LEMMA ReadSessionMoves ==
  ASSUME SessionInv, NEW p \in Procs, ReadSession(p)
  PROVE  TokensBehind' /\ \A s \in Sids : Over(s) => OverStep(s)
<1> DEFINE z == req[p].sid
           row == sessions[z]
<1>t. TypeOK /\ ReqShape /\ HumanInv
  BY DEF HumanInv, SessionInv
<1>0. z \in Sids /\ UNCHANGED <<sessions, kcToken>>
  BY <1>t, ReqFields DEF ReadSession, tables, keycloak
<1>1. CASE End(p)
  <2>1. OnlyMoves(p) /\ req'[p] = IdleReq
    BY <1>1, <1>t, EndMoves
  <2>2. req'[p].pc = "idle"
    BY <2>1 DEF IdleReq
  <2> QED BY <1>0, <2>1, <2>2, QuietMove DEF Admitted, Active
<1>2. CASE row # None /\ row.fresh
             /\ Go(p, [pc |-> "identity", subject |-> row.subject, role |-> row.role])
  <2>1. OnlyMoves(p) /\ req'[p].pc = "identity" /\ req'[p].sid = z
    BY <1>2, <1>t DEF Go, Knows, ReqShape, OnlyMoves
  <2>2. ~ Over(z)
    BY <1>2 DEF Over
  <2> QED BY <1>0, <2>1, <2>2, QuietMove DEF Admitted
<1>3. CASE row # None /\ ~ row.fresh
             /\ Go(p, [pc |-> "refresh", subject |-> row.subject, token |-> row.token])
  <2>1. /\ OnlyMoves(p) /\ req'[p].pc = "refresh"
        /\ req'[p].sid = z /\ req'[p].token = row.token
    BY <1>3, <1>t DEF Go, Knows, ReqShape, OnlyMoves
  <2>2. row.token \in 1 .. MaxToken
    <3>1. row \in Rows
      BY <1>0, <1>3, <1>t DEF TypeOK
    <3> QED BY <3>1 DEF Rows
  <2>3. TokensBehind'
    <3>1. kcToken[z] # 0 => row.token <= kcToken[z]
      BY <1>0, <1>3 DEF SessionInv, TokensBehind
    <3> QED BY <1>0, <2>1, <3>1 DEF SessionInv, TokensBehind, OnlyMoves
  <2>4. ASSUME NEW s \in Sids, Over(s) PROVE OverStep(s)
    <3>1. ASSUME NEW q \in Procs, q \in Inside(s)' PROVE q \in Inside(s)
      <4>1. CASE q = p
        <5>1. s = z /\ row.token = kcToken[z]
          BY <1>0, <2>1, <3>1, <4>1 DEF Inside, Admitted, Refreshes
        <5>2. kcToken[z] = 0
          BY <1>3, <2>4, <5>1 DEF Over
        <5> QED BY <5>1, <5>2, <2>2
      <4>2. CASE q # p
        BY <1>0, <2>1, <3>1, <4>2 DEF Inside, Admitted, Refreshes, Active, OnlyMoves
      <4> QED BY <4>1, <4>2
    <3>2. Over(s)'
      BY <1>0, <2>4 DEF Over
    <3> QED BY <3>1, <3>2 DEF OverStep, Inside
  <2> QED BY <2>3, <2>4
<1> QED BY <1>1, <1>2, <1>3 DEF ReadSession

\* Keycloak takes only the current token, so who comes back was inside; the
\* rotated one is ahead of every other.
LEMMA RefreshMoves ==
  ASSUME SessionInv, NEW p \in Procs, RefreshAccepted(p)
  PROVE  TokensBehind' /\ \A s \in Sids : Over(s) => OverStep(s)
<1> DEFINE z == req[p].sid
           k == kcToken[z]
<1>t. TypeOK /\ ReqShape /\ HumanInv
  BY DEF HumanInv, SessionInv
<1>0. /\ z \in Sids /\ req[p].token \in 1 .. MaxToken /\ req[p].pc = "refresh"
      /\ req[p].token = k /\ sessions' = sessions
  BY <1>t, ReqFields DEF RefreshAccepted, tables
<1>1. PICK new \in {k, k + 1} :
         /\ new <= MaxToken
         /\ kcToken' = [kcToken EXCEPT ![z] = new]
         /\ Go(p, [pc |-> "save", role |-> kcRole[req[p].subject], token |-> new])
  BY DEF RefreshAccepted
<1>2. /\ OnlyMoves(p) /\ req'[p].pc = "save"
      /\ req'[p].sid = z /\ req'[p].token = new
  BY <1>0, <1>1, <1>t DEF Go, Knows, ReqShape, OnlyMoves
<1>3. /\ k # 0 /\ k \in Int /\ new \in Int /\ k <= new
      /\ \A s \in Sids : kcToken'[s] = IF s = z THEN new ELSE kcToken[s]
  BY <1>0, <1>1, <1>t DEF TypeOK
<1>4. /\ sessions[z] # None => sessions[z].token \in Int
      /\ \A q \in Procs : req[q].pc \in {"refresh", "save"} => req[q].token \in Int
  <2>1. sessions[z] # None => sessions[z] \in Rows
    BY <1>0, <1>t DEF TypeOK
  <2>2. \A q \in Procs : req[q].pc \in {"refresh", "save"} => req[q].token \in 1 .. MaxToken
    BY <1>t, ReqFields
  <2> QED BY <2>1, <2>2 DEF Rows
<1>5. TokensBehind'
  <2> SUFFICES ASSUME NEW s \in Sids, kcToken'[s] # 0
               PROVE  /\ sessions'[s] # None => sessions'[s].token <= kcToken'[s]
                      /\ \A q \in Procs :
                            req'[q].pc \in {"refresh", "save"} /\ req'[q].sid = s
                               => req'[q].token <= kcToken'[s]
    BY DEF TokensBehind
  <2>1. CASE s # z
    BY <1>0, <1>2, <1>3, <2>1 DEF SessionInv, TokensBehind, OnlyMoves
  <2>2. CASE s = z
    <3>1. sessions[z] # None => sessions[z].token <= k
      BY <1>0, <1>3 DEF SessionInv, TokensBehind
    <3>2. ASSUME NEW q \in Procs, req'[q].pc \in {"refresh", "save"}, req'[q].sid = z
          PROVE  req'[q].token <= new
      <4>1. CASE q = p
        BY <1>2, <1>3, <4>1
      <4>2. CASE q # p
        <5>1. req'[q] = req[q] /\ req[q].token <= k
          BY <1>0, <1>2, <1>3, <3>2, <4>2 DEF SessionInv, TokensBehind, OnlyMoves
        <5> QED BY <5>1, <1>3, <1>4, <3>2
      <4> QED BY <4>1, <4>2
    <3> QED BY <1>0, <1>3, <1>4, <2>2, <3>1, <3>2
  <2> QED BY <2>1, <2>2
<1>6. ASSUME NEW s \in Sids, Over(s) PROVE OverStep(s)
  <2>1. ASSUME NEW q \in Procs, q \in Inside(s)' PROVE q \in Inside(s)
    <3>1. CASE q = p
      BY <1>0, <1>2, <2>1, <3>1 DEF Inside, Admitted, Refreshes, Active
    <3>2. CASE q # p /\ s # z
      BY <1>2, <1>3, <2>1, <3>2 DEF Inside, Admitted, Refreshes, Active, OnlyMoves
    <3>3. CASE q # p /\ s = z
      <4>1. req'[q] = req[q]
        BY <1>2, <3>3 DEF OnlyMoves
      <4>2. CASE req[q].pc = "refresh" /\ req[q].token = new /\ req[q].sid = z
        <5>1. req[q].token <= k
          BY <1>0, <1>3, <4>2 DEF SessionInv, TokensBehind
        <5>2. req[q].token = k
          BY <5>1, <4>2, <1>3
        <5> QED BY <3>3, <4>2, <5>2 DEF Inside, Refreshes, Active
      <4> QED BY <1>3, <2>1, <3>3, <4>1, <4>2 DEF Inside, Admitted, Refreshes, Active
    <3> QED BY <3>1, <3>2, <3>3
  <2>2. Over(s)'
    BY <1>0, <1>3, <1>6 DEF Over
  <2> QED BY <2>1, <2>2 DEF OverStep, Inside
<1> QED BY <1>5, <1>6

\* A Save opens its session again; it was inside, and goes on as it was.
LEMMA SaveMoves ==
  ASSUME SessionInv, NEW p \in Procs, SaveSession(p)
  PROVE  TokensBehind' /\ \A s \in Sids : Over(s) => OverStep(s)
<1> DEFINE z == req[p].sid
<1>t. TypeOK /\ ReqShape /\ HumanInv
  BY DEF HumanInv, SessionInv
<1>0. z \in Sids /\ req[p].pc = "save" /\ kcToken' = kcToken
  BY <1>t, ReqFields DEF SaveSession, keycloak
<1>1. \A s \in Sids : sessions'[s] = IF s = z THEN Refreshed(p) ELSE sessions[s]
  BY <1>0, <1>t DEF SaveSession, TypeOK
<1>2. OnlyMoves(p) /\ req'[p].pc = "identity" /\ req'[p].sid = z
  BY <1>0, <1>t DEF SaveSession, Go, Knows, ReqShape, OnlyMoves
<1>3. TokensBehind'
  <2>1. kcToken[z] # 0 => req[p].token <= kcToken[z]
    BY <1>0 DEF SessionInv, TokensBehind
  <2>2. Refreshed(p).token = req[p].token
    BY DEF Refreshed
  <2> QED BY <1>0, <1>1, <1>2, <2>1, <2>2 DEF SessionInv, TokensBehind, OnlyMoves
<1>4. ASSUME NEW s \in Sids, Over(s) PROVE OverStep(s)
  <2>1. ASSUME NEW q \in Procs, q \in Inside(s)' PROVE q \in Inside(s)
    BY <1>0, <1>2, <2>1 DEF Inside, Admitted, Refreshes, Active, OnlyMoves
  <2>2. CASE s # z
    BY <1>0, <1>1, <1>4, <2>1, <2>2 DEF OverStep, Over, Inside
  <2>3. CASE s = z
    <3>1. p \in Inside(s) /\ SavedLate(p, s)
      BY <1>0, <1>1, <2>3 DEF Inside, Refreshes, Active, SavedLate
    <3> QED BY <2>1, <3>1 DEF OverStep, Inside
  <2> QED BY <2>2, <2>3
<1> QED BY <1>3, <1>4

LEMMA DeleteMoves ==
  ASSUME SessionInv, NEW p \in Procs, DeleteSession(p)
  PROVE  TokensBehind' /\ \A s \in Sids : Over(s) => OverStep(s)
<1>t. TypeOK /\ ReqShape /\ HumanInv
  BY DEF HumanInv, SessionInv
<1>1. /\ kcToken' = kcToken
      /\ \A s \in Sids : sessions'[s] \in {sessions[s], None}
  BY <1>t DEF DeleteSession, keycloak, TypeOK
<1>2. OnlyMoves(p) /\ req'[p] = IdleReq
  BY <1>t, EndMoves DEF DeleteSession
<1>3. req'[p].pc = "idle"
  BY <1>2 DEF IdleReq
<1>4. TokensBehind'
  BY <1>1, <1>2, <1>3 DEF SessionInv, TokensBehind, OnlyMoves
<1>5. ASSUME NEW s \in Sids, Over(s) PROVE OverStep(s)
  <2>1. ASSUME NEW q \in Procs, q \in Inside(s)' PROVE q \in Inside(s)
    BY <1>1, <1>2, <1>3, <2>1 DEF Inside, Admitted, Refreshes, Active, OnlyMoves
  <2>2. Over(s)'
    BY <1>1, <1>5 DEF Over
  <2> QED BY <2>1, <2>2 DEF OverStep, Inside
<1> QED BY <1>4, <1>5

\* Keycloak, logins, logouts and new requests let nobody else in.
LEMMA WorldMoves ==
  ASSUME SessionInv,
         \/ \E u \in Subjects : ChangeRole(u)
         \/ \E r \in Sids : EndGrant(r) \/ Logout(r) \/ Expire(r)
         \/ \E r \in Sids, u \in Subjects : Callback(r, u)
         \/ \E p \in Procs, r \in Sids : Begin(p, r)
         \/ UNCHANGED vars
  PROVE  TokensBehind' /\ \A s \in Sids : Over(s) => OverStep(s)
<1>t. TypeOK /\ ReqShape /\ HumanInv
  BY DEF HumanInv, SessionInv
<1>n. \A p \in Procs, s \in Sids :
         /\ Inside(s) \subseteq Procs
         /\ req[p].pc \in {"refresh", "save"} => req[p].token \in 1 .. MaxToken
  BY <1>t, ReqFields DEF Inside
<1>1. ASSUME UNCHANGED <<sessions, req, kcToken>>
      PROVE  TokensBehind' /\ \A s \in Sids : Over(s) => OverStep(s)
  BY <1>1 DEF SessionInv, TokensBehind, OverStep, Over, Inside, Admitted, Refreshes, Active
<1>2. ASSUME NEW r \in Sids, EndGrant(r)
      PROVE  TokensBehind' /\ \A s \in Sids : Over(s) => OverStep(s)
  <2>1. \A s \in Sids : kcToken'[s] = IF s = r THEN 0 ELSE kcToken[s]
    BY <1>2, <1>t DEF EndGrant, TypeOK
  <2>2. TokensBehind'
    BY <1>2, <2>1 DEF EndGrant, tables, SessionInv, TokensBehind
  <2>3. ASSUME NEW s \in Sids, Over(s) PROVE OverStep(s)
    <3>1. ASSUME NEW q \in Procs, q \in Inside(s)' PROVE q \in Inside(s)
      BY <1>2, <1>n, <2>1, <3>1 DEF EndGrant, Inside, Admitted, Refreshes, Active
    <3>2. Over(s)'
      BY <1>2, <2>1, <2>3 DEF EndGrant, tables, Over
    <3> QED BY <3>1, <3>2 DEF OverStep, Inside
  <2> QED BY <2>2, <2>3
<1>3. ASSUME NEW r \in Sids, Logout(r) \/ Expire(r)
      PROVE  TokensBehind' /\ \A s \in Sids : Over(s) => OverStep(s)
  <2>1. UNCHANGED <<req, kcToken>>
    BY <1>3 DEF Logout, Expire, keycloak
  <2>2. ASSUME NEW s \in Sids
        PROVE  \/ sessions'[s] \in {sessions[s], None}
               \/ /\ sessions[s] # None /\ sessions'[s].token = sessions[s].token
                  /\ ~ sessions'[s].fresh
    <3>1. CASE Logout(r)
      BY <3>1, <1>t DEF Logout, TypeOK
    <3>2. CASE Expire(r)
      <4>1. sessions[r] \in Rows
        BY <3>2, <1>t DEF Expire, TypeOK
      <4>2. sessions'[s] = IF s = r THEN [sessions[r] EXCEPT !.fresh = FALSE] ELSE sessions[s]
        BY <3>2, <1>t DEF Expire, TypeOK
      <4> QED BY <3>2, <4>1, <4>2 DEF Expire, Rows
    <3> QED BY <1>3, <3>1, <3>2
  <2>3. TokensBehind'
    BY <2>1, <2>2 DEF SessionInv, TokensBehind
  <2>4. ASSUME NEW s \in Sids, Over(s) PROVE OverStep(s)
    <3>1. Inside(s)' = Inside(s)
      BY <2>1 DEF Inside, Admitted, Refreshes, Active
    <3>2. Over(s)'
      BY <2>1, <2>2, <2>4 DEF Over
    <3> QED BY <3>1, <3>2 DEF OverStep
  <2> QED BY <2>3, <2>4
<1>4. ASSUME NEW r \in Sids, NEW u \in Subjects, Callback(r, u)
      PROVE  TokensBehind' /\ \A s \in Sids : Over(s) => OverStep(s)
  <2> DEFINE new == [subject |-> u, role |-> kcRole[u], token |-> 1, fresh |-> TRUE]
  <2>1. /\ req' = req /\ kcToken[r] = 0
        /\ \A p \in Procs : Active(p) => req[p].sid # r
        /\ \A s \in Sids : /\ sessions'[s] = IF s = r THEN new ELSE sessions[s]
                           /\ kcToken'[s] = IF s = r THEN 1 ELSE kcToken[s]
    BY <1>4, <1>t DEF Callback, TypeOK
  <2>2. new.token = 1
    OBVIOUS
  <2>3. TokensBehind'
    BY <2>1, <2>2 DEF SessionInv, TokensBehind, Active
  <2>4. ASSUME NEW s \in Sids, Over(s) PROVE OverStep(s)
    <3>1. CASE s = r
      BY <2>1, <3>1 DEF OverStep, LoggedIn
    <3>2. CASE s # r
      BY <2>1, <2>4, <3>2 DEF OverStep, Over, Inside, Admitted, Refreshes, Active
    <3> QED BY <3>1, <3>2
  <2> QED BY <2>3, <2>4
<1>5. ASSUME NEW p \in Procs, NEW r \in Sids, Begin(p, r)
      PROVE  TokensBehind' /\ \A s \in Sids : Over(s) => OverStep(s)
  <2>1. OnlyMoves(p) /\ req'[p].pc = "session" /\ UNCHANGED <<sessions, kcToken>>
    BY <1>5, <1>t DEF Begin, ReqShape, OnlyMoves, tables, keycloak
  <2> QED BY <2>1, QuietMove DEF Admitted
<1> QED BY <1>1, <1>2, <1>3, <1>4, <1>5 DEF ChangeRole, tables, vars

\* What every step does to sessions that are over.
LEMMA NextMoves ==
  SessionInv /\ [Next]_vars => TokensBehind' /\ \A s \in Sids : Over(s) => OverStep(s)
  BY HandlerMoves, ReadSessionMoves, RefreshMoves, SaveMoves, DeleteMoves, WorldMoves
     DEF Next, Step

LEMMA AlwaysSessionInv == Spec => []SessionInv
<1>1. Init => SessionInv
  BY InitHumanInv DEF Init, SessionInv, TokensBehind
<1>2. SessionInv /\ [Next]_vars => SessionInv'
  BY NextMoves, NextHumanInv DEF SessionInv
<1> QED BY <1>1, <1>2, PTL DEF Spec

\* models.go on Session: its lifetime is bounded by Keycloak's refresh token, and
\* a logout ends it.  Once a session is over nobody new is let in, and only a
\* new login, or the Save of a refresh that was inside when it ended, opens it.
THEOREM OverSessionsStayOver == Spec => OverAdmitsNobodyNew
<1>1. SessionInv /\ [Next]_vars =>
        [\A s \in Sids : Over(s) =>
            \/ LoggedIn(s)
            \/ /\ Inside(s)' \subseteq Inside(s)
               /\ Over(s)' \/ \E p \in Inside(s) : SavedLate(p, s)]_vars
  BY NextMoves DEF OverStep
<1> QED BY <1>1, AlwaysSessionInv, PTL DEF Spec, OverAdmitsNobodyNew
=============================================================================
