-------------------------- MODULE CredentialsProofs --------------------------
(***************************************************************************)
(* Credentials' properties for any number of actors, tokens and requests.  *)
(* CredInv adds that the table and the history of revocations agree, and   *)
(* what a request under way remembers: a token that was revoked before it  *)
(* arrived is still revoked, and one it has looked up was not.             *)
(***************************************************************************)
EXTENDS Credentials, TLAPS

Looked == {"touch", "actor", "admitted"}

\* What a revocation was about is revoked, and nothing else is.
ShutIsRevoked ==
    /\ \A c \in shut : Issued(c) /\ cred[c].revoked
    /\ \A c \in Tokens : Issued(c) /\ cred[c].revoked => c \in shut

\* What was issued and shut when the GET began still is.
BeforeIsPast ==
    /\ \A c \in before.issued : Issued(c)
    /\ before.shut \subseteq shut

\* A late request's token is shut; a request past the lookup is not late and
\* its token has a row.
LateIsShut ==
    \A p \in Procs : ~ At(p, "idle") =>
        /\ call[p].late => call[p].token \in shut
        /\ call[p].pc \in Looked => ~ call[p].late /\ Issued(call[p].token)

CredInv == TypeOK /\ ShutIsRevoked /\ BeforeIsPast /\ LateIsShut /\ ListTellsWhoMayCall

\* The initial tables are empty.
LEMMA InitCredInv == Init => CredInv
  BY DEF Init, CredInv, TypeOK, ShutIsRevoked, BeforeIsPast, LateIsShut,
         ListTellsWhoMayCall, At, Issued, NoCred, IdleCall, IdlePage, Calls, Pages, Rows

\* A row is not the mark of a missing one.
LEMMA RowIsIssued == \A row \in Rows : row # NoCred
  BY DEF Rows, NoCred

\* What a request under way has in its record.
LEMMA CallFields ==
  ASSUME TypeOK, NEW p \in Procs
  PROVE  /\ ~ At(p, "idle") => call[p].token \in Tokens /\ call[p].late \in BOOLEAN
         /\ call[p].pc \in Looked => call[p].owner \in Ids
         /\ At(p, "idle") => call[p] = IdleCall
  BY DEF TypeOK, Calls, IdleCall, At, Looked

\* A step that rewrites rows without touching owner and revoked keeps CredInv's
\* statements about the table.
LEMMA TablePartKept ==
  ASSUME CredInv, UNCHANGED <<page, shut, before>>,
         \A c \in Tokens : /\ Issued(c)' <=> Issued(c)
                           /\ Issued(c) => /\ cred'[c].owner = cred[c].owner
                                           /\ cred'[c].revoked = cred[c].revoked
  PROVE  ShutIsRevoked' /\ BeforeIsPast' /\ ListTellsWhoMayCall'
<1>1. shut \subseteq Tokens /\ before.issued \subseteq Tokens
  BY DEF CredInv, TypeOK
<1>2. \A a \in Ids : TokensOf(a)' = TokensOf(a)
  BY DEF TokensOf
<1>3. ShutIsRevoked' /\ BeforeIsPast'
  BY <1>1 DEF CredInv, ShutIsRevoked, BeforeIsPast
<1>4. ListTellsWhoMayCall'
  <2>1. page.pc = "shown" => page.agents \subseteq Ids
    BY DEF CredInv, TypeOK, Pages, IdlePage
  <2> QED BY <1>2, <2>1 DEF CredInv, ListTellsWhoMayCall
<1> QED BY <1>3, <1>4

\* A shown list stays true when tokens are only added and revocations only made.
LEMMA ListStaysTrue ==
  ASSUME CredInv, UNCHANGED <<page, before>>, shut \subseteq shut',
         \A c \in Tokens : Issued(c) => Issued(c)' /\ cred'[c].owner = cred[c].owner
  PROVE  ListTellsWhoMayCall'
<1> SUFFICES ASSUME page.pc = "shown", NEW a \in page.agents
             PROVE  /\ a \in page.active => ~ (TokensOf(a)' \subseteq before.shut)
                    /\ TokensOf(a)' \cap before.issued \subseteq shut' \/ a \in page.active
  BY DEF ListTellsWhoMayCall
<1>1. /\ a \in page.active => ~ (TokensOf(a) \subseteq before.shut)
      /\ TokensOf(a) \cap before.issued \subseteq shut \/ a \in page.active
  BY DEF CredInv, ListTellsWhoMayCall
<1>2. TokensOf(a) \subseteq TokensOf(a)'
  BY DEF TokensOf
<1>3. TokensOf(a)' \cap before.issued \subseteq TokensOf(a)
  <2>1. \A c \in before.issued : Issued(c)
    BY DEF CredInv, BeforeIsPast
  <2> QED BY <2>1 DEF TokensOf
<1> QED BY <1>1, <1>2, <1>3

\* A step of one request that leaves every row's owner and revoked alone, and
\* moves its own call within LateIsShut, keeps CredInv.
LEMMA CallStep ==
  ASSUME CredInv, NEW p \in Procs, NEW new \in Calls, Go(p, new),
         UNCHANGED <<kind, cred, page, shut, before>>,
         new.pc # "idle" =>
            /\ new.late => new.token \in shut
            /\ new.pc \in Looked => ~ new.late /\ Issued(new.token)
  PROVE  CredInv'
<1>1. TypeOK'
  BY DEF CredInv, TypeOK, Go
<1>2. \A q \in Procs : call'[q] = IF q = p THEN new ELSE call[q]
  BY DEF CredInv, TypeOK, Go
<1>3. LateIsShut'
  BY <1>2 DEF CredInv, LateIsShut, At, Issued
<1>4. ShutIsRevoked' /\ BeforeIsPast' /\ ListTellsWhoMayCall'
  BY TablePartKept DEF Issued
<1> QED BY <1>1, <1>3, <1>4 DEF CredInv

\* One conjunct of CredInv after the other for each action of Next.
LEMMA NextCredInv == CredInv /\ [Next]_vars => CredInv'
<1> SUFFICES ASSUME CredInv, [Next]_vars PROVE CredInv'
  OBVIOUS
<1>t. TypeOK /\ ShutIsRevoked /\ BeforeIsPast /\ LateIsShut /\ ListTellsWhoMayCall
  BY DEF CredInv
<1>i. \A p \in Procs : ~ At(p, "idle") => call[p].token \in Tokens
  BY <1>t, CallFields
<1>1. ASSUME NEW a \in Ids, NEW k \in {"agent", "human"}, CreateActor(a, k)
      PROVE  CredInv'
  <2>1. TypeOK'
    BY <1>1, <1>t DEF CreateActor, TypeOK
  <2>2. LateIsShut'
    BY <1>1, <1>t DEF CreateActor, LateIsShut, At, Issued
  <2>3. ShutIsRevoked' /\ BeforeIsPast' /\ ListTellsWhoMayCall'
    BY <1>1, TablePartKept DEF CreateActor, Issued
  <2> QED BY <2>1, <2>2, <2>3 DEF CredInv
<1>2. ASSUME NEW c \in Tokens, NEW a \in Ids, IssueAgentToken(c, a)
      PROVE  CredInv'
  <2> DEFINE row == [owner |-> a, revoked |-> FALSE, used |-> FALSE]
  <2>1. row \in Rows /\ row # NoCred
    BY DEF Rows, NoCred
  <2>2. \A d \in Tokens : cred'[d] = IF d = c THEN row ELSE cred[d]
    BY <1>2, <1>t DEF IssueAgentToken, TypeOK
  <2>3. TypeOK'
    BY <1>2, <1>t, <2>1 DEF IssueAgentToken, TypeOK
  <2>4. c \notin shut
    BY <1>2, <1>t DEF IssueAgentToken, ShutIsRevoked
  <2>5. ShutIsRevoked'
    BY <1>2, <1>t, <2>2, <2>4 DEF IssueAgentToken, ShutIsRevoked, Issued, TypeOK
  <2>6. LateIsShut'
    BY <1>2, <1>t, <1>i, <2>1, <2>2 DEF IssueAgentToken, LateIsShut, At, Issued
  <2>7. \A d \in Tokens : Issued(d) => Issued(d)' /\ cred'[d].owner = cred[d].owner
    BY <1>2, <2>2 DEF IssueAgentToken, Issued
  <2>8. BeforeIsPast'
    BY <1>2, <1>t, <2>7 DEF IssueAgentToken, BeforeIsPast, TypeOK
  <2>9. ListTellsWhoMayCall'
    BY <1>2, <2>7, ListStaysTrue DEF IssueAgentToken
  <2> QED BY <2>3, <2>5, <2>6, <2>8, <2>9 DEF CredInv
<1>3. ASSUME NEW cs \in SUBSET Tokens, \A c \in cs : Issued(c), Revoke(cs)
      PROVE  CredInv'
  <2>1. \A c \in Tokens :
           cred'[c] = IF c \in cs /\ Live(c) THEN [cred[c] EXCEPT !.revoked = TRUE]
                      ELSE cred[c]
    BY <1>3 DEF Revoke
  <2>2. \A c \in Tokens : Issued(c) => cred[c] \in Rows
    BY <1>t DEF TypeOK, Issued
  <2>3. \A c \in Tokens : Live(c) =>
           /\ [cred[c] EXCEPT !.revoked = TRUE] \in Rows
           /\ [cred[c] EXCEPT !.revoked = TRUE] # NoCred
           /\ [cred[c] EXCEPT !.revoked = TRUE].owner = cred[c].owner
           /\ [cred[c] EXCEPT !.revoked = TRUE].revoked
    BY <2>2 DEF Live, Rows, NoCred
  <2>4. \A c \in Tokens : /\ Issued(c)' <=> Issued(c)
                          /\ Issued(c) => cred'[c].owner = cred[c].owner
                          /\ Issued(c) /\ cred[c].revoked => cred'[c].revoked
                          /\ c \in cs => cred'[c].revoked
                          /\ c \notin cs => cred'[c] = cred[c]
    BY <1>3, <2>1, <2>3 DEF Live, Issued
  <2>5. TypeOK'
    <3>1. cred' \in [Tokens -> Rows \cup {NoCred}]
      BY <1>3, <1>t, <2>3 DEF Revoke, TypeOK
    <3> QED BY <1>3, <1>t, <3>1 DEF Revoke, TypeOK
  <2>6. ShutIsRevoked'
    BY <1>3, <1>t, <2>4 DEF Revoke, ShutIsRevoked, TypeOK
  <2>7. LateIsShut'
    BY <1>3, <1>t, <1>i, <2>4 DEF Revoke, LateIsShut, At
  <2>8. BeforeIsPast'
    BY <1>3, <1>t, <2>4 DEF Revoke, BeforeIsPast, TypeOK
  <2>9. ListTellsWhoMayCall'
    BY <1>3, <2>4, ListStaysTrue DEF Revoke
  <2> QED BY <2>5, <2>6, <2>7, <2>8, <2>9 DEF CredInv
<1>4. ASSUME NEW p \in Procs, NEW c \in Tokens, StartCall(p, c) PROVE CredInv'
  <2> DEFINE new == [pc |-> "find", token |-> c, late |-> c \in shut]
  <2>1. new \in Calls
    BY DEF Calls
  <2> QED BY <1>4, <2>1, CallStep DEF StartCall, Looked
<1>5. ASSUME NEW p \in Procs, FindCredential(p) PROVE CredInv'
  <2>1. call[p].token \in Tokens /\ call[p].late \in BOOLEAN /\ ~ At(p, "idle")
    BY <1>5, <1>t, CallFields DEF FindCredential, At
  <2>2. Issued(call[p].token) /\ ~ cred[call[p].token].revoked
    BY <1>5 DEF FindCredential, Live
  <2>3. ~ call[p].late
    BY <2>1, <2>2, <1>t DEF LateIsShut, ShutIsRevoked
  <2>4. cred[call[p].token].owner \in Ids
    BY <2>1, <2>2, <1>t DEF TypeOK, Issued, Rows
  <2> DEFINE new == [pc |-> "touch", token |-> call[p].token, late |-> call[p].late,
                     owner |-> cred[call[p].token].owner]
  <2>5. new \in Calls
    BY <2>1, <2>4 DEF Calls
  <2>6. Go(p, new) /\ UNCHANGED <<kind, cred, page, shut, before>>
    BY <1>5 DEF FindCredential, Asks
  <2> QED BY <2>2, <2>3, <2>5, <2>6, CallStep
<1>6. ASSUME NEW p \in Procs, NotFound(p) \/ NoActor(p) \/ EndCall(p) PROVE CredInv'
  BY <1>6, CallStep DEF NotFound, NoActor, EndCall, Calls, IdleCall
<1>7. ASSUME NEW p \in Procs, TouchFails(p) \/ ReadActor(p) PROVE CredInv'
  <2>1. ~ At(p, "idle") /\ call[p].pc \in Looked
    BY <1>7 DEF TouchFails, ReadActor, At, Looked
  <2>2. /\ call[p].token \in Tokens /\ call[p].late \in BOOLEAN /\ call[p].owner \in Ids
        /\ ~ call[p].late /\ Issued(call[p].token)
    BY <2>1, <1>t, CallFields DEF LateIsShut
  <2>3. PICK pc \in Looked : Asks(p, pc, call[p].owner)
    BY <1>7 DEF TouchFails, ReadActor, Looked
  <2> DEFINE new == [pc |-> pc, token |-> call[p].token, late |-> call[p].late,
                     owner |-> call[p].owner]
  <2>4. new \in Calls
    BY <2>2, <2>3 DEF Calls, Looked
  <2>5. Go(p, new) /\ UNCHANGED <<kind, cred, page, shut, before>>
    BY <1>7, <2>3 DEF TouchFails, ReadActor, Asks
  <2> QED BY <2>2, <2>4, <2>5, CallStep
<1>8. ASSUME NEW p \in Procs, TouchCredential(p) PROVE CredInv'
  <2> DEFINE c == call[p].token
             new == [pc |-> "actor", token |-> call[p].token, late |-> call[p].late,
                     owner |-> call[p].owner]
  <2>1. ~ At(p, "idle") /\ call[p].pc \in Looked
    BY <1>8 DEF TouchCredential, At, Looked
  <2>2. /\ c \in Tokens /\ call[p].late \in BOOLEAN /\ call[p].owner \in Ids
        /\ ~ call[p].late /\ Issued(c)
    BY <2>1, <1>t, CallFields DEF LateIsShut
  <2>3. cred[c] \in Rows
    BY <2>2, <1>t DEF TypeOK, Issued
  <2>4. /\ [cred[c] EXCEPT !.used = TRUE] \in Rows
        /\ [cred[c] EXCEPT !.used = TRUE] # NoCred
        /\ [cred[c] EXCEPT !.used = TRUE].owner = cred[c].owner
        /\ [cred[c] EXCEPT !.used = TRUE].revoked = cred[c].revoked
    BY <2>3 DEF Rows, NoCred
  <2>5. \A d \in Tokens :
           cred'[d] = IF d = c THEN [cred[c] EXCEPT !.used = TRUE] ELSE cred[d]
    BY <1>8, <2>2, <1>t DEF TouchCredential, TypeOK
  <2>6. new \in Calls
    BY <2>2 DEF Calls
  <2>7. \A q \in Procs : call'[q] = IF q = p THEN new ELSE call[q]
    BY <1>8, <1>t DEF TouchCredential, Asks, Go, TypeOK
  <2>8. TypeOK'
    <3>1. cred' \in [Tokens -> Rows \cup {NoCred}]
      BY <1>8, <1>t, <2>2, <2>4 DEF TouchCredential, TypeOK
    <3>2. call' \in [Procs -> Calls]
      BY <1>8, <1>t, <2>6 DEF TouchCredential, Asks, Go, TypeOK
    <3> QED BY <1>8, <1>t, <3>1, <3>2 DEF TouchCredential, TypeOK
  <2>9. \A d \in Tokens : /\ Issued(d)' <=> Issued(d)
                          /\ Issued(d) => /\ cred'[d].owner = cred[d].owner
                                          /\ cred'[d].revoked = cred[d].revoked
    BY <2>2, <2>4, <2>5 DEF Issued
  <2>10. ShutIsRevoked' /\ BeforeIsPast' /\ ListTellsWhoMayCall'
    BY <1>8, <2>9, TablePartKept DEF TouchCredential
  <2>11. LateIsShut'
    BY <1>8, <1>t, <1>i, <2>2, <2>7, <2>9 DEF TouchCredential, LateIsShut, At
  <2> QED BY <2>8, <2>10, <2>11 DEF CredInv
<1>9. CASE ReadAgents
  <2> DEFINE agents == {a \in Ids : kind[a] = "agent"}
             theirs == UNION {TokensOf(a) : a \in agents}
  <2>1. page' \in Pages /\ page'.pc # "shown"
    BY <1>9 DEF ReadAgents, Pages
  <2>2. /\ theirs \subseteq Tokens /\ \A c \in theirs : Issued(c)
        /\ before' = [issued |-> theirs, shut |-> theirs \cap shut]
        /\ UNCHANGED <<kind, cred, call, shut>>
    BY <1>9 DEF ReadAgents, TokensOf
  <2>3. TypeOK'
    BY <1>t, <2>1, <2>2 DEF TypeOK
  <2>4. BeforeIsPast'
    BY <2>2 DEF BeforeIsPast, Issued
  <2> QED BY <1>t, <2>1, <2>2, <2>3, <2>4
          DEF CredInv, ShutIsRevoked, LateIsShut, ListTellsWhoMayCall, At, Issued
<1>10. CASE ReadActiveTokens
  <2>1. /\ page.agents \in SUBSET Ids
        /\ page' = [pc |-> "shown", agents |-> page.agents,
                    active |-> {a \in page.agents : Usable(a)}]
        /\ UNCHANGED <<kind, cred, call, shut, before>>
    BY <1>10, <1>t DEF ReadActiveTokens, TypeOK, Pages, IdlePage
  <2>2. page' \in Pages
    BY <2>1 DEF Pages
  <2>3. TypeOK'
    BY <1>t, <2>1, <2>2 DEF TypeOK
  <2>4. ListTellsWhoMayCall'
    <3> SUFFICES ASSUME NEW a \in page.agents
                 PROVE  /\ Usable(a) => ~ (TokensOf(a) \subseteq before.shut)
                        /\ TokensOf(a) \cap before.issued \subseteq shut \/ Usable(a)
      BY <2>1 DEF ListTellsWhoMayCall, TokensOf, Issued
    <3>1. Usable(a) => ~ (TokensOf(a) \subseteq before.shut)
      BY <1>t DEF Usable, Live, TokensOf, ShutIsRevoked, BeforeIsPast
    <3>2. ASSUME NEW c \in TokensOf(a), c \notin shut PROVE Usable(a)
      <4>1. Live(c)
        BY <1>t, <3>2 DEF TokensOf, Live, ShutIsRevoked
      <4> QED BY <4>1 DEF Usable
    <3> QED BY <3>1, <3>2
  <2> QED BY <1>t, <2>1, <2>3, <2>4
          DEF CredInv, ShutIsRevoked, BeforeIsPast, LateIsShut, At, Issued
<1>11. CASE UNCHANGED vars
  BY <1>11, <1>t DEF vars, CredInv, TypeOK, ShutIsRevoked, BeforeIsPast, LateIsShut,
                     ListTellsWhoMayCall, At, Issued, TokensOf
<1>12. ASSUME NEW a \in Ids, CreateAgent(a) \/ CreateHuman(a) \/ RevokeAllAgentCredentials(a)
       PROVE  CredInv'
  <2>1. TokensOf(a) \in SUBSET Tokens /\ \A c \in TokensOf(a) : Issued(c)
    BY DEF TokensOf
  <2> QED BY <1>1, <1>3, <1>12, <2>1 DEF CreateAgent, CreateHuman, RevokeAllAgentCredentials
<1>13. ASSUME NEW c \in Tokens, RevokeAgentToken(c) PROVE CredInv'
  BY <1>3, <1>13 DEF RevokeAgentToken
<1> QED
  BY <1>2, <1>4, <1>5, <1>6, <1>7, <1>8, <1>9, <1>10, <1>11, <1>12, <1>13 DEF Next

\* CredInv holds throughout.
LEMMA CredInvariant == Spec => []CredInv
  BY InitCredInv, NextCredInv, PTL DEF Spec

\* Every table, request and page keeps its type.
THEOREM CredentialsTypeCorrect == Spec => []TypeOK
<1>1. CredInv => TypeOK
  BY DEF CredInv
<1> QED BY <1>1, CredInvariant, PTL

\* A request that arrives after its token's revocation is never admitted,
\* however many requests with that token were under way.
THEOREM RevokedTokensAdmitNobody == Spec => []LateCallsRefused
<1>1. CredInv => LateCallsRefused
  BY DEF CredInv, LateIsShut, LateCallsRefused, At, Looked
<1> QED BY <1>1, CredInvariant, PTL

\* The list of agents mixes two moments, yet who had no usable token when it was
\* asked for and got none since is not listed as able to call, and who kept one
\* throughout is.
THEOREM AgentListIsTrue == Spec => []ListTellsWhoMayCall
<1>1. CredInv => ListTellsWhoMayCall
  BY DEF CredInv
<1> QED BY <1>1, CredInvariant, PTL
=============================================================================
