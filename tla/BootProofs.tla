----------------------------- MODULE BootProofs -----------------------------
(***************************************************************************)
(* Boot's safety properties for any number of probes and outages.  The     *)
(* invariant BootInv says that the routes are there before anything can    *)
(* say so, and that the retry goroutine is over before its checker is      *)
(* replaced.                                                               *)
(***************************************************************************)
EXTENDS Boot, TLAPS

\* Nothing a probe can read claims migrations before the routes are installed.
RoutesFirst ==
    /\ checker.migrations => handler
    /\ \A q \in Probes : probe[q] # None /\ probe[q].migrations => handler
    /\ main = "swap" => handler
    /\ promised => handler

\* While the retry goroutine can still write to the checker, no database has
\* been handed over and the checker has not been replaced.
RetryAlone ==
    /\ main = "open" => checker = Failing /\ ~ dbReady
    /\ retry.pc \in {"wait", "open"} =>
         main = "degraded" /\ ~ dbReady /\ checker.ping = "failing"

BootInv == TypeOK /\ RoutesFirst /\ RetryAlone

\* Init of main.go's process: nothing listens, nothing is connected.
LEMMA BootInitEstablishes == Init => BootInv
<1> SUFFICES ASSUME Init PROVE BootInv
  OBVIOUS
<1>1. TypeOK
  <2>1. Failing \in Checkers
    BY DEF Failing, Checkers
  <2>2. retry \in [pc : {"none", "wait", "open", "done"}, backoff : Backoffs]
    BY DEF Init, Backoffs
  <2>3. probe \in [Probes -> Checkers \cup {None}]
    BY DEF Init
  <2>4. {stub, config, ctxDone, handler, dbReady, lived, promised} \subseteq BOOLEAN
    BY DEF Init
  <2>5. up \subseteq Services /\ outages \in 0 .. MaxOutages
    BY MaxOutagesAssumption DEF Init
  <2>6. checker \in Checkers
    BY <2>1 DEF Init
  <2>7. main = "open" /\ exit = "no" /\ listener = "none"
    BY DEF Init
  <2> QED BY <2>2, <2>3, <2>4, <2>5, <2>6, <2>7 DEF TypeOK
<1>2. RoutesFirst
  BY DEF Init, RoutesFirst, Failing
<1>3. RetryAlone
  BY DEF Init, RetryAlone, Failing
<1> QED BY <1>1, <1>2, <1>3 DEF BootInv

\* The backoff stays one of the six values up to its cap.
LEMMA BackoffIsCapped ==
  ASSUME NEW b \in Backoffs
  PROVE  NextBackoff(b) \in Backoffs
BY DEF Backoffs, NextBackoff, MaxBackoff

\* Every step of main.go and of the outside keeps the types.
LEMMA BootTypesKept == TypeOK /\ [Next]_vars => TypeOK'
<1> SUFFICES ASSUME TypeOK, [Next]_vars PROVE TypeOK'
  OBVIOUS
<1> USE DEF TypeOK, env, history, degraded
<1>1. ASSUME NEW x \in Services, Outage(x) PROVE TypeOK'
  BY <1>1, MaxOutagesAssumption DEF Outage, Services
<1>2. CASE Cancel
  BY <1>2 DEF Cancel
<1>3. CASE MainStep
  <2>1. BuildError \in {"no", "config", "cancel", "keycloak"}
    BY DEF BuildError
  <2>2. Connected \in Checkers
    BY DEF Connected, Checkers
  <2>3. CASE OpenAtBoot \/ OpenFailsAtBoot
    BY <2>3 DEF OpenAtBoot, OpenFailsAtBoot
  <2>4. CASE BuildAtBoot
    BY <2>1, <2>2, <2>4 DEF BuildAtBoot
  <2>5. CASE TakeDatabase
    BY <2>1, <2>5 DEF TakeDatabase
  <2>6. CASE StoreHandler \/ SwapChecker \/ Stop
    BY <2>2, <2>6 DEF StoreHandler, SwapChecker, Stop
  <2> QED BY <1>3, <2>3, <2>4, <2>5, <2>6 DEF MainStep
<1>4. CASE Listen \/ ListenFails
  BY <1>4 DEF Listen, ListenFails
<1>5. CASE RetryStep
  <2>1. CASE BackoffOver \/ RetryCancelled \/ RetrySucceeds
    BY <1>5, <2>1 DEF BackoffOver, RetryCancelled, RetrySucceeds
  <2>2. CASE RetryFails
    <3>1. NextBackoff(retry.backoff) \in Backoffs
      BY BackoffIsCapped
    <3>2. checker' \in Checkers
      BY <2>2 DEF RetryFails, Checkers
    <3> QED BY <2>2, <3>1, <3>2 DEF RetryFails
  <2> QED BY <1>5, <2>1, <2>2 DEF RetryStep
<1>6. ASSUME NEW q \in Probes, CopyChecker(q) \/ Readyz(q) PROVE TypeOK'
  <2>1. (promised \/ Ready(probe[q])) \in BOOLEAN
    OBVIOUS
  <2> QED BY <1>6, <2>1 DEF CopyChecker, Readyz
<1>7. CASE UNCHANGED vars
  BY <1>7 DEF vars
<1> QED BY <1>1, <1>2, <1>3, <1>4, <1>5, <1>6, <1>7 DEF Next

\* The order of serveDegradedUntilReady's two stores, and serveReady's building
\* before it listens, keep RoutesFirst.
LEMMA RoutesFirstKept == BootInv /\ [Next]_vars => RoutesFirst'
<1> SUFFICES ASSUME BootInv, [Next]_vars PROVE RoutesFirst'
  OBVIOUS
<1> USE DEF RoutesFirst, BootInv, env, history, degraded
<1>1. ASSUME NEW x \in Services, Outage(x) PROVE RoutesFirst'
  BY <1>1 DEF Outage
<1>2. CASE Cancel
  BY <1>2 DEF Cancel
<1>3. CASE MainStep
  <2>1. CASE OpenAtBoot \/ OpenFailsAtBoot \/ TakeDatabase \/ Stop
    BY <2>1 DEF OpenAtBoot, OpenFailsAtBoot, TakeDatabase, Stop
  <2>2. CASE BuildAtBoot
    BY <2>2 DEF BuildAtBoot
  <2>3. CASE StoreHandler \/ SwapChecker
    BY <2>3 DEF StoreHandler, SwapChecker
  <2> QED BY <1>3, <2>1, <2>2, <2>3 DEF MainStep
<1>4. CASE Listen \/ ListenFails
  BY <1>4 DEF Listen, ListenFails
<1>5. CASE RetryStep
  <2>1. CASE BackoffOver \/ RetryCancelled \/ RetrySucceeds
    BY <2>1 DEF BackoffOver, RetryCancelled, RetrySucceeds
  <2>2. CASE RetryFails
    <3>1. checker'.migrations = checker.migrations
      BY <2>2 DEF RetryFails, TypeOK, Checkers
    <3> QED BY <2>2, <3>1 DEF RetryFails
  <2> QED BY <1>5, <2>1, <2>2 DEF RetryStep
<1>6. ASSUME NEW q \in Probes, CopyChecker(q) PROVE RoutesFirst'
  BY <1>6 DEF CopyChecker, TypeOK
<1>7. ASSUME NEW q \in Probes, Readyz(q) PROVE RoutesFirst'
  <2>1. Ready(probe[q]) => handler
    BY <1>7 DEF Readyz, Ready
  <2> QED BY <1>7, <2>1 DEF Readyz, TypeOK
<1>8. CASE UNCHANGED vars
  BY <1>8 DEF vars
<1> QED BY <1>1, <1>2, <1>3, <1>4, <1>5, <1>6, <1>7, <1>8 DEF Next

\* retryOpenUntilReady returns once it has sent the database.
LEMMA RetryAloneKept == BootInv /\ [Next]_vars => RetryAlone'
<1> SUFFICES ASSUME BootInv, [Next]_vars PROVE RetryAlone'
  OBVIOUS
<1> USE DEF RetryAlone, BootInv, env, history, degraded
<1>1. ASSUME NEW x \in Services, Outage(x) PROVE RetryAlone'
  BY <1>1 DEF Outage
<1>2. CASE Cancel
  BY <1>2 DEF Cancel
<1>3. CASE MainStep
  <2>1. CASE OpenAtBoot \/ OpenFailsAtBoot
    BY <2>1 DEF OpenAtBoot, OpenFailsAtBoot, Failing, TypeOK
  <2>2. CASE BuildAtBoot
    BY <2>2 DEF BuildAtBoot
  <2>3. CASE TakeDatabase \/ StoreHandler \/ SwapChecker \/ Stop
    BY <2>3 DEF TakeDatabase, StoreHandler, SwapChecker, Stop
  <2> QED BY <1>3, <2>1, <2>2, <2>3 DEF MainStep
<1>4. CASE Listen \/ ListenFails
  BY <1>4 DEF Listen, ListenFails
<1>5. CASE RetryStep
  BY <1>5 DEF RetryStep, BackoffOver, RetryCancelled, RetrySucceeds, RetryFails,
              TypeOK, Checkers
<1>6. ASSUME NEW q \in Probes, CopyChecker(q) \/ Readyz(q) PROVE RetryAlone'
  BY <1>6 DEF CopyChecker, Readyz
<1>7. CASE UNCHANGED vars
  BY <1>7 DEF vars
<1> QED BY <1>1, <1>2, <1>3, <1>4, <1>5, <1>6, <1>7 DEF Next

\* BootInv holds in every state of a process.
LEMMA AlwaysBootInv == Spec => []BootInv
<1>1. BootInv /\ [Next]_vars => BootInv'
  BY BootTypesKept, RoutesFirstKept, RetryAloneKept DEF BootInv
<1> QED BY <1>1, BootInitEstablishes, PTL DEF Spec

-----------------------------------------------------------------------------
\* Every variable of a process keeps its type, the backoff its cap.
THEOREM BootTypeCorrect == Spec => []TypeOK
<1>1. BootInv => TypeOK
  BY DEF BootInv
<1> QED BY <1>1, AlwaysBootInv, PTL

\* /readyz never promises routes that answer "starting up".
THEOREM PromisesAreKept == Spec => []ReadyMeansServed
<1>1. BootInv => ReadyMeansServed
  BY DEF BootInv, RoutesFirst, ReadyMeansServed
<1> QED BY <1>1, AlwaysBootInv, PTL

\* No late failure of the retry goroutine undoes the swap of the checker.
THEOREM ReadinessStays == Spec => ReadinessNotUndone
<1>1. ASSUME BootInv, [Next]_vars
      PROVE  [(checker = Connected => checker' = Connected) /\ (handler => handler')]_vars
  <2> SUFFICES ASSUME Next
               PROVE  (checker = Connected => checker' = Connected) /\ (handler => handler')
    BY <1>1
  <2> USE DEF env, history, degraded
  <2>1. CASE MainStep
    BY <2>1 DEF MainStep, OpenAtBoot, OpenFailsAtBoot, BuildAtBoot, TakeDatabase,
                StoreHandler, SwapChecker, Stop
  <2>2. CASE RetryStep
    BY <1>1, <2>2 DEF RetryStep, BackoffOver, RetryCancelled, RetrySucceeds,
                      RetryFails, BootInv, RetryAlone, Connected
  <2>3. CASE Cancel \/ Listen \/ ListenFails
    BY <2>3 DEF Cancel, Listen, ListenFails
  <2>4. ASSUME NEW x \in Services, Outage(x)
        PROVE  (checker = Connected => checker' = Connected) /\ (handler => handler')
    BY <2>4 DEF Outage
  <2>5. ASSUME NEW q \in Probes, CopyChecker(q) \/ Readyz(q)
        PROVE  (checker = Connected => checker' = Connected) /\ (handler => handler')
    BY <2>5 DEF CopyChecker, Readyz
  <2> QED BY <2>1, <2>2, <2>3, <2>4, <2>5 DEF Next
<1> QED BY <1>1, AlwaysBootInv, PTL DEF Spec, ReadinessNotUndone

-----------------------------------------------------------------------------
\* Before the database is handed over there are no routes, and before the
\* listener there is no live process.
HandoverOnce ==
    /\ main \in {"open", "build"} => ~ handler /\ ~ lived /\ listener = "none"
    /\ retry.pc \in {"wait", "open"} => ~ handler
    /\ dbReady => ~ handler /\ retry.pc = "done" /\ main = "degraded"
    /\ OutageEndsOnlyAtHandover

\* Only BuildAtBoot and TakeDatabase end the process for an outage.
LEMMA HandoverOnceKept == BootInv /\ HandoverOnce /\ [Next]_vars => HandoverOnce'
<1> SUFFICES ASSUME BootInv, HandoverOnce, [Next]_vars PROVE HandoverOnce'
  OBVIOUS
<1> USE DEF HandoverOnce, OutageEndsOnlyAtHandover, env, history, degraded
<1>1. ASSUME NEW x \in Services, Outage(x) PROVE HandoverOnce'
  BY <1>1 DEF Outage
<1>2. CASE Cancel
  BY <1>2 DEF Cancel
<1>3. CASE MainStep
  <2>1. CASE OpenAtBoot \/ OpenFailsAtBoot
    BY <2>1 DEF OpenAtBoot, OpenFailsAtBoot, BootInv, RetryAlone, TypeOK
  <2>2. CASE BuildAtBoot
    BY <2>2 DEF BuildAtBoot, BootInv, RetryAlone, Running
  <2>3. CASE TakeDatabase
    BY <2>3 DEF TakeDatabase
  <2>4. CASE StoreHandler
    BY <2>4 DEF StoreHandler, BootInv, RetryAlone, Running
  <2>5. CASE SwapChecker
    BY <2>5 DEF SwapChecker, Running
  <2>6. CASE Stop
    BY <2>6 DEF Stop
  <2> QED BY <1>3, <2>1, <2>2, <2>3, <2>4, <2>5, <2>6 DEF MainStep
<1>4. CASE Listen \/ ListenFails
  BY <1>4 DEF Listen, ListenFails, Running
<1>5. CASE RetryStep
  BY <1>5 DEF RetryStep, BackoffOver, RetryCancelled, RetrySucceeds, RetryFails,
              BootInv, RetryAlone, TypeOK, Running
<1>6. ASSUME NEW q \in Probes, CopyChecker(q) \/ Readyz(q) PROVE HandoverOnce'
  BY <1>6 DEF CopyChecker, Readyz
<1>7. CASE UNCHANGED vars
  BY <1>7 DEF vars
<1> QED BY <1>1, <1>2, <1>3, <1>4, <1>5, <1>6, <1>7 DEF Next

\* A process that serves its routes, or still waits for its database, does not
\* end because Keycloak or the database is down.
THEOREM OutagesSparedServing == Spec => []OutageEndsOnlyAtHandover
<1>1. Init => HandoverOnce
  BY DEF Init, HandoverOnce, OutageEndsOnlyAtHandover
<1>2. HandoverOnce => OutageEndsOnlyAtHandover
  BY DEF HandoverOnce
<1> QED BY <1>1, <1>2, HandoverOnceKept, AlwaysBootInv, PTL DEF Spec
=============================================================================
