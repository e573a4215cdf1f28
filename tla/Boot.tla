-------------------------------- MODULE Boot --------------------------------
(***************************************************************************)
(* Start-up of one process (cmd/rendezvous/main.go) and its readiness      *)
(* (internal/health).  The main goroutine opens the database and builds    *)
(* the routes; when the database is down it serves degraded, while a       *)
(* goroutine retries the opening with a capped backoff and hands the       *)
(* database over on the channel dbReady.  The listener and the probes of   *)
(* /readyz run beside them; the database and Keycloak come and go.         *)
(***************************************************************************)
EXTENDS Integers

CONSTANTS
    Probes,      \* requests of /readyz answered at the same time
    MaxOutages   \* bound: how often the database and Keycloak change

ASSUME MaxOutagesAssumption == MaxOutages \in Nat

MaxBackoff == 30
Backoffs   == {1, 2, 4, 8, 16, MaxBackoff}    \* seconds

VARIABLES
    up,         \* the set of outside services that answer now
    outages,    \* how often that has changed
    stub,       \* --auth-stub: Keycloak is not used
    config,     \* the OIDC flags are usable
    ctxDone,    \* the context is cancelled (never by main, which passes Background)
    main,       \* where the main goroutine is
    exit,       \* why the process ended, "no" while it runs
    listener,   \* "none", "starting", "serving" or "failed"
    checker,    \* the ReadyChecker that /readyz copies
    handler,    \* the app's routes are installed
    retry,      \* retryOpenUntilReady: where it is, and its backoff
    dbReady,    \* the channel of capacity 1 holds the opened database
    probe,      \* by probe: the copied checker, or None
    lived,      \* history: /livez has been served
    promised    \* history: some /readyz answered 200

env      == <<up, outages, stub, config, ctxDone>>
history  == <<lived, promised>>
degraded == <<retry, dbReady>>
vars == <<env, main, exit, listener, checker, handler, degraded, probe, history>>

Services == {"db", "keycloak"}
None     == [none |-> TRUE]

Failing   == [ping |-> "failing", migrations |-> FALSE, oidc |-> FALSE]
Connected == [ping |-> "live", migrations |-> TRUE, oidc |-> TRUE]

Init ==
    /\ up \in SUBSET Services /\ outages = 0
    /\ stub \in BOOLEAN /\ config \in BOOLEAN
    /\ ctxDone = FALSE
    /\ main = "open" /\ exit = "no"
    /\ listener = "none"
    /\ checker = Failing /\ handler = FALSE
    /\ retry = [pc |-> "none", backoff |-> 1] /\ dbReady = FALSE
    /\ probe = [q \in Probes |-> None]
    /\ lived = FALSE /\ promised = FALSE

Running == exit = "no"

-----------------------------------------------------------------------------
\* The outside.
Outage(x) ==
    /\ outages < MaxOutages
    /\ outages' = outages + 1
    /\ up' = IF x \in up THEN up \ {x} ELSE up \cup {x}
    /\ UNCHANGED <<stub, config, ctxDone, main, exit, listener, checker, handler,
                   degraded, probe, history>>

Cancel ==
    /\ Running /\ ~ ctxDone
    /\ ctxDone' = TRUE
    /\ UNCHANGED <<up, outages, stub, config, main, exit, listener, checker, handler,
                   degraded, probe, history>>

-----------------------------------------------------------------------------
\* Action: storage.Open decides between the two ways of serving.
OpenAtBoot ==
    /\ Running /\ main = "open" /\ "db" \in up
    /\ main' = "build"
    /\ UNCHANGED <<env, exit, listener, checker, handler, degraded, probe, history>>

OpenFailsAtBoot ==
    /\ Running /\ main = "open" /\ "db" \notin up
    /\ main' = "degraded"
    /\ listener' = "starting"
    /\ retry' = [retry EXCEPT !.pc = "wait"]
    /\ UNCHANGED <<env, exit, checker, handler, dbReady, probe, history>>

\* buildAppHandler: why it fails, "no" when it succeeds.  OIDC discovery is the
\* only call that leaves the process.
BuildError ==
    IF stub THEN "no"
    ELSE IF ~ config THEN "config"
    ELSE IF ctxDone THEN "cancel"
    ELSE IF "keycloak" \notin up THEN "keycloak" ELSE "no"

\* serveReady: the checker and the routes are in place before the listener.
BuildAtBoot ==
    /\ Running /\ main = "build"
    /\ IF BuildError = "no"
       THEN /\ main' = "serve" /\ listener' = "starting"
            /\ checker' = Connected /\ handler' = TRUE
            /\ UNCHANGED exit
       ELSE exit' = BuildError /\ UNCHANGED <<main, listener, checker, handler>>
    /\ UNCHANGED <<env, degraded, probe, history>>

\* Mutant of TakeDatabase: the checker is replaced before the routes are there.
CheckerFirst ==
    /\ Running /\ main = "degraded" /\ dbReady
    /\ dbReady' = FALSE
    /\ IF BuildError = "no" THEN main' = "store" /\ checker' = Connected /\ UNCHANGED exit
                            ELSE exit' = BuildError /\ UNCHANGED <<main, checker>>
    /\ UNCHANGED <<env, listener, handler, retry, probe, history>>

\* serveDegradedUntilReady takes the database from the channel; a failing build
\* shuts the server down and ends the process.
TakeDatabase ==
    /\ Running /\ main = "degraded" /\ dbReady
    /\ dbReady' = FALSE
    /\ IF BuildError = "no" THEN main' = "store" /\ UNCHANGED exit
                            ELSE exit' = BuildError /\ UNCHANGED main
    /\ UNCHANGED <<env, listener, checker, handler, retry, probe, history>>

\* Two stores that a request can fall between: appHandler, then the checker.
StoreHandler ==
    /\ Running /\ main = "store"
    /\ handler' = TRUE
    /\ main' = "swap"
    /\ UNCHANGED <<env, exit, listener, checker, degraded, probe, history>>

SwapChecker ==
    /\ Running /\ main = "swap"
    /\ checker' = Connected
    /\ main' = "degraded"
    /\ UNCHANGED <<env, exit, listener, handler, degraded, probe, history>>

\* The select of either serving loop: ctx.Done() or serveErr.
Stop ==
    /\ Running /\ main \in {"serve", "degraded"}
    /\ \/ ctxDone /\ exit' = "cancel"
       \/ listener = "failed" /\ exit' = "listen"
    /\ UNCHANGED <<env, main, listener, checker, handler, degraded, probe, history>>

\* ListenAndServe in its goroutine.
Listen ==
    /\ Running /\ listener = "starting"
    /\ listener' = "serving"
    /\ lived' = TRUE
    /\ UNCHANGED <<env, main, exit, checker, handler, degraded, probe, promised>>

ListenFails ==
    /\ Running /\ listener \in {"starting", "serving"}
    /\ listener' = "failed"
    /\ UNCHANGED <<env, main, exit, checker, handler, degraded, probe, history>>

-----------------------------------------------------------------------------
\* retryOpenUntilReady
BackoffOver ==
    /\ Running /\ retry.pc = "wait"
    /\ retry' = [retry EXCEPT !.pc = "open"]
    /\ UNCHANGED <<env, main, exit, listener, checker, handler, dbReady, probe, history>>

RetryCancelled ==
    /\ Running /\ retry.pc = "wait" /\ ctxDone
    /\ retry' = [retry EXCEPT !.pc = "done"]
    /\ UNCHANGED <<env, main, exit, listener, checker, handler, dbReady, probe, history>>

\* Mutant of RetrySucceeds: the goroutine goes on watching the database.
RetryGoingOn ==
    /\ Running /\ retry.pc = "open" /\ "db" \in up
    /\ ~ dbReady
    /\ dbReady' = TRUE
    /\ retry' = [retry EXCEPT !.pc = "wait"]
    /\ UNCHANGED <<env, main, exit, listener, checker, handler, probe, history>>

RetrySucceeds ==
    /\ Running /\ retry.pc = "open" /\ "db" \in up
    /\ dbReady' = TRUE
    /\ retry' = [retry EXCEPT !.pc = "done"]
    /\ UNCHANGED <<env, main, exit, listener, checker, handler, probe, history>>

\* Mutant of NextBackoff: no cap.
DoubledBackoff(b) == 2 * b

NextBackoff(b) == IF 2 * b < MaxBackoff THEN 2 * b ELSE MaxBackoff

\* Mutant of RetryFails: the goroutine gives up once the backoff is at its cap.
RetryGivingUp ==
    /\ Running /\ retry.pc = "open" /\ "db" \notin up
    /\ checker' = [checker EXCEPT !.ping = "failing"]
    /\ retry' = [pc |-> IF retry.backoff = MaxBackoff THEN "done" ELSE "wait",
                 backoff |-> NextBackoff(retry.backoff)]
    /\ UNCHANGED <<env, main, exit, listener, handler, dbReady, probe, history>>

RetryFails ==
    /\ Running /\ retry.pc = "open" /\ "db" \notin up
    /\ checker' = [checker EXCEPT !.ping = "failing"]
    /\ retry' = [pc |-> "wait", backoff |-> NextBackoff(retry.backoff)]
    /\ UNCHANGED <<env, main, exit, listener, handler, dbReady, probe, history>>

-----------------------------------------------------------------------------
\* /readyz copies the checker under the lock, and pings with the copy.
CopyChecker(q) ==
    /\ Running /\ listener = "serving" /\ probe[q] = None
    /\ probe' = [probe EXCEPT ![q] = checker]
    /\ UNCHANGED <<env, main, exit, listener, checker, handler, degraded, history>>

\* 200 only if the copy's flags hold and its Ping succeeds.
Ready(c) == c.migrations /\ c.oidc /\ c.ping = "live" /\ "db" \in up

Readyz(q) ==
    /\ Running /\ probe[q] # None
    /\ promised' = (promised \/ Ready(probe[q]))
    /\ probe' = [probe EXCEPT ![q] = None]
    /\ UNCHANGED <<env, main, exit, listener, checker, handler, degraded, lived>>

MainStep ==
    \/ OpenAtBoot \/ OpenFailsAtBoot \/ BuildAtBoot
    \/ TakeDatabase \/ StoreHandler \/ SwapChecker \/ Stop
RetryStep == BackoffOver \/ RetryCancelled \/ RetrySucceeds \/ RetryFails

Next ==
    \/ \E x \in Services : Outage(x)
    \/ Cancel
    \/ MainStep
    \/ Listen \/ ListenFails
    \/ RetryStep
    \/ \E q \in Probes : CopyChecker(q) \/ Readyz(q)

Spec == Init /\ [][Next]_vars

\* Goroutines run, timers fire, and Listen returns.  A listener that serves need
\* not ever fail.
Listens == listener = "starting" /\ (Listen \/ ListenFails)
FairSpec == Spec /\ WF_vars(MainStep) /\ WF_vars(RetryStep) /\ WF_vars(Listens)

-----------------------------------------------------------------------------
Checkers == [ping : {"failing", "live"}, migrations : BOOLEAN, oidc : BOOLEAN]

TypeOK ==
    /\ up \subseteq Services /\ outages \in 0 .. MaxOutages
    /\ {stub, config, ctxDone, handler, dbReady, lived, promised} \subseteq BOOLEAN
    /\ main \in {"open", "build", "serve", "degraded", "store", "swap"}
    /\ exit \in {"no", "cancel", "listen", "config", "keycloak"}
    /\ listener \in {"none", "starting", "serving", "failed"}
    /\ checker \in Checkers
    /\ retry \in [pc : {"none", "wait", "open", "done"}, backoff : Backoffs]
    /\ probe \in [Probes -> Checkers \cup {None}]

\* A load balancer that has seen /readyz say 200 never gets the 503 of the
\* routes that are not there yet, whichever of the two stores a probe met.
ReadyMeansServed == promised => handler

\* The readiness swap is never undone: no late failure of the retry goroutine
\* overwrites the live Ping, and the routes never go away.
ReadinessNotUndone ==
    [][(checker = Connected => checker' = Connected) /\ (handler => handler')]_vars

\* "Retries until it succeeds": however long the database was down, once it and
\* Keycloak stay up the process comes to serve and would say so, unless it ended.
Recovers ==
    <>[](up = Services) => <>[](~ Running \/ (handler /\ checker = Connected))

\* health.go: "a dependency outage must not restart the pod".  What the code
\* keeps of it: a process that serves its routes, or still waits for the
\* database, is not ended by an outage; only one that has been live and is
\* handed the database while Keycloak is down ends.
OutageEndsOnlyAtHandover ==
    exit \in {"config", "keycloak"} => ~ handler /\ (lived => retry.pc = "done")
=============================================================================
