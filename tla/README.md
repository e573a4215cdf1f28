# Verification of go-ai-rendezvous-point

TLA+ models of the rendezvous point: the message board that agents and humans
share, the transactions it is made of, mention resolution, pushes to
subscribers, agent tokens, human sessions, listing and search, and the start-up
of the process. TLC checks the models on small instances; TLAPS proves the
safety properties for every instance, that the board keeps what it promises
(`Inbox`), and that the transactions on SQLite implement the board.

## 1. Inventory

The server is one Go process over SQLite or Postgres. Agents call MCP tools
with a bearer token, humans use a REST API and a web UI behind OIDC (Keycloak).
All lasting state is in the database; requests run concurrently and meet there.

| Component | State | Operations | Meets | Hard behaviour |
|---|---|---|---|---|
| Board (`internal/storage/thread_*.go`, `catchup.go`) | threads, replies, watchers, thread_watches, mentions | create, reply, watch, unwatch, catch_up, resolve, reopen | every client; mentions | two tables kept in step; read cursors by timestamp; marks set by reading |
| Its transactions (`db_sqlite.go`, `db_postgres.go`) | the same, per statement | the same | SQLite WAL or READ COMMITTED | interleavings, BUSY, deadlock, crash, late commits |
| Mentions and profiles (`thread_repo.go`, `profile_repo.go`) | actors, actor_profiles | create agent, set profile, resolve handles | posts | four lookups per handle, names that change hands, folding |
| Push (`mcpserver/resource_catchup.go`, `tool_reply.go`, `tool_create_thread.go`) | subscriptions of the process | subscribe, look up targets, send, count | board, clients | lookups after the commit, failing sends, counts statement by statement, never from REST |
| Agent tokens (`actor_repo.go`, `mcpserver/auth.go`, `restapi/agents.go`) | actors, agent_credentials | create, issue, authenticate, revoke one or all, list | MCP, REST | revocation beside requests of the same token; a list read in two statements |
| Listing and search (`thread_query.go`, `search*.go`) | none | list a page, search | REST, MCP, web | ties of `created_at`, changes between pages, two kinds of matches merged |
| Web list (`web/src/ThreadList.jsx`) | threads shown, cursor | navigate, load more | REST | answers out of order, pages beside changes |
| Human auth (`humanauth`, `human_repo.go`) | sessions, user_identities, actors | callback, logout, authenticate, get-or-create | Keycloak, REST | refresh races, rotation, first-request races |
| Start-up and health (`cmd/rendezvous`, `internal/health`) | handler, checker, retry goroutine, channel | open, retry, build, swap, probe | database, Keycloak, load balancer | two stores, a goroutine writing the checker, outages |
| REST routing, JSON, crypto, stub provider, embedded assets | none | - | - | none of their own |

What makes them correct:

- Board: `catch_up` gives every reply of a watched thread and every mention
  once; the cursor never goes back; nobody else's doing makes a reply read;
  both watch rows exist or neither.
- Transactions: what commits looks as if operations ran one at a time; every
  request ends.
- Mentions: one row per actor and post; the report tells what was delivered;
  the documented precedence; a handle fails a post in one known case only.
- Push: a subscriber is told of every post over MCP that concerns it, unless a
  lookup, the send or its stream failed, and then comes to read it.
- Tokens: a revoked token admits no later request; the administrator's list,
  read in two statements, never shows as able to call whose every token had been
  revoked when it was asked for, nor as unable who had a token then and has it
  still.
- Listing: an undisturbed walk shows each thread once, in order, and none is
  swallowed by a page border; search fills its limit.
- Human auth: one actor per person, whatever races; no identity without its
  actor; a session that is over admits no request that was not already inside,
  and opens again only by a login or by the late `Save` of one that was.
- Start-up: `/readyz` never promises routes that are not there, and is not
  undone by the retry; the process recovers by itself.

## 2. Modules

| Module | Models | Extends / composed of |
|---|---|---|
| `Inbox` | abstract: what waits for an actor until `catch_up` hands it over | - |
| `Board` | the board, one transaction per step | implements `Inbox`, instantiated as `Box` |
| `BoardTx` | the same transactions statement by statement, both backends, crashes | instantiates `Board` as `Serial` |
| `Push` | subscriptions, the posting tools after their commit, the client | extends `Board`: its steps are the board's |
| `Mentions` | `createMentions`, `resolveMentionTarget`, `CreateAgent`, `UpsertActorProfile` | - |
| `Credentials` | tokens, `RequireAgentToken`, the agents' list | - |
| `Listing` | `ListThreads` and `Search` over the threads table | - |
| `ThreadList` | the list page with overlapping requests, beside changes of the table | extends `Listing` |
| `HumanAuth` | `Authenticate`, callback, logout, `GetOrCreateHumanActor` | - |
| `Boot` | `main.go`'s two start-ups, the retry goroutine, `/readyz` | - |
| `BoardProofs`, `BoardTxProofs`, `PushProofs`, `MentionsProofs`, `CredentialsProofs`, `ThreadListProofs`, `HumanAuthProofs`, `BootProofs` | proofs about the module each names | that module; `PushProofs` also `BoardProofs` |
| `MCBoard`, `MCBoardTx`, `MCPush`, `MCMentions`, `MCCredentials`, `MCThreadList`, `MCHumanAuth`, `MCBoot` | instances for TLC | the module each names |

Operators named *Mutant* in a comment are plausible bugs of the operator
they name. Nothing uses them; putting one in place of the original makes the
property it is meant for fail (`PROJECT.json`, `mutants`).

### Board

`status`, `replies`, `watcher`, `lastRead` and `mentions`/`seen` are the tables;
`lastRead` holds `NoRow` where there is no ThreadWatch row and `ZeroTime` for
the zero `time.Time` that `ensureThreadWatch` writes. A post's timestamp is
later than all posts before it (`now`), which is what one-at-a-time transactions
give. `got` and `told` are histories of what `catch_up` returned. Titles, bodies
and tags are left out; a post's mentions are the set `createMentions` resolved.
`GetCatchUpSummary` is `AllUnread`/`UnseenMentions` read without a change.

### Inbox

The promise of `catch_up` with no timestamps, no cursors and no watch tables:
`unread[a]` is the set of replies and `mail[a]` the set of mentions that wait for
actor `a`. A reply waits for whoever watches its thread, all of a thread waits
for whoever begins to watch it, and `CatchUp` hands over what waits; an actor's
own reply takes what it had not read there, and unwatching drops it. `Board`
keeps one cursor per watch instead and computes what waits from it: `Box` maps
`opened` to the threads that exist, `watching` to the Watcher rows, `unread` to
`AllUnread` (which reads the cursors) and `mail` to `UnseenMentions`. Resolving
and reopening a thread are stutters.

### BoardTx

Each request runs its transaction's statements as steps; `tx[p].w` is what it
has written and not committed (`Kept` for a cursor it has not touched, `joined`
and `left` for Watcher rows inserted and deleted). `Backend = "sqlite"`: a
transaction reads the snapshot of its first statement; its first write fails
(`Busy`) when another transaction committed since or holds the write lock. In
the code `busy_timeout` is set on one pooled connection only, so waiting is
not modelled: a wait ends like one of the orders that are. `Backend =
"postgres"`: each statement sees what is committed when it runs, writers of one
row queue behind each other, and a cycle is broken by failing a transaction.
`Crash` rolls all of them back. These rules are the databases' and are marked
external in `map`.

Approximations: statements on rows nobody else can see yet (a new thread's
rows, one post's mentions) are one step; timestamps are distinct, so ties of
`created_at` are not covered, and a new thread's, which nothing here reads, is
taken in the same step as its INSERT; the clock is the application's, so it orders the
inserts and not the commits; resolve and reopen are one UPDATE and stay in
`Board`.

### Push

A posting tool of an agent is the board's step followed by a `handler`: look up
the thread's watchers, look up the post's mentions, send to each target, answer.
Each lookup and each send may fail, which the code logs and passes over. The
REST handlers (`HumanCreate`, `HumanReply`) post and send nothing. `owed` is a
history: the posts that an agent was to be told of when they were committed
(it was subscribed, and watching the thread or mentioned) and has not read
since; a failed lookup, a failed send, an ended stream or watch and a crash
strike them off, because the code promises nothing then. The client is outside
this repository: it reads the resource when told and calls `catch_up` if a count
is not zero. `GetCatchUpSummary` is not a transaction, so its statements are
steps: the watches with their cursors (`ReadWatches`), one count for each of them
(`CountReplies`, `left` are those to come), the mentions (`CountMentions`).
`AnswerLost` is a `catch_up` whose answer is lost after its commit: the code has
no acknowledgement, the marks stay, and the posts are read as far as anybody
can tell. One process is modelled: a push reaches only sessions of the process
that serves the post. Resolving and reopening change no count and are left out.

### Mentions

A post is the sequence of handles found outside code regions; the regular
expressions are not modelled. Each of the four lookups is a step, between which
agents and profiles may change; `quiet` notes whether any did. The check before
`UpsertActorProfile`'s write can only refuse what the unique index also refuses
or would have let through later, so check and write are one step. `Unknown` are
ids that `PUT /api/profiles/{actorID}` accepts although no actor has them.

### Credentials

A token and its row are one value. A request is the three statements of
`AuthenticateAgentToken` (find, touch `last_used_at`, read the actor), each of
which may fail, and then `admitted`; `late` notes that its token's revocation
had returned when it arrived. Any id a path names can be issued a token, an
actor's or not, as in the code. `page` is `listAgentsHandler`: the agents first,
the ids with an active token in a second statement; `before` notes which tokens
of those agents were issued and which revoked when it began. A failed lookup answers 401 like an unknown
token (`auth.go` tells them apart nowhere), and a standing stream of a token
revoked since keeps running: `EndCall` comes when it likes.

### Listing, ThreadList

`Answers` are the sequences a `SELECT ... ORDER BY ... LIMIT` may return.
`ListThreads` fetches one row beyond the limit and takes the cursor of the last
row it returns; the order of ids breaks ties of `created_at`. `Search` appends
tag matches to full-text matches in a second statement; which texts an FTS
engine finds, and in which order, is the engine's own, so text matches come in
any order, and the replies a search returns beside the threads are left out.
`ThreadList` is the page: requests overlap, answers replace or extend what is
shown as they arrive. `fetch` itself may fail, which leaves the page
(`RequestFails`); an HTTP error is never told from a page, and its JSON, which
has no threads, takes the page down (`ErrorAnswer`) until it is opened again
(`OpenAgain`). A change of the status beside a search runs the same search again.
`walk` notes that what is
shown was loaded for the present route one request after the other; the
properties are about walks, since the page cancels and orders nothing. An agent
that pages through `list_threads` is such a walk with limits of its own.

### HumanAuth

A session's checkpoint is the flag `fresh`, cleared by `Expire`. A refresh token
is a number within Keycloak's grant: `RefreshAccepted` takes only the current
one and may rotate it; `RefreshFailed` stands for a refusal, an outage and a
stored token that does not decrypt. The creating transaction of
`GetOrCreateHumanActor` is insert identity, insert actor, commit; the first
waits for a pending row of the subject, the second for a pending row of the
name. `StatementFails` ends a request before any statement. `Over` sessions have no
row, or a grant that ended and a checkpoint that has passed; `Inside` are the
requests a session has let in and the refreshes Keycloak has accepted or will
accept, which may come to `Save` after the session is over. Display names do
not change. Session ids are fresh UUIDs: a `Sids` value is used again only when
its row, its grant and all requests with it are gone.

### Boot

`OpenAtBoot`/`OpenFailsAtBoot` choose between `serveReady` and
`serveDegradedUntilReady`. The main goroutine, the retry goroutine, the listener
and `Probes` readiness requests are separate steps; `StoreHandler` and
`SwapChecker` are the two stores a request can fall between. Init chooses
the flags (`--auth-stub`, usable OIDC flags or not). `main` passes
`context.Background()`, so `Cancel` happens only in tests; the code handles it
and so does the model. What follows the exit of the process is not modelled.

## 3. Runs

| Run | Question | Instance | Result |
|---|---|---|---|
| `board` | the board's properties, and does it implement `Inbox`, one transaction at a time? | 2 actors, 2 threads, 3 posts, symmetry | holds |
| `tx_sqlite` | do SQLite's transactions implement `Board`? | 2 requests, 2 actors, 1 thread, 3 timestamps, symmetry; no watch | holds |
| `tx_postgres` | what remains true at READ COMMITTED, and do requests end? | the same with watch, without unwatch; each actor waits for its answer | holds |
| `tx_pairing` | do the two watch tables agree on Postgres? | the same with unwatch | violated |
| `tx_lost` | does `catch_up` return every reply on Postgres? | 3 actors, no watch | violated |
| `push` | is a subscriber told, and does it come to read? | 2 actors (agents or humans), 1 thread, 2 posts | holds |
| `mentions` | report, notify-once, precedence, refusals | 2 agents, 1 unknown id, 3 spellings, 3 handles | holds |
| `credentials` | do revocations hold, whom may the list show as able to call? | 2 ids, 3 tokens, 2 requests, symmetry | holds |
| `listing` | do pages, search and the list page miss or repeat a thread? | 3 threads on 2 timestamps, pages of 1 and 2, 2 requests | holds |
| `human_identity` | one actor per person | 2 people of one name, 2 sessions, 2 requests | holds |
| `human_session` | whom does a session that is over still let in, do requests end? | 1 session, 2 requests, tokens rotate | holds |
| `boot` | readiness, swap, outages, recovery | 2 probes, 4 outage changes | holds |

Why the bounds are enough. The board's properties relate one actor's cursor to
one thread's replies; two actors give an author and a reader, the second thread
shows that catching up on one does not touch the other, three posts are a
thread, a reply and a reply after the read. Every statement-level race here is
between two transactions; a third post makes the late commit and the two-sided
watch lists possible, and `tx_lost` needs a third actor only because each waits
for its answer. `tx_sqlite` leaves `watch` out to stay within minutes: it is a
reply without its post, and `BoardTxProofs` covers it. Two posts in `push` are a
thread and a reply to its author, or to a human's thread that an agent watches;
`PushProofs` removes the bound for the safety property. Three spellings, the
folded one among them, let each lookup miss, match and be ambiguous. Three
tokens of two ids let one id lose one of two and all of them while the other
keeps its own. Three threads on two timestamps put every page border between
equal timestamps once; `DefaultLimit`, `MaxLimit` and `MaxShown` are 1, 2 and 3.
The limits asked for are 0 (the default) and 2, so `Clamp`'s upper bound is not met there;
the theorems of `ThreadListProofs` are for every integer limit.
Two people and two requests are both races of `GetOrCreateHumanActor` (same
person, same name); tokens rotate in `human_session`, where `MaxToken = 2`
allows it once per grant. Four outage changes take the database down and up
around a Keycloak outage, and retries are not bounded by them: the backoff
reaches its cap.

Symmetry is used only where no liveness property is checked.

### What the violated runs show

- `tx_lost`: `created_at` is taken before the commit. A reply that commits late
  lies below a cursor that has moved, and is never returned. SQLite's single
  writer excludes it (`tx_sqlite`, `SerialOnSqlite`).
- `tx_pairing`: an unwatch between the two inserts of a reply that names the
  actor leaves one of the two rows.

### Where the code does other than a text says

The properties state what the code keeps; these sentences say more:

- `catchup.go:14` and `README.md:24-25` promise everything new since the last
  call. `AddReply` moves its author's cursor to its own reply: the replies of
  others it had not read are passed over and never returned. `NothingLost` and
  `UnreadUntilReturned` name that exception.
- `thread_repo.go:228` would leave a handle nobody has unresolved; a profile
  without an actor (`thread_repo.go:308` fails on it) refuses every post that
  names its nickname. `RefusedOnlyForOrphans` says that nothing else does.
- `health.go:12-14` wants no restart for an outage. When the database returns
  while Keycloak is down, OIDC discovery fails and the process that was kept
  alive exits (`main.go:274`). `OutageEndsOnlyAtHandover` says that this is the
  only such case.

- A logout is to end the session (`TopNav.jsx:19` "Log out", `docs/ROADMAP.md:62-63`
  "Confirmed working end-to-end (login → callback → refresh → logout"), and so is
  a failed refresh (`oidc_provider_test.go:145` "session row still exists after a
  failed refresh, want it deleted"). A refresh of another request that read the
  row before its deletion ends in `Save` (`oidc_provider.go:112`), which inserts
  the row again, and the session's id is good again without a login.
  `OverAdmitsNobodyNew` names that exception and says that nothing else opens a
  session; TLC shows the case when `human_session` is given the stronger
  `[][\A s \in Sids : Over(s) => LoggedIn(s) \/ Over(s)']_vars`.
- The same deletion by a refused refresh meets the session another request has
  just refreshed with the token before it was rotated (`oidc_provider.go:96`):
  a person who is logged in has to log in again. No property speaks of it.
- `catchup.go:16` says that a call marks the returned items. It marks mentions by
  a condition (`catchup.go:54-56`), not by what it selected: at READ COMMITTED a
  mention committed between the two statements is marked seen and never
  returned. `MCBoardTxPostgres.cfg` with `MentionSets <- MCMentions`, the
  operations create, reply and catchup and the invariant `SeenWasReturned` shows
  it; on SQLite it cannot happen
  (`SeenMentionsWereReturnedOnSqlite`).

### Fairness

`BoardTx` has strong fairness per request: a statement that waits for a row is
queued by Postgres and gets its turn, or its transaction is failed by the
deadlock detector; weak fairness would let other requests take the row for ever.
`HumanAuth` has strong fairness per request for the same reason, and because
the database and Keycloak answer each call. `Push` has weak fairness of every
handler, which the server runs to its answer, and of the client's reaction to
what it is told; nobody is bound to post, subscribe or poll. `Boot` has weak
fairness of the two goroutines and of the listener: goroutines run, timers
fire, `Listen` returns. No fairness is assumed of a serving listener failing, of
clients, probes, outages or cancellation.

## 4. Proofs

Each proof module states an inductive invariant, one lemma per action with a
step per part the action can disturb, and the theorems that follow.

**Board**, from `InstantsAssumption` alone (timestamps are naturals after the
zero time): `TypeOK`, `WatchPairing`, `NothingLost`, `NeverTwice`,
`SeenWasReturned`, `CursorNeverMovesBack`, `UnreadUntilReturned`, for all actors,
threads and timestamps. None but the pairing is inductive by itself; `BoardInv`
adds

- `NothingAhead` and `MentionsNotAhead`: no reply, no cursor and no mention is
  later than the last timestamp given out. A new post is therefore later than
  every cursor, so nothing can be passed before it exists;
- `GotIsRead`: what was returned in a standing watch lies below its cursor. This
  makes `NeverTwice` follow;
- `RepliesHaveThreads`, and `seen = told`, which make the rest go through.

The only arithmetic is in `MaxIsLargest`, by well-foundedness of
`<`, and in `CatchUpCursors`: a cursor moves to the greatest unread timestamp,
so neither back nor past what is returned.

`BoardImplementsInbox` is the refinement, one lemma per operation
(`InboxAddReply`, `InboxCatchUp`, ...). It needs the invariant three times: a
reply is new and unread for every standing watch because it is later than all
cursors; a watch begins with the whole thread unread because there is no cursor
without a Watcher row (`WatchPairing`) and a new one is the zero time; and after
`catch_up` nothing waits, because the cursor has moved to the greatest timestamp
of what was returned (`CatchUpCursors`), and every mention it found is marked.

**BoardTx**, from `ListsAssumption`, `FiniteAssumption` (threads and requests are
finitely many), `MaxClockAssumption` and `BackendAssumption`, for any number of
requests, actors and threads, with crashes and all five operations.

On SQLite, `SerialOnSqlite`: the transactions implement `Board`. `BoardTxInv`
says of each transaction what its pending writes are at each statement, in terms
of the tables it reads (`CreateSound`, `JoinSound`, `UnwatchSound`,
`CatchUpSound`), and of the snapshot that it is the committed tables unless the
transaction is `stale`, and that whoever holds the write lock is not. A commit
with writes therefore maps to one step of `Board` on the tables it read; a
commit without any is a `catch_up` that found nothing, a stutter; a commit
beside a reader makes it stale and touches nothing it holds. `ClockOK` gives a
timestamp that is later than every committed one. `Proved` instantiates
`BoardProofs` with the committed tables, so its theorems hold of them
(`WatchTablesAgreeOnSqlite`, `RepliesAreNotLostOnSqlite`,
`SeenMentionsWereReturnedOnSqlite`, `InboxOnSqlite`): the first two are what
`tx_pairing` and `tx_lost` find violated on Postgres.

On Postgres there is no serial order to rest on, and the committed tables change
between the statements of a transaction. `TransactionsTypeCorrect` (both
backends) uses `PostgresTypes`: which statements an operation can be at, and that
what a `catch_up` has read is still there. `NothingComesTwiceInTx` and
`CursorsMoveForwardInTx` (both backends) use `PostgresOrder`, inductive when
`OneCallPerActor`: each actor waits for its answer before its next call, and may
do all five operations. Then nobody else writes an actor's cursors but for
creating the row (at the zero time), so

- a cursor set and not committed is later than the committed one
  (`PendingCursors`), which is `CursorNeverMovesBack` at the commit; only an
  unwatch takes a row away, its own;
- the rows a `catch_up` read are as it read them, and the replies it will return
  are past those rows and covered by the cursors it sets (`CatchUpAhead`), so what
  it returns is at or below the cursor from its commit on (`Returned`), which is
  `NeverTwice`;
- a reply that has its timestamp is later than its author's cursor, because no
  cursor is ahead of the clock (`TimesOK`) and only its author moves it
  (`JoinAhead`);
- two requests write different cursors (`Apart`): whoever would write another's
  pending row waits for it.

The condition is not the code's: a client may make two calls at once. With
`OneCallPerActor = FALSE` in `MCBoardTxPostgres.cfg` TLC violates both properties:
a reply that took its timestamp first and commits last sets its author's cursor
back below what a `catch_up` of the same actor has returned in between, and that
comes again. SQLite needs no such condition.

**Push**: `PushTypeOK` and `PushReachesSubscribers`. `PushInv` extends
`BoardInv`: a handler knows its post's thread and author until it has read the
watchers (`HandlersKnow`), nobody is owed a push for its own reply
(`OwedToOthers`). `WatchPairing`, from `BoardInv`, is what makes the watchers'
lookup find whoever the unread reply is owed to. While a client counts, a reply
owed to it is counted already or lies above the cursor of a watch still to be
counted (`Learning`): the cursors it holds may be old, but an old cursor is lower
and counts more, and a reply read since is owed no longer. `PushKeepsTheBoard`: the posting
tools, the REST handlers, subscriptions, crashes and lost answers take no step of
the tables that is not the board's, so `Board`'s theorems and `Inbox` hold beside
pushes.

**Mentions**: `TypeOK`, `NotifiedOnce`, `ReportTellsDelivery`,
`ResolvesAsDocumented`, `RefusedOnlyForOrphans`, from the assumptions on names,
folding and ids. `MentionsInv` says of a post under way that its report covers
the handles it has passed, that its rows are whom those reached, and, as long as
nobody has committed beside it, that the lookups behind it found nothing.

**Credentials**, from no assumption: `TypeOK`, `LateCallsRefused`,
`ListTellsWhoMayCall`. `CredInv` adds `ShutIsRevoked` (the revoked rows are those
of the tokens an administrator revoked: no write brings one back, and none is
revoked by anything else), `BeforeIsPast` (what was issued or revoked when the
list was asked for still is) and `LateIsShut` (a request that has found its row was not late).

**ThreadList**, from `IdsAssumption` (ids are finitely many and ordered),
`LimitsAssumption` and `LimitTypes`: `TypeOK`, `ShownOnce`, `ListMissesNothing`,
`ListShowsMatches`, `SearchMissesNothing`, for any number of threads,
timestamps, filters, queries, limits and requests, without the bound on what is
shown. `PageOfThreads` says what one page is: sorted, with every row it leaves
out beyond its cursor, because the ids make `Newer` a total order (`NewerOrders`).
`ListInv` says that during a walk the cursor is the key of the last thread shown
(`CursorIsLast`) and that a request under way is the only one and asks for what
follows that cursor (`Alone`), so a page continues the order (`SortedGoesOn`) and
takes up what the cursor reaches. Threads keep their timestamps, so a change of
the table moves nothing across the cursor (`ChangeKeeps`). Of a search between
its statements, `TagsSound` says that the text matches are complete if they left
room and everything else that was there has the tag.

**HumanAuth**, from `NameOfAssumption` and `MaxTokenAssumption`: `TypeOK`,
`OneActorPerSubject`, `IdentityHasActor`, `OverAdmitsNobodyNew`. `HumanInv` adds that a
creating transaction is the only one of its subject (`CreatesAlone`) and, past
the unique index, of its name (`NameReserved`), and that a request holds the
actor of the identity it found. `SessionInv` adds `TokensBehind`: no row and no
refresh has a token ahead of Keycloak's current one, so a rotation makes nobody
else's token the current one, and no request comes inside a session by it.

**Boot**, from `MaxOutagesAssumption`: `TypeOK`, `ReadyMeansServed`,
`ReadinessNotUndone`, `OutageEndsOnlyAtHandover`, for any number of probes and
outages. `RoutesFirst` says that no checker, copied or current, claims
migrations before the routes are installed; `RetryAlone` that while the retry
goroutine can still write, nothing has been handed over and the checker is
unreplaced.

Only model-checked:

- liveness (`EveryRequestEnds`, `SubscribersCatchUp`, `Recovers`): it rests on
  fairness, which is out of the prover's reach;
- that a query of `ThreadList` has an answer at all: the theorems speak of every
  answer; existence needs induction over the rows and is left to the instances
  TLC runs.

## 5. Not modelled

- The databases, Keycloak, the locks of AutoMigrate, the full-text engines, TLS,
  HTTP timeouts: only what the code sees of them.
- Titles, bodies, profile texts, the profile and thread views: data that no
  property tells apart. Tags appear in `Listing` alone.
- Encryption of refresh tokens (a pure function; a failure is a failed refresh),
  JSON, routing and role gates, the stub provider, embedded assets.
- Several instances of the server on one database: `README.md:20-24` asks for one,
  or sticky sessions, where pushes matter.
- The web pages other than the list. The thread page keeps the thread it shows
  while its address changes and sets answers in the order they come, like the
  list; it has no cursor to go wrong, and a reload corrects it.
- The `oauth_state` cookie of overlapping logins in one browser: the later one
  replaces it and the earlier callback is refused, which loses nothing but the
  attempt.

## 6. Plan

Done, in this order: `Board` and its proofs, `BoardTx`, `HumanAuth`, `Boot` and
its proofs, `Mentions`; then `Push`, `Credentials`, `Listing` with `ThreadList`,
and the proofs of `Credentials`, `Push`, `HumanAuth`, `Mentions`, `BoardTx` and
`ThreadList`.

Then `Inbox` with its refinement by `Board`, the theorems of `Board` carried over to
the transactions on SQLite, and the Postgres theorems of `BoardTx`.

Left, in order:

1. `BoardTx`: resolve and reopen as single statements beside the transactions,
   which on SQLite make a reader's snapshot stale; the proofs gain a case each.
2. An abstract register of tokens (issued, revoked, who may call) that
   `Credentials` implements, in place of its two properties of requests.
3. `ThreadList`: that walks end once nobody creates threads, a liveness property
   of the page's own requests, checked by TLC.
