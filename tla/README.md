# A verification project for MCPR Gateway

MCPR Gateway stands between MCP clients and downstream MCP servers. A client
opens a session in a namespace, lists a small window of tools, and calls them;
the gateway chooses the window, forwards the calls, watches the downstream
servers and lets administrators change the configuration while all of this
goes on. This directory holds TLA+ modules of its stateful parts, the TLC runs
that check them on small instances, and proofs for TLAPS. Paths below are
relative to `src/` of the repository (so `src/router/router.ts` is the router,
`ui/src/routes` the admin pages); line numbers belong to the modelled commit.

## 1. Inventory

The gateway is one Node.js process. Its code is interrupted only where it
awaits I/O: two handlers interleave there and nowhere else. That is the grain
of all modules: one action is what runs between two such points. An `await` of
something that is already resolved (better-sqlite3 is synchronous, so the
repositories are too) lets only microtasks run, and is not a step of its own.
Browsers, child processes, downstream and authorization servers run beside it.

| Component | State | Operations | Talks to | What is hard |
|---|---|---|---|---|
| Rate limiter `resilience/rateLimiter.ts` | two maps of sliding windows, a count per server | `checkSession`, `checkUser`, `acquireDownstream` and its release closure, `updateConfig` | called by the router; reset by every save | closures that outlive a reset; window boundaries; a request charged to one window and refused by the other |
| Health monitor `health/monitor.ts` | a state per server, the monitored servers and their timers | `start`, `stop`, `check` | timers, admin route, registry; read by the router | overlapping probes; probes that outlive `stop` |
| Session store `session/store.ts`, `repositories/sessions` | session by id | `get`, `set`, `delete`, cleanup timer | dispatch, router, trigger engine, admin | whole-object writes of copies read earlier; expiry; restart |
| MCP dispatch `gateway/dispatch`, `gateway/routes/mcp.ts` | none of its own | `initialize`, `tools/list`, `tools/call`, streams | store, auth, router | session and configuration read before a check that awaits, used after |
| Router `router/router.ts` | none of its own | `route`, `executeDownstream`, `persistOutcome`, the gateway's own tools | limiter, monitor, registry, store, trigger | order in which calls settle; what is checked when a tool is called by name |
| Trigger engine `trigger/engine.ts` | none of its own | `evaluate`, `refresh` | store, registry, selector | cooldown, first success in a domain |
| Registry `registry/registry.ts` | tool cache, refresh timers | `start`, `stop`, `refreshTools` | monitor, transports, timers | a second `start` while the first awaits; late answers |
| Configuration `config/runtime.ts`, `repositories/config` | effective configuration, versions, `bootstrap.json` | `initialize`, `saveAdminConfig`, `rollback` | registry, limiter | two statements that are no transaction |
| Admin API `gateway/routes/admin.ts` | none of its own | routes for servers, namespaces, policies, tokens, import, rollback | configuration, registry, sessions | references between the parts of a configuration |
| Admin pages `ui/src/routes` | what was loaded, edits | load, save, series of requests | admin API | saves of what was loaded long ago; lost answers |
| Code runtime `runtime/mcp-api.ts`, `runtime/sandbox.ts` | call count and batch index of an execution, pending bridge operations | `mcp.call`, `mcp.batch`, timeouts, disposal | router | workers that outlive their batch; a shared index |
| Handles `runtime/handle-registry.ts`, `catalog-api.ts` | two indexes and an expiry | register, resolve, cleanup | code runtime | indexes that disagree; tools disabled after they were shown |
| Selection `selector`, `candidate`, `toolcard` | none | filters, ranking, publication | trigger engine, bootstrap | stability and reserve pull at the same list |
| Downstream authorisation `registry/auth/manager.ts` | credentials in SQLite, pending logins, a status | begin, complete, refresh, disconnect | HTTP transport, admin | refreshes of one token that overlap; operations that are overtaken |
| Stdio transport and logins `registry/transport/stdio.ts`, `registry/stdio-interactive-auth.ts` | child processes; the session of a login | fetch, call; start, cancel, sync | registry, admin | timeout against answer against exit; late exit handlers |
| Embedded OAuth server `gateway/routes/embedded-oauth.ts`, `gateway/admin-auth-session.ts` | clients, codes, admin sessions, signing keys | register, authorize, token | clients, configuration | a code used while its token is being signed; keys that change |
| Inbound authorisation `auth`, `policy`, `gateway/routes/oauth-metadata.ts` | caches of key sets and issuer documents | identify, challenge, documents | dispatch, issuers | awaits in the middle of a request; a challenge that leads nowhere |
| Audit, telemetry, artifacts, help, loaders, bench | logs, files | append, parse | | nothing reads them to decide anything |

What makes each one correct is stated with its module in section 3.

## 2. Plan

The order was: what every tool call depends on, what changes underneath it,
the parts around it, the proofs.

1. `SlotPool`, `RateLimiter`, `HealthMonitor`, `Sessions`, `Registry`,
   `ConfigVersions`, `CodeRuntime`.
2. `RuntimeConfig` composes `ConfigVersions` with `Registry`.
3. `DownstreamAuth`, `StdioSessions`, `InboundOAuth`, `McpAccess`: everything
   that authenticates, in both directions.
4. `ConfigEditing`: the admin API together with its pages.
5. `Selection` and `Discovery`: from the ranking of tools to the call of one by
   window, name or handle.
6. Proofs, a module for each group of components: `RateLimiterProofs`,
   `HealthMonitorProofs`, `SessionsProofs`, `ConfigurationProofs`
   (`ConfigVersions`, `RuntimeConfig` with `Registry`, `ConfigEditing`),
   `CodeModeProofs` (`CodeRuntime`, `Discovery` with `Selection`),
   `DownstreamAuthProofs`, `StdioSessionsProofs`, `InboundProofs`
   (`InboundOAuth`, `McpAccess`). Where two components share a proof module
   their specifications have names of their own (`EditingSpec`,
   `DiscoverySpec`, `AccessSpec` and the like).

All of it is done; every safety property that a run checks is also proved. Left
for whoever goes on: the HTTP transport's session header and event streams;
`Sessions` in the same state space as `RateLimiter`, which today share only the
code that calls both.

## 3. Modules

### SlotPool and RateLimiter

`SlotPool` is the promise: a server has `cap` places; a call takes one or is
refused while they are taken. When the cap is chosen anew, the pool may exceed
it by the calls in flight at that moment, which is what the code does.
`RateLimiter` is the code. `concurrency` is `downstreamConcurrency`; `slot[c]`
is the release closure held by call `c` (taken in `executeDownstream`, run once
in its `finally`); the two windows are sets of numbered stamps, the arrays of
the code in any order, since stamps never go back. `UpdateConfig` empties all
maps with calls in flight, as every save and rollback does. `carried` remembers
how many were in flight then, and `passed` and `admitted` what was let through,
so that the limits can be stated on the history and not on the array that the
code prunes.

- `SessionLimitHolds` (and, proved only, `UserLimitHolds`): no window anywhere
  on the history exceeds its limit. `RefusedOnlyAtLimit`: no refusal without
  cause; a request the user's limit refuses is still charged to its session.
- `PoolSpec`: the limiter implements `SlotPool`. `NoSlotLeaked` and
  `OvershootBounded` say what is left of the cap under saves; both are proved.

### HealthMonitor

`Check` is `check()` up to its await: it reads the stored state into
`probe[p].seen`. `Answer` is the rest: it computes a state from `seen` and
stores it without looking. `Start` and `Stop` clear the maps but not the probes.
Failure times are ages that saturate at `MaxAge`; `failed` and `quiet` are
histories no code touches. A credentials error makes a server healthy and keeps
its count and age.

- `NoFalseAlarm`: a count of failures never exceeds the real number.
- `Recovers`, `OutageDetected`: a server whose failures stop is healthy for
  good in the end; one that only fails goes offline for good.
- `OrphansAreLate` (proved): only a late probe leaves a state for an unmonitored
  server. Such a state may be "offline" and then stays so, since nothing checks
  the server any more (monitor.ts:208).

### Sessions

`store` is the session store; a request waits in `request` either for its token
check (`at` = list or call, with the copy `seen` of the session) or for the
downstream server. The handlers write the whole copy back after the check, and
`persistOutcome` reads the store anew after the call: so do `FinishList`,
`Checked` and `Complete`. `Evaluate` is the trigger engine with `refresh`, which
awaits nothing but resolved promises. `settings` are what the process was
started with: repository, cooldown, triggers, and whether a check may await I/O
(`oauth`: the modes hybrid and oauth, with the key set of an issuer) or goes on
at once (`static_key`); then `Next` lets nothing run between the two halves of a
handler. Windows are sets of tools out of `Catalogs`, the selector's choice; the
modelled session is one of gateway mode `default`.

With checks that await I/O the whole-object write-backs undo what happened
meanwhile. A session revoked during a check is active again (tools-list.ts:74):
the run `Sessions_revoked` shows it against the documents, `EndedStaysEnded`
fails. In the same way a refresh that another call of the session made is lost,
with its window and its announcement (tools-call.ts:286). What can be said in all
cases is how far a write-back can set a session back. `floor` is a history: the
session when last no check of it was under way.

- `EndStands`: a session that had ended by then never serves again.
  `RefreshesStand`: no write undoes a refresh made by then. `OutcomesStand`: the
  outcomes recorded by then are there, up to the limit; some of those that settled
  since may be lost, none is out of order, twice or made up, and none is lost
  that settles while no request of the session is being checked.
- `ChangeAnnounced`: a client whose list is out of date has an announcement
  coming, whatever is written back. `told` forgets a listing that overlaps
  another check of its session: that one may write back the announcement or the
  window of before.
- `IdleRemoved`: an unused session is removed, although late requests write it
  back.

### Registry, ConfigVersions and RuntimeConfig

`Registry`: applied configurations are numbered; `Begun` is `stop()` and
`start()` up to the await, `Fetched`/`FetchFailed` its fetches, `Started` the
rest, for the servers it was called with. `timers` are the intervals that exist,
`held` what the map knows: `stop()` can only clear `Held`.
`Refresh`/`Refreshed` are `refreshTools`, for timers and the admin route.

`ConfigVersions`: `hasRepo` says whether there is a repository (not
`SESSION_BACKEND=memory`), `rows` is its table, `file` is `bootstrap.json`,
`change` a save or rollback between its two statements. `Crash` and `Fail` may
come there; nothing else can, as both statements run in one synchronous stretch.
`EditFile` is somebody editing the file while the gateway is down. `last` and
`cut` are histories: what was committed last, and whether a change was cut short
since.

`RuntimeConfig` is `RuntimeConfigManager` over both: `Start` boots and applies
what it found, `Edit`, `ApplyResolvedConfig` and `EditFailed` are a save or
rollback, `Die` a crash at any point, `Serve` what the registry does by itself.
Nothing keeps an administrator from saving while the start of an earlier save
still waits for its fetches, so starts overlap and end in any order. `since` and
`crowded` are histories: the last configuration applied while no start waited,
and the starts that overlapped another. The specification implies that of
`ConfigVersions` (proved).

- `EffectiveIsStored`: what runs is what is stored, or nothing is stored because
  the last change was cut short. `RestartRestores`: a restart brings back the
  configuration committed last, `auth` included and whatever became of the file;
  after a change that was cut short it brings back the file.
  `AtMostOneActive` (proved) holds even then.
- `TimersAccounted`: a timer that `stop()` does not know of was set by a start
  that overlapped another. `SettledOnStored`: with no start waiting, what is
  watched and refreshed is not older than the last configuration applied in
  peace, each server to be refreshed has a timer that `stop()` knows of, and the
  store holds no other configuration. When no start overlapped since, that is
  exactly the stored configuration.
- `CatchesUp`: a late answer may replace the tools of a server by older ones,
  but refreshes repair that.
- Seen while modelling: two overlapping starts register timers under one key, and
  `stop()` leaves one running (registry.ts:174), where the tests say that it
  clears them (test/unit/registry.test.ts:371). docs/CONFIGURATION.md (lines 11,
  19, 47) says that `auth` always comes from the file, but `mergeWithAdminConfig`
  ignores what the file says (loader.ts:71): `RestartRestores` says what the code
  does. A crash between the two statements of a save leaves no active version, and
  the next start seeds the store from the file although it is not empty
  (docs/CONFIGURATION.md:25 speaks of the first startup only).

### CodeRuntime

The guest is blocked in `applySyncPromise` while an operation of its own is
pending, so its operations are a sequence `op`; what differs is how long their
workers live on the host. `count` and `index` are the two counters of
`McpRuntimeApi`. `pending` is the one bridged promise the guest waits for;
`Answered` settles it. A worker that finishes a call takes the next number of
the shared counter, whichever batch it belongs to. After an error the guest may
end or, having caught it, go on.

- `LimitKept`, `ComesToRest`: for every guest.
- `BatchWholeAlone`: a batch that begins with nothing in flight makes each of
  its calls once. Without the condition this fails: a worker left over from a
  failed batch takes a number of the next one, finds it beyond the end of its
  own, and the call is lost although the batch resolves (mcp-api.ts:92).

### DownstreamAuth

One server's credentials (`secret`, `tokens`), what the manager says of them
(`state`), the pending logins (`flow`) and the operations that wait for I/O
(`op`): tool calls, fetches, probes and the two halves of a login. Each
operation carries what it read before its await (`conf`, the tokens it
refreshes) and goes on with that, as the code does; nothing makes two operations
wait for each other. `SyncServers` is the save of a configuration, `Restart`
loses everything but SQLite. The authorization server is external: its refresh
tokens are numbered, and either it rotates them, so that a refresh uses up the
token it was asked with (`spent`), or the old one stays good and an answer may
bring none and no new expiry; it may refuse anything. `clean` and `lost` are
histories: whether an operation that had been overtaken was the last to write
the status, and which tokens were used up by a refresh whose answer never came.

- `ExchangedOnce`: the code of a login goes out at most once, however often the
  browser comes back with it. `StatusTruthful`: what the administrator is told is
  true of what is stored. `KeptInStep`: the gateway does not lock itself out.
  However refreshes, logins and disconnections overlap, the refresh token stored
  is not one that is used up, except while its replacement is on its way or was
  lost with a crash or a timeout.
- The token stored need not be the newest grant: of two operations that got
  grants, the one that stores last wins (manager.ts:821-893). It still can be
  used, as the server gives an answer to one of two refreshes with one token only.
  A server that revokes a whole family of tokens when a spent one comes back is
  not modelled; with one, such an overlap would end the authorisation.
- Seen while modelling: of two refreshes the server accepts once, the loser
  leaves the status at RefreshFailed though good tokens are stored, until the
  next request; a refresh or exchange that ends after a disconnect stores its
  tokens all the same; the fetches of a refresh have no timeout.

### StdioSessions

`proc[p]` is a child process with the state of its promise, `record` the entry
of the login manager, `cached` whether the registry holds tools of the server.
`Answered`, `Failed`, `TimesOut`, `Closes` settle a promise at most once;
`Settle` is what the promise's end makes of the login, in the same step. A
process that was sent SIGTERM may live on and be heard. `ApplyConfig` is a
save: it cancels the login and starts a fetch.

- `NobodyLeftRunning`: whatever settles a promise, its process has been told to
  end. `LoginAccounted`: the session is active exactly while its own process is
  awaited, and no other login is. A session left active would block every
  refresh of the server (registry.ts:66). `LoginEnds`: none is active for ever.
- `ReadyHasTools`, `HeardOwnOrEnding`: proved.

### InboundOAuth

From the login of an administrator over client registration and authorisation to
the exchange of a code and the check of the token. `BeginExchange` deletes the
code and awaits the signature (`signing`); `EndExchange` hands out the token.
Time is ages that saturate above each lifetime. `SaveAuth` changes provider or
keys; `Restart` empties everything in memory and makes keys where the code does.

- `CodeOnce`, `CodeKept`: a code is exchanged once, and only its own client, its
  age or a restart costs a client its code. `TokensBacked`: nobody holds a token
  that counts unless somebody logged in not longer ago than a login, a code and
  a token last together. Logging out does not shorten that.
- Seen while modelling: a switch to `static_key` drops the signing keys, and a
  switch back leaves none until a restart; an exchange then uses up the code and
  fails with 500.

### McpAccess

The routes of `/mcp/:namespace` as far as they decide who gets in. (The stdio
front end, stdio-mcp.ts, is never started: index.ts:52.) A request (`asked[c]`) that has to validate a token awaits the
discovery of the issuer's key set (`Discovered`) and the keys (`Verified`), and
goes on with the configuration, session and credential it read before;
`SaveConfig`, `EndSession`, `TokenExpires`, `IssuerToggles` and
`GatewayRestarts` may come in between. `Handle` is what needs no await. A request whose protocol version is not the
session's is refused after the check and writes nothing back. `Held` says which
credentials a client has. `GetDocument` are the
documents a client reads to find out where to log in. `answer` is the answer
given in this step; the properties are about it. Issued tokens are genuine; demo
mode and the name of the claim for roles are left out. The assumptions keep
model values apart (a key is not `None`, a user is not "anybody") and say what a
configuration may hold, which the schemas see to.

- `OwnersOnly`: where OAuth applies, a session serves nobody but the user who
  opened it, keys that change hands and saves included. Where it does not apply
  any more, e.g. since the namespace was deleted, the session id is enough.
- `StaysOpen`: the credential that opened a session goes on serving it under the
  same configuration until it expires or its issuer fails. A discovery that
  failed once pins a guessed key set address until a restart (`url` =
  "fallback"), hence the exception.
- `ChallengeFollowable`: the documents a refused client is sent to are served to
  it, and name servers whose tokens it would be let in with. It excepts, and
  states so, a custom audience, a missing signing key, and
  `requireForNamespaces: []` in hybrid mode, which protects every namespace
  (oauth-config.ts:95) and hides the root document (oauth-metadata.ts:70).

### ConfigEditing

`conf` keeps, of the configuration, what refers to something else. Each route is
one action: it reads the configuration, changes a part, normalises (namespaces
that servers name come into being, open to every role: admin.ts:213-250),
validates and saves, with nothing in between. `page[p]` is a tab: `Open` asks
for all the page shows, `Load` lets the answers arrive one by one, the save
actions send what was loaded and changed, by one request or by a series of PUTs
(`SendPut`, `PutFails`) of which any may fail. `stored` are configurations
somebody may roll back to or import. `op` says what the last save was. Requests
of pages that were left behind are covered by `ByApi`, the same requests from
anywhere; a page's draft is one edit at a time.

- `Consistent`: whatever is saved from whichever page, nothing in the
  configuration refers to what is not there. `GrantsAreLive`: no role may enter
  a namespace that is not there, so that one created later under its name is
  not open; nothing in the code checks this. `TokensByHand`: tokens change by
  the token routes, imports and rollbacks, never by a page loaded before.
  `NoSilentGrant`: access appears only where somebody asked for it.
- Seen while modelling: renaming a role takes it from all tokens; removing or
  renaming a namespace that a server still uses brings it back open to every
  role; a rollback or import brings back tokens that were revoked
  (access/+page.svelte:576 says that cannot be undone).

### Selection and Discovery

`Selection` is the pure part: hard filters, the pool, reranking by health,
failures, trust, mode and focus, and `publishWindow` with its stability
threshold and reserve. `Sorted` counts how many go before an entry, `Selected`
fills one place after the other (`Choice`), and `WithReserve` gives the places
of the last tools in focus to the best that are spare. Scores count quarters of
a point, so that the threshold 1.0 is 4; the text scores that order the pool are
a choice. The penalty for a high estimated latency (scorer.ts:87) is left out:
nothing in the program gives a tool such an estimate. `Discovery` is one
session in each gateway mode: its window and outcomes, the gateway's own tools
(`GatewayCall`, `SearchAndCall`), and code mode with the handle registry of the
latest execution (`registry`), which lives on a copy of the session
(`StaleCopyStored` is any later write of an older copy, which loses it). `Show`
issues handles, reading the clock once to clean up and once more for the
expiry, `CodeCall` resolves one with its two clock reads. The operator
disables and quarantines tools, servers come and go.

- `HandleMeansOne`: within an execution a handle leads to the tool it was given
  for or nowhere. `MapsAgree`: the two indexes agree, but for a handle whose
  life ends between the two clock reads of a resolve: it stays in `byTargetKey`,
  so that the tool is given a dead handle until the registry goes
  (handle-registry.ts:42, although help.ts:173 says to search again).
- `DisabledRunsOut`: code mode does not check `disabledTools` when a handle is
  used; the call stays possible as long as execution and handle last.
- `WindowKept`, `ReserveHonoured`: what publication promises, checked on every
  ranking a refresh produces, for each size, previous window and reserve. The
  engine itself asks for all of the ranking (selector/engine.ts:58), so smaller
  sizes are the function's contract only.
- Seen while modelling: tool cards carry sanitised names, and those are sent to
  the server (toolcard/generator.ts:106): "getUser" is offered as "getuser",
  which its server does not know, though `gateway_call` asks for "its exact name"
  (gateway/discovery.ts:110). A quarantined tool can be called by name, since
  quarantine is asked only when tools are shown (router.ts:343); no refresh
  follows `gateway_run_code`; `session.handleTtlSeconds` of CONFIGURATION.md:110
  is not what bounds handles, the artifact TTL is.

## 4. Runs and bounds

| Run | Instance | Why it is enough |
|---|---|---|
| `RateLimiter_saves` | 2 sessions of one user, 5 requests, clock 0..5, limits 2 and 3, windows 1..3; 4 calls, 2 servers, caps 1 and 2 | a session's and the user's limit bind in turn and stamps leave both windows; two calls carried over a save and two after it. Windows and slots share nothing but the configuration; the constraint `Apart` checks them one at a time |
| `HealthMonitor_restarts` | an HTTP and a stdio server, 2 probes, three configurations with thresholds 1..3 and reset 1..2, ages to 2 | two probes overlap across a restart with the server and without; degraded and offline differ; a reset time passes |
| `Sessions_checks` | one session, 2 requests, a tool that is published or not, 2 recorded outcomes of 3 calls, 1 refresh before the last call, lifetime 1; SQLite with checks that await I/O, or memory with checks that do not and a cooldown of 1 | two checks overlap each other, and either a call that settles, a refresh, expiry, a revocation and a crash; two calls in flight settle in either order, and in memory a third drops the first; sessions share nothing, so one is enough |
| `RuntimeConfig_restarts` | 1 server; 3 configurations, in which it is refreshed, disabled or gone, each with an `auth` of its own; 3 versions, 3 configurations applied between two restarts | three starts overlap, a rollback follows a save, with a failure or crash in each half; servers share nothing but that `start()` waits for all |
| `CodeRuntime_overlap` | batches of 2 and 3 calls on 2 workers, 3 operations, limit 5 | a batch with more calls than workers, next to the workers of two others |
| `McpAccess_sessions` | 1 namespace, role and mode; 2 users; a key and 2 tokens; a browser and another client; 1 session; 4 configurations of every mode and provider, of which the one in effect and those remembered by sessions and requests are two at a time (`TwoConfigurations`) | a key changes hands under a session, a token meets a configuration of each kind, a discovery fails and is pinned |
| `DownstreamAuth_races` | 2 operations, 2 logins, 2 requests per call, 3 grants, modes absent, secret and oauth | two refreshes, a refresh and an exchange, and either with a disconnect or a save, overlap |
| `StdioSessions_logins` | 3 processes | one of a cancelled login that lives on, one of the next login, one of a fetch |
| `ConfigEditing_pages` | 2 servers, 2 namespaces, 2 roles, 1 token, 1 page, 3 saves, 1 configuration to go back to | a page is loaded, the configuration changes once or twice, the page is saved; a second page does no more than the routes, which run beside it |
| `InboundOAuth_exchange` | 2 logins, clients, codes and keys; every lifetime 1; 1 save | two exchanges overlap each other, a save and a restart, and everything expires |
| `Discovery_session` | 3 tools on 2 servers, one of them with a name that changes and two of one name; 2 handles, handle life 1, executions of 1, clock to 3, 1 change from outside | handles run out and are made anew within an execution; a tool is disabled before, during and after it |

`Sessions_revoked` is expected to find a violation: two requests of one session
in SQLite, whose checks await I/O, and two tools. `PROJECT.json` quotes the
sentence it refutes.

`CHECK_DEADLOCK FALSE` is given where the modelled thing ends: an execution of
code mode, and where the saves are bounded and all else has come to its end
(`ConfigEditing`, `InboundOAuth`).

Bounds: `MaxTime`, `MaxRequests` (clock and requests of the limiter), `MaxAge`,
`MaxFailures` (where ages and counts of the monitor saturate; assumed to reach
the thresholds), `MaxCalls`, `MaxRefreshes` (calls of a session), `MaxApplied`
(configurations a process applies), `MaxVersions` (rows), `MaxOps` (operations
of a guest), `MaxGrants` (grants of an authorization server), `MaxSaves`,
`MaxStored`, `Lifetime`, `MaxHandles`, `MaxChanges`. The count of tool calls in
`CodeRuntime` saturates one above its limit, where the code no longer tells
counts apart; ages saturate one above the lifetime they are compared with.

Symmetry is declared for servers and calls (`RateLimiter`), operations and logins
(`DownstreamAuth`), roles and servers (`ConfigEditing`), in runs of safety
properties only. Type invariants are proved and are in no run.

In the modules some operators are marked `Mutant`: each is the operator after it
with a plausible mistake. They show that a property fails if the code is changed
so; no specification uses them.

## 5. Fairness

Fairness is asked of the program and of time, never of users, administrators or
crashes: timers fire (`setInterval`, `setTimeout`), time passes, and what was
asked of another server is answered or runs into its timeout, so that the
promise settles one way or the other. A code-mode program ends because
`evalClosure` has a timeout; a login because its process has one. No fairness
chooses between an answer and a failure; where a property needs that failures
stop, or that the gateway stays up, it says so. `DownstreamAuth` has no liveness
property, because its fetches have no timeout.

## 6. Proofs

Eight modules hold theorems, for every choice of the constants that satisfies
the named assumptions of the module they are about. Each follows one argument:
an inductive invariant, a lemma per action that keeps it, the theorem by PTL.

- `RateLimiterProofs`. `SlotInv` is inductive where `NoSlotLeaked` alone is not:
  a release is harmless only if the count is at most the calls in flight, and
  the overshoot is bounded only if the calls in flight exceed the count by at
  most `carried`. From it `NoLeak`, `OvershootTheorem`, the refinement
  `PoolRefinement` and, without saves, where nothing is ever carried,
  `CapTheorem`. `LimitsHold` and `RefusalsJustified` from `LimitInv`: each
  stored window is the part of the history since the last save that can still
  matter; pruning drops only stamps outside every later window, because time
  does not go back.
- `HealthMonitorProofs`. `CountInv`: what a probe in flight has read is no more
  than the failures there were (`Accounted`), so that what it writes is not
  either: `NeverAFalseAlarm`. `OrphanInv` for `OrphansOnlyFromLateProbes`.
- `SessionsProofs`. `SessionInv` holds whether or not checks await I/O. What is
  stored is not enough: a request under check will write its copy back, so each
  copy, like what is stored, must have kept what the session had at its floor
  (`StoreFollows`, `SeenFollows`) and announce a change (`SeenAnnounced`). A
  session that is being checked was open at its floor (`OpenWhenBusy`), so one
  that had ended has no copy left that could revive it; with no check under way
  the floor is the session itself (`FloorStands`); an expired session counts as
  ended (`Lapsed`). From it `EndedStand`, `RefreshesKept`, `OutcomesKept`,
  `ChangesAnnounced`. The step that needs work is a recorded outcome: appending
  to an extension of the floor and cutting to the limit is an extension again
  (`ExtendsLonger`), and is all there is when nothing was lost (`AllOfOneMore`).
- `ConfigurationProofs`. `StoreInv` relates rows, file and configuration in
  effect by where a change stands, and whether the last one was cut short: from
  it `OneVersionActive`, `EffectiveStored`, `RestartsRestore`. Every step of the
  gateway is a step or a stutter of the store (`GatewayRefinesStore`), so these
  hold of the gateway. `RegistryInv`, for starts that overlap in any way: those
  that wait are no older than the last one applied in peace, and if there are two
  they are marked (`Overlapping`); what the map of timers knows exists, and is no
  older either (`Holds`); a timer it does not know is of a marked start
  (`Accounted`). From it `TimersAccountedFor` and `SettlesOnStored`.

  For `ConfigEditing`, `EditingInv` types the configuration and says of each tab
  what it shows, has got and waits for. `Consistent` is not inductive, since a
  rollback brings back what is stored: `ResolvedInv` asks the same of all that
  is stored. It needs nothing of what a page shows, because every save is
  validated (`ConfigurationConsistent`). Nothing validates that grants are live,
  so `LiveInv` asks it of what is stored and of every page as well, loaded by
  parts or not (`NoDeadGrants`). Both theorems assume it of the files the gateway
  may be started with, because `loadConfig` only warns of an undefined role; the
  configuration it writes when it finds none satisfies them
  (`DefaultConfFacts`). From a step's normalisation alone follow
  `TokensOnlyByHand` and `GrantsOnlyAsAsked`.
- `CodeModeProofs`. `RuntimeInv`: calls started are counted (`Counted`); an
  operation that began alone is the only one that runs, so the shared counter is
  its own (`OwnCounter`). From it `CallLimitKept` and `BatchWhole`.

  `DiscoveryInv`: the handles a registry knows are below the next number
  (`Numbered`), its two indexes agree but for handles that slipped
  (`Agreeing`), none outlives a handle's life from now (`NotBeyond`); each handle
  given to code that runs is still for its tool or gone (`IssuedAgrees`); and a
  handle of a disabled tool ends in time, because a catalogue is read only when
  an execution begins (`RunInTime`, `DisabledEnds`). From it `HandlesMeanOne`,
  `MapsAlwaysAgree`, `DisabledToolsRunOut`.

  `WindowsKept` and `ReservesHonoured` hold of every ranking, size, window before
  and reserve, not only of those a run tries. In a finite set with a strict total
  order each place, counted by how many go before, is taken by exactly one member
  (`PlacesFilled`); so the pool is ranked without loss (`RerankedFacts`), and
  the reserve replaces as many tools as it lacks, or as are spare, none twice
  (`ReserveFilled`). That the recursion of `Selected` defines a function, and what
  its value is, is shown from a least counterexample (`RecursionExists`,
  `RecursionUnrolled`). A ranked tool that is left out was displaced by none of
  the newcomers, each of which must then be better by the threshold
  (`SelectionKeepsWindow`).
- `DownstreamAuthProofs`. `AuthInv`: a login whose code was sent is pending no
  more (`SpentOnce`); the token an operation is going to store has not been used
  up, and nobody else holds or stores it (`GrantsKept`, `Private`), so that storing
  it, in whatever order, leaves a token that can be used; an operation that was
  not overtaken has read what still holds (`UpToDate`). From it `CodeSentOnce`,
  `RefreshTokenUsable`, `StatusIsTrue`.
- `StdioSessionsProofs`. `IInv`: the conjunction of the properties with
  `OwnLogin`, that the login's process is one started for a login. From it
  `NobodyLeft`, `LoginsAccounted`, `ReadyMeansTools`, `HeardInTime`.
- `InboundProofs`. `IInv`: a live code has not been exchanged (`Spent`), and
  each login, code, exchange and token is younger than the last login allows
  (`Backed`). From it `ExchangedAtMostOnce`, `TokensHaveLogins`, `CodesKept`.

  `AccessInv` for `McpAccess`: a stored session stands for the user its opener
  stood for under its configuration, and an opener that is no static key is a
  token that configuration accepts (`Opened`); a request that waits for a key set
  asks for a site it may ask for and holds such a session (`Admitted`). From the
  first `SessionsServeOwners`; with the second, an opener that comes back is
  accepted for the reason it was accepted before, `SessionsStayOpen`. For
  `ChallengesCanBeFollowed` the host that a challenge names is resolved again
  when the document is asked for: that resolving it twice changes nothing is what
  makes the documents those of the configuration that refused.

Model-checked only: liveness (`Recovers`, `OutageDetected`, `IdleRemoved`,
`CatchesUp`, `ComesToRest`, `LoginEnds`), which rests on fairness and, like
`ENABLED`, is out of the prover's reach. `EndedStaysEnded` is refuted. The
selection is written without folds, whose theorems take an operator as
parameter, so that it can be proved about.

## 7. Not modelled

- The stdio front end (gateway/stdio-mcp.ts), which index.ts does not start.
- Demo mode (refuses saves), schema validation and defaults, audit and
  telemetry, benchmarks.
- Artifacts, result helpers and help texts of code mode: one execution's map and
  pure functions.
- Command and URL checks: pure predicates over strings; the models let a choice
  stand for what they let through.
- The parsing of event streams and the session header of downstream HTTP
  servers, message framing of child processes.
- Text scores of the selector (BM25 and lexical matching), overrides of a tool's
  text, starter packs.
- In `Sessions`, two outcomes of one `mcp.batch` that settle in the same turn of
  the event loop, and the windows of modes `compat` and `code`, which are fixed
  gateway tools.
- A tool override is saved after an `await` of the registry's cache
  (admin.ts:1948), which is a map lookup (registry.ts:47) and so no point of
  interleaving.
- The components listed as not modelled in `PROJECT.json`, with their reasons.
