# OmniHub: a TLA+ model

OmniHub is a gateway in front of large-language-model APIs: clients call it in
the Anthropic or OpenAI format with keys of its own, and it routes each request
to one of many upstream accounts, with failover, sticky sessions, rate and spend
limits, billing, OAuth token upkeep and an admin UI. It is one Go process beside
PostgreSQL; nearly all its state that is hard to get right is in memory, shared
by request goroutines, tickers and listeners. A React app is its console.

This directory holds a TLA+ model of that state, the configurations with which
TLC checks it, and theorems whose proofs TLAPS checks.

* [Inventory](#inventory): the system's parts
* [Modules](#modules): what is modelled, and how it maps to the code
* [Runs](#runs): what is checked, within which bounds, under which fairness
* [Proofs](#proofs)
* [Disagreements](#disagreements) between the code and what is said of it
* [Not modelled](#not-modelled)

`PROJECT.json` has the details: every definition's source lines, every run, a
mutation of the model that each property catches, and the hazards the
properties are for.

## Inventory

### On the path of a request

| Part | Code | State | Operations | Correct when |
|---|---|---|---|---|
| Guards | `internal/service/guard`, `limits`, `blockedip` | RPM windows, token buckets, spend and balance caches | allow, charge, refresh | limits hold up to the stated imprecision |
| Failover loop | `internal/handler/gateway` | locals of the handler goroutine | resolve, refresh, acquire, dispatch, retry, commit, record | every request ends, is recorded, costs a bounded number of calls, returns its slots |
| Resolver | `internal/service/resolver` | round-robin cursors | pick an account | never a sick, full or excluded one |
| Sticky sessions | `internal/service/session` | key to account, with expiry | get, bind, sweep | affinity only |
| Concurrency guard | `internal/service/limits/concurrency.go` | calls in flight per account | acquire, release | the cap holds, no slot leaks |
| Circuit breaker | `internal/service/health/tracker.go` | per account: state, counts, deadline; cooldowns | consult, success, failure, cooldown, reset | counts agree with history, no early trip or close |
| Forwarder | `internal/service/forward` | none of its own | dispatch over endpoints, pump the body | |
| Token manager | `internal/service/upstreamauth` | a lock per account; tokens in the database | ensure fresh, force, sweep | no refresh token used twice or lost |
| Auth guard | `internal/service/authguard` | failure streaks, parked accounts | record, park, restore | a dead key is parked, a parked account comes back |
| Billing | `internal/service/billing`, `handler/gateway/billing.go`, `limits/balance.go` | plan grants and wallet in the database, cached balances | charge, credit, refresh | grants add up, each key pays by its mode, the cache follows |
| Write buffer | `internal/repository/write_buffer.go` | queue, timer, three locks | enqueue, flush, stop | no row lost but by overflow; memory bounded |

### Beside it

| Part | Code | State | Operations | Correct when |
|---|---|---|---|---|
| Health prober | `health/prober.go` | debounce counters | probe pass | outages open, recoveries close, single reds do nothing |
| Hot pools | `account`, `apikey`, `blockedip`, `alertchannel`, `proxypool`, `pricesync` | a view of a table | refresh by ticker and by NOTIFY | the view comes to be the table |
| Web session | `web/src/lib`, `App.tsx`, `pages/UnifiedLogin.tsx` | two tokens in `localStorage`; per tab a provider and its probe | probe, log in, sign out, route | a page shows who is logged in, and ends up somewhere |
| Health log, alerter | `healthlog`, `alert` | bounded channel, throttle map | handle, deliver, drain | |
| Admin, portal | `internal/handler/admin`, `portal` | the database | edits, resets, redemption, OAuth login | |
| Protocol and pricing | `internal/ir`, `internal/protocol`, `pricing`, `usage` | none | conversion, extraction, cost | |

They meet in a few places. Requests, the prober and the operator all call the
tracker, whose handler feeds the health log and the alerter on the caller's
goroutine. Pools swap whole views under readers, so every account a request
holds, and every token in it, is a copy that may be old. Requests hand rows to
the write buffer, whose flushes run on goroutines of several origins, and what a
wallet has left depends on the rows that have been flushed. Shutdown runs
against all of them.

The hard behaviour, therefore: verdicts that arrive after the state they speak
of has changed; callbacks outside the lock that ordered them; checks (a free
slot, a cached balance, an empty queue) that are stale when acted on; retries of
three kinds within one loop; database calls that fail, or succeed unnoticed;
memory and database that must agree on what is parked; answers to a page that is
gone; a shutdown that stops halfway. The hazards of `PROJECT.json` list them by
line.

## Modules

| Module | Models | State | Actions |
|---|---|---|---|
| `Tracker` | the decisions of `health.Tracker` as operators on one account's record | none | `AfterIsAvailable`, `AfterSuccess`, `AfterFailure` are the methods under the mutex |
| `CircuitBreaker` | the tracker in use | `states`, `cooldowns`, `config` as in the code; `request`: what each caller is doing; `outbox`: a transition between the unlock and the handler's return | `Route`/`Overlook` (`IsAvailable`, account picked or not), `Succeed`, `Fail`, `SetCooldown`, `Abstain`, `HandOver`, `Reset`, `Reconfigure`, `Tick` |
| `Gateway` | the failover loop with resolver, sessions, slots and breaker | the handlers' locals (`try`, `account`; in `try` also the endpoint `Dispatch` is at), their program counter, `held` (deferred releases), `inflight`, `bound`, `states`, `done` (answer and audit row) | one per branch of the loop, named after it |
| `LossyQueue` | what the write buffer promises | a queue, a table | `Add`, `Store`, `StoreUnnoticed`, `End` |
| `Charging` | what a charge promises a portal user | price, `credit` of each grant, and of each request its `stage` and what it took | `Serve`, `Waive`, `DrawPrice`, `DrawRest`, `DrawInVain`, `Pay`, `GiveUp` |
| `Semaphore` | what the concurrency guard promises the gateway | who holds a slot of each account | `Take`, `GiveBack` |
| `WriteBuffer` | the write buffer and the end of `runGateway` | `pending`, `timer`, `flusher` and `batch` (the goroutine that holds `flushMu`), `waiting`, `callbacks`, `phase` of the shutdown | one per critical section of `mu` or `timerMu` |
| `Prober` | the health prober; extends `CircuitBreaker`, as one more caller of the tracker | `probeState`, the pass under way, `upstream` | `StartPass`, `Answer`, `ApplyGreen`, `ApplyRed`, `EndPass` |
| `Billing` | admission on the cached balance, the charge, the ledgers and the audit row underneath | `cache` (`BalanceGuard.entries`), `credits`, `grants`, `remaining`, `usage`, `rows` on their way, `table`: what `message_requests` holds; `reading`: a balance query between its parts; `bill` | one per query and per critical section of the guard: `Admit`, `Seed`, `Refresh`, `ReadGrant`, `Consume`, `ConsumeUnseen`, `ChargeWallet`, `FoldPlan`, `FoldWallet`, `Enqueue`, `Flush`, `FlushUnnoticed`, `AddEntry`, `Credit`, `GrantPlan`, and each that may fail, failing |
| `TokenManager` | the OAuth token of one account and all who refresh it | `row` in the database, `pool`'s copy, `token` in a worker's hands, `honoured` by the provider | `Resolve`, `Unauthorized`, `sweep`, `Reload`, `Refresh`, `Refuse`, `Unreachable`, `AnswerLost`, `Save`, `persistFailure`, `Import`, `Restart` |
| `AuthGuard` | one API-key account and the guard that parks it | `fails`, `tripped` in memory, `row` in the database, `pool`'s copy | `RecordRefusal`, `RecordSuccess`, `Park`, `Sweep`, `TestGreen`, `Restore`, `Restored`, `Forget`, `Restart` |
| `HotPool` | a pool, its ticker and its listener | `db`, `view`; `query`: the result a refresh has still to swap in; `listener`, `inbox`, `broken`, `backoff` | `Tick`, `Read`, `Swap`, `Listen`, `Notified`, `Break`, `Disconnected`, `TimesOut`, `Edit`, `Sync` |
| `WebSession` | the tabs of one browser | `storage`, `valid`, per tab `page`, `me`, `loading`, and its form's `sending`, `stray` once the form's provider is gone; `probes` under way | `Open`, `Visit` (a link or Back), `Submit`, `Rejected`, `LoggedIn`, `SignedUp`, `Profiled`, `Probed`, `Refused`, `ProbeFails`, `Protect`, `Forward`, `logout`, `Expire` |

`Gateway` and `CircuitBreaker` share the operators of `Tracker`; `Prober`
extends `CircuitBreaker`; `WriteBuffer` instantiates `LossyQueue`, `Gateway`
instantiates `Semaphore` and `Billing` instantiates `Charging`. A module whose
name ends in `Proofs` holds theorems of the module it is named after;
`CircuitBreakerProofs` those of `Prober` too, whose steps are the breaker's and
a few more. Modules named `MC...` give constants their values for TLC.

Choices worth knowing:

* **Time.** Deadlines of the breaker are kept as the number of ticks left
  (`openFor`, `-1` when past), so the clock is unbounded and needs no bound.
  Other deadlines (a TTL, a refresh window, a backoff) are past whenever the
  model likes.
* **Saturation.** `failureCount` is compared with thresholds only and saturates
  at `FailureCap`, which no threshold exceeds; observed counts and the guard's
  streak saturate alike.
* **Observers.** `failRun`, `winRun`, `logged`, `wasReset`, `calls`, `unsure`,
  `failures`, `redsSeen`, `streak`, `forgotten`, `missed`, `asked` and `burst`
  record what happened so that a property can speak of it. No action reads them,
  but for bounds: a row's INSERT is hidden from the caller at most once
  (`unsure`), and a token still in `asked` is not issued again.
* **The resolver is one step.** The sticky check, the scan and the binding take
  several locks in the code. In `Gateway` they are one action; what the split
  would add, a slot or a breaker that changes between the check and its use, is
  there already, because the slot is taken in a later step.
* **A 429** parks the account and counts as a failure: two calls to the tracker,
  separate in `CircuitBreaker` (`SetCooldown`, then `Fail`), one step in
  `Gateway`.
* **Upstreams, token refreshes and clients** are environment. `Gateway` lets an
  upstream answer anything at any time. A client that hangs up cancels the call,
  which then ends in an error. Spend caps, active windows and auth status are
  one flag per account that changes at will (`barred`); `AuthGuard` and
  `TokenManager` say where the auth status comes from.
* **The three handlers.** The OpenAI ones have the loop without the rectifier:
  `Rectifies = FALSE`.
* **Flush goroutines** that wait for `flushMu` differ in nothing and are
  counted. A timer callback resets `timer` whatever it points to by then; a
  timer no longer pointed to is a stray.
* **Endpoints.** A call to an account goes through its base URLs in order: the
  first is called with `Call`, the others by `NextEndpoint`, and only the last
  one's failure is a verdict on the account.
* **Money** is counted in a unit finer than the columns of the database: `Grain`
  units are one step of `NUMERIC(14,6)`. Costs are constants, and the two ratios
  scale them. A charge is computed exactly; what it leaves of a grant and what
  its row says of the wallet are rounded (`Nearest`), and `Tolerance` stands for
  the 1e-9 within which `Charge` calls two sums equal. An INSERT or a Commit may
  be carried out and reported as failed: the row is then stored again
  (`FlushUnnoticed`), the draw on the grant is lost (`ConsumeUnseen`).
  A balance is read in up to three queries; the ones nothing moves between
  are one step, the sum over stored rows another. An audit row is queued, stored
  later, or dropped: `WriteBuffer` says when. A sum over rows (`Sum`) counts
  units as elements of a set, which needs no recursion: the provers have no rule
  for one, and so the sums can be reasoned about.
* **A refresh token** stands for the credential it comes with. The provider
  honours one per login and retires it when it issues the next; an answer that
  is lost retires it all the same. `faults` counts the kinds of trouble met, so
  that a property can ask for none, or for one in particular.
* **A table** is the number of edits it has seen. A copy is the number it had
  seen when the query ran.
* **React keeps a provider** that two routes render at the same place: that is
  how `Navigate` decides whether a provider is mounted anew. It is React's
  documented rule for elements of one type at one position, applied to the
  route tree of `App.tsx`. A provider that is gone has no state: its probe may
  still remove a stored token, and its form still sets one and navigates.
* **Left out of these modules.** An account whose driver is not registered;
  `Enqueue` after `Stop` (a no-op the process never reaches, as `Shutdown` has
  waited for the handlers); edits of `max_concurrency` while slots are held;
  changes of the probe thresholds between passes; the expiry of plan grants;
  React's StrictMode, which mounts twice in development.

## Runs

Every passing run finishes its state space. Deadlock is checked except in
`buffer` and `billing`, where the process ends or all requests are served and
no top-up is left, and in `price_pool`, where the listener may be gone.

| Run | Instance | Shows |
|---|---|---|
| `breaker` | 1 account, 2 requests; thresholds 2, 1 and off, quotas 2 and 1; cooldowns, reset | `CountersMatchHistory`, `TripNeedsRun`, `CloseNeedsQuota`, `TransitionsAddUp`, `OpenIsTriedAgain` |
| `gateway` | 2 requests in one session; 2 OAuth accounts, the first with one slot and two endpoints, the second one that may be barred; 2 attempts; clients that hang up | `SlotsMatchHolders`, `UpstreamWithinCap`, `CallBudget`, `UpstreamCallsAreRecorded`, `OnlyFinalAnswers`, `EveryRequestCanEnd`, `EveryStepAdvances`, `ImplementsSemaphore` |
| `buffer` | 5 rows, `MaxPending` 2, `BatchSize` 2, 2 flushes outstanding, failing database | `ImplementsLossyQueue`, `BacklogBounded`, `OnlyUnsureRowsRepeat`, `NoRowForgotten`, `StopDrains`, `EveryRowSettles` |
| `prober` | 1 account, 1 request and the prober; two reds in a run feed a breaker of threshold 2 and quota 2, which is switched off and on | `EjectNeedsReds`, `OutageOpens`, `RecoveryCloses` |
| `billing` | 2 requests of cost 4 and 5 and columns in steps of 3; both of wallet keys, both of plan keys, or one of each; a wallet of 3, a grant of 6 with or without overage, 1 top-up, a row inserted unnoticed | `GrantAddsUp`, `PlanFirst`, `PaygIsBilled`, `WalletNotUnderstated`, `ImplementsCharging`, `CacheSettles` |
| `tokens` | 1 request at a time and the sweep, 4 credentials, one kind of fault | `GrantSurvives`, `OneRotationPerBurst`, `RefreshIsRetried` |
| `guard` | 2 requests, threshold 2, 1 restart | `ParkedIsRemembered`, `TripsAfterStreak`, `DeadIsParked`, `GoodIsRestored` |
| `web_session` | 2 tabs, one of which signs in and follows links; 2 portal tokens and an admin's, 2 probes under way | `SeparateSessions`, `LoadingEnds`, `RedirectsEnd` |
| `pool` | ticker, listener and a caller, 4 edits, backoff of 2 steps | `NoEditForgotten`, `CatchesUp` |

The bounds, and why they are enough:

* Accounts do not interact inside the tracker, the prober, the token manager or
  the guard, so one is enough there; two requests are the fewest for a late
  success while a transition is still on its way.
* In the gateway two requests compete for one slot, and two attempts are what a
  failover needs; the sticky session and the tiers of priority make both
  resolver branches happen. Both accounts have tokens to refresh, so the one
  forced refresh of a request may have gone to the account it gave up; one has
  two endpoints, so a call to it may be two.
* In the buffer five rows fill a queue of two while a batch of two is out and
  overflow it. `MaxRecords` and `MaxFlushes` bound the rows of a behaviour and
  the flush goroutines outstanding.
* In billing no cost is a multiple of the columns' step: one is rounded down and
  one up. Either fits the grant, both together exceed it, and each exceeds the
  wallet until it is topped up, so a charge is covered, split, refused and raced
  for, and one falls short of a grant that has credit by what rounding leaves.
  `Mixes` bounds which keys meet, `MaxTopUps` and `MaxGrants` what comes in,
  `MaxStored` how often a row is stored.
* Two workers race for a token, whatever their kind; the request comes again and
  again. Four credentials are enough that one issued is none in use.
  `MaxFaults = 1` allows each kind of fault by itself.
* Two refusals in a row need two requests or one twice; `MaxRestarts` bounds the
  restarts.
* Two portal tokens are an old and a new one. `Signer` and `Wanderer` bound the
  tabs that sign in and that follow links; one of them meets what the other tab
  does to the tokens they share. `Slot` bounds the probes under way: a tab
  whose page is left can have one that is late and one that is awaited.
* A refresh that is overtaken needs two edits, and four leave room for one lost
  meanwhile. No pool has all three refreshers; the account pool and its like
  have no caller, the price pool no ticker.

**Fairness.** Weak fairness on a goroutine's own steps: upstream calls, token
refreshes, tests, queries and INSERTs have timeouts, handlers of transitions do
not block, timers fire, probes of a page are answered or fail. Strong fairness
where a goroutine competes, for `flushMu` or for a token's lock (a Go mutex
starves nobody), and for an account's turn to be asked about, which assumes that
clients keep calling. What may fail is assumed to succeed sometime when tried
again and again: an INSERT in `EveryRowSettles`, a query in `CatchesUp` and, by
strong fairness of `Refresh`, in `CacheSettles`, a call to the provider in
`RefreshIsRetried`, a green test in `GoodIsRestored`. For `RefreshIsRetried`,
`DeadIsParked` and `GoodIsRestored` the writes also stop failing some day: a
write that fails each time just then would undo each attempt. `LoadingEnds`
holds of users who some day stop changing pages, `RedirectsEnd` of users who
stop submitting forms as well. `OutageOpens` and `RecoveryCloses` assume nothing
of requests. `gateway` needs no fairness: that each request can always step
(`EveryRequestCanEnd`) and that each step brings it nearer to its end or to the
next endpoint (`EveryStepAdvances`) say that a handler whose goroutine goes on
returns, and the second of them is proved.

`CatchesUp` is checked twice. With a ticker nothing is assumed of the listener.
Without one, `ListenerSpec` assumes all that can be: the listener is scheduled
and finds the database again and again. The price pool fails even so.

## Proofs

TLAPS checks these for every value of the constants that satisfies the named
assumptions. `TrackerAssumption`, `ProberAssumption`, `BufferAssumption`,
`TokenAssumption`, `GuardAssumption`, `SessionAssumption` and `PoolAssumption`
say that numbers are numbers, positive where the code's defaults make them so,
and that markers such as `None` are not values. `GatewayAssumption`,
`BreakerAssumption` and `BillingAssumption` add that there are finitely many
requests, because theirs are counted: slots, transitions under way, sums over
rows. `ColumnAssumption`, that what is granted or paid in is a multiple of the
columns' step, keeps instances to amounts the database can hold; no proof needs
it. Any number of accounts, endpoints, requests, tabs, rows, thresholds and
attempts is covered.

* `CircuitBreakerProofs`
  * `TypeCorrect`. Inductive as it stands; lemmas say what each tracker method
    returns.
  * `CountersCorrect`: `CountersMatchHistory` is inductive given types. One
    lemma per method relates the counts before and after (`AvailableCounts`,
    `SuccessCounts`, `FailureCounts`).
  * `TripCorrect`, `CloseCorrect`: action properties. `BreakerMoves` lists the
    transitions a step can make; with the counts they give the thresholds.
  * `AddUpCorrect`: `TransitionsAddUp` is inductive given types. A transition on
    its way is committed with the state it leads to (`CommitPends`) and handed
    over once (`HandOverPends`), in whatever order the callers come.
  * The prober is one more caller: each of its steps is a step of the breaker or
    leaves it alone (`ProberStepsBreaker`), so `BreakerUnharmed` and
    `ThresholdsRespected` carry the five results above over to `ProberSpec`.
  * `ProberTypeCorrect`, and `EjectCorrect`, an action property. Its invariant
    `RedsInv` relates the prober's run of reds to the tests that failed, which
    takes the verdict still to be applied into account: a pass waits for all its
    tests before it applies any, so no account is tested while it has one.
* `WriteBufferProofs`
  * `TypeCorrect`.
  * `BacklogCorrect`. `BacklogBounded` alone is not inductive: `BacklogInv` adds
    that a batch is out only during an INSERT, that it has at most `BatchSize`
    rows, and that the queue alone exceeds `MaxPending` only by a batch that was
    put back.
  * `WakeCorrect`: `WakeInv` adds where the flusher may stand.
  * `StopCorrect`: `StopInv` says what the queue must look like in each phase
    of the shutdown as long as no INSERT has failed.
  * `RefinementCorrect`: every step is a step of `LossyQueue` or a stutter, with
    the batch in front of the pending rows as the abstract queue.
  * `OrderCorrect`: `OrderInv` says that batch and queue ascend, and that they
    follow the table except for rows whose INSERT may have committed unseen.
    What comes back after a failed INSERT goes in front, where it was.
* `GatewayProofs`
  * `LocalInv` is what a request knows of itself, by where it is: the account it
    works with is not an excluded one and its slot is held (`SlotInv`), an
    answer it settles on is final (`AnswerInv`), its calls are bounded by its
    attempts, its once-only flags and the endpoint it is at (`CallInv`), and
    once it has called there is a failure to report (`RowInv`). A step is of one
    request and touches no other's locals (`StepTouchesOne`), so each action is
    proved for its own request only. From it: `GatewayTypeCorrect`,
    `CallsAreBounded`, `CallsAreRecorded`, `AnswersAreFinal`.
  * `SlotsAreCounted` adds `SlotsInv`: counts against cardinalities of sets of
    holders. That a slot is taken only for an account not held yet, so that no
    release is lost in the set, is `SlotInv`. `CapIsKept` follows, as who uses
    an account holds it.
  * `SemaphoreCorrect`: the refinement. With the holders of each account as the
    abstract state, `Acquire` is a `Take`, each way out of the loop a
    `GiveBack`, and every other step a stutter, by `SlotsInv`.
  * `RequestsEndClean`: what of `EveryRequestCanEnd` is said without `ENABLED`.
  * `RequestsAdvance`: a step leads on in the loop, to the next endpoint, or to
    the next attempt, which weighs more than all places of an attempt together
    (`LeadsOn`).
  * `FleetIsTheLimit`: calls are bounded by the number of accounts and of their
    endpoints, however high `MAX_ATTEMPTS` is set. `FleetInv` counts: the
    accounts attempted are as many as the attempts, and the one at work is not
    among them.
  * `BlameFallsOnCallers`: a breaker opens or closes only by the verdict of a
    request that called this account in a slot it holds there. `CalledInv` adds
    that whoever reads or writes a response has called.
* `TokenManagerProofs`
  * `GrantIsSafe`: `GrantInv` adds that one worker at most is behind the lock
    (`Exclusive`), that what it is about to present is what the row holds and
    what it is about to store is honoured. A copy read before the lock was taken
    is harmless because it is never presented: only `ReloadFails`, a fault,
    presents one.
  * `BurstIsOneRotation`: a credential issued within the debounce is not due and
    marks the row as recent, so no waiter finds a reason to refresh again.
  * `LockExcludes`, and `StoredIsLive`, an action property: whatever faults
    occur, a refresh stores no credential the provider has retired. An import,
    which writes the row without the lock, and a revocation are the exceptions.
* `AuthGuardProofs`
  * `GuardRemembers`, by `Remembers`: the guard's count is the streak, and an
    account found parked after the sweep has restored it was parked anew.
  * `TripsAreEarned`, from the same invariant.
  * `TripsAreNotStuck`: the trip flag, under which further refusals are ignored,
    is up only over a parked account, or while somebody is about to park it or
    to take the flag down.
* `BillingProofs`
  * The lemmas about sums come first: what a row adds to one, and that one does
    not shrink when its rows or their amounts grow (`SumAdd`, `SumSame`,
    `SumGrows`); then those about rounding: it keeps a draw within the credit,
    and off the price by half a step at most unless all credit is drawn
    (`NearestType`, `ConsumedType`, `DrawTakes`).
  * `BillingInv` is about one request at a time: what may have been billed to it
    where it is (`Placed`), and the promises (`RightlyBilled`). `PlanFirst`
    needs that a request that asks the wallet has found its grant empty or owes
    what rounding left over, and that an empty grant is never filled again
    (`NoRefill`), so that what other requests do between its queries cannot make
    it wrong. From it: `TypeCorrect`, `PaygBilledCorrect`, `PlanFirstCorrect`,
    `NeverOvercharged`, and `BillsAreFinal`, an action property.
  * `GrantCorrect`: grant and ledger add up, and a step that draws on a grant
    books as much in the one bill as in the ledger (`BooksWhatItDraws`).
  * `WalletCorrect`: the balance is compared with what the charges leave of it
    (`Charges`), each at its price or, should rounding or a repeated INSERT have
    made it more, at what the table holds. `WalletInv` covers, besides the
    cached entry, every query whose result may still be put there: a query that
    has read the credits but not yet the rows, and one that has read both. Rows
    stored meanwhile belong to requests whose charge the cache has been told of
    (`StoredIsCharged`).
  * `ChargingCorrect`: the refinement. The charge's queries are steps of
    `Charging` or stutters; an unreported commit, or a draw that rounding keeps
    short of the price, is a `DrawInVain` where the charge then fails. A grant
    that has been read but not yet drawn on is no part of the abstract charge
    (`Taken`); beside what grant the wallet pays for a plan key is `PlanFirst`.
  * `AllOrNothing`: a request is billed its whole price, short of the tolerance
    and to half a step above it (`WholePrice`), or nothing. It is proved of
    `Charging` alone (`ChargingIsWhole`) and carried over by the refinement.
  * `RefreshesAreNotStuck`: a cache entry is marked as refreshing exactly while
    a query for it is under way. A flag left behind would freeze the balance.
* `WebSessionProofs`
  * `SessionTypeCorrect` and `RealmsStayApart`: what is stored for a console,
    probed with or shown in it is a token of that console. The invariant
    `SessionInv` adds that a live probe is of the console of its tab's provider
    (`LiveAtHome`), and that a form waits under the portal's provider unless
    that is gone, with a token in hand only if it is the portal's
    (`FormsAtHome`, `FormsApart`).
  * `SessionsAreSeparate`: an action property, by the actions that clear a
    token.
  * `LoadingIsNeverAbandoned`: a tab is at Loading exactly while one probe is
    under way that will end it. `AwaitInv` says it as one operator of the set of
    probes, so that a lemma each covers what cancels, ends and starts probes.
* `HotPoolProofs`
  * `NoEditIsForgotten`: `PoolInv` adds that nothing is newer than the table and
    that a notification waits only on a connection that lives.

Checked by TLC only: the liveness properties (`OpenIsTriedAgain`,
`EveryRowSettles`, `OutageOpens`, `RecoveryCloses`, `CacheSettles`,
`RefreshIsRetried`, `DeadIsParked`, `GoodIsRestored`, `LoadingEnds`,
`RedirectsEnd`, `CatchesUp`) and `EveryRequestCanEnd`, since fairness and
`ENABLED` are beyond the prover. Four of them rest on a safety fact that is
proved: `LoadingEnds` on `LoadingIsNeverAbandoned`, `DeadIsParked` on
`TripsAreNotStuck`, `CacheSettles` on `RefreshesAreNotStuck` and
`EveryRequestCanEnd` on `RequestsEndClean` and `RequestsAdvance`; what is left
to TLC there is that steps which are enabled are taken. Every other property of
the runs that pass, the three refinements included, is the statement of a
theorem. In the runs `billing` and `prober` the types are left to `TypeCorrect`
and `ProberTypeCorrect`.

## Disagreements

Three runs expect a violation: each states what the source says of itself and
shows a behaviour of the code against it.

| Run | Said | Done |
|---|---|---|
| `tokens_lost_write` | "the next request will retry the write path" (`tokenmanager.go:241`) | nobody retries it; the next refresh presents the retired token and the account waits for a login |
| `session_landing` | a user's login leads to `/portal` (`handler/auth/login.go:87`) | the login page and the portal share one provider, which has no reason to ask who is logged in; the portal sends the user back until the page is reloaded |
| `price_pool` | prices follow "the moment a row changes" (`pricesync/notify.go:20`) | a notification lost while the listener is away is made up for by nothing, as this pool has no ticker |

Others can be read off the actions and have no run.

* *Breaker.* Two callers may hand their transitions of one account to the
  handler in either order (`tracker.go:390`, against 187-189). The branch of
  `RecordSuccess` that "should not happen" (`tracker.go:309`) does, when another
  request trips the breaker meanwhile. `Reset` announces nothing to the handler.
* *Gateway.* The answer to a rectified request is committed whatever its status,
  a 5xx included (`anthropic.go:512`, against 277-279): `OnlyFinalAnswers` makes
  the exception. A request that lost every race for a slot ends in a 502 without
  a row (`anthropic.go:735`, against `CHANGELOG.md:498`). The row of a failed
  401 recovery quotes the body another account sent earlier
  (`anthropic.go:459`). The slot of an account that failed is held until the
  response of the next one has been streamed, which is more than marginal
  (`anthropic.go:398`). A client that hangs up counts as a failure of the
  account. "Force one refresh and retry the SAME account before failing over"
  (`anthropic.go:447`) is done once for a request (lines 357 and 450), not once
  for an account: when another account has had the refresh, an OAuth account's
  first 401 goes to the client, which `OnlyFinalAnswers` allows.
* *Write buffer.* A shutdown that times out exits past the deferred `Stop`
  (`main.go:245`, against `CHANGELOG.md:408`). Stop's second flush does not
  catch a batch another flush holds while Stop looks (`write_buffer.go:201`,
  against 189-190). `MaxPending` is exceeded by a batch that is put back:
  `BacklogBounded` is the true bound.
* *Prober.* A yellow test, or a pass in which the account was opted out, does
  not end a run of reds, which are therefore not "consecutive" (`prober.go:17`):
  `EjectNeedsReds` is what holds.
* *Billing.* "It always equals PlanUSD + WalletUSD" (`billing.go:29`) is off by
  what rounding drew, up to half a step (`AllOrNothing`). The residue of a price
  that is rounded down comes to more than the 1e-9 that `chargePlan` forgives
  (`billing.go:138`): with overage the wallet pays it beside a grant that has
  credit, without overage the charge fails and the user keeps neither the credit
  nor the bill. The same loss follows a Commit that is reported as failed and
  was not (`plan.go:303`). A row whose INSERT was such a one is inserted again
  and counts twice against the wallet (`write_buffer.go:177`,
  `message_request.go:205`). A top-up that lands while a refresh is reading is
  overwritten by it, so the user is not "unblocked immediately"
  (`handler/admin/wallet.go:104`) but after the next refresh: `CacheSettles` is
  what holds, and `WalletNotUnderstated` holds short of top-ups.
* *Auth guard.* What it has parked it forgets on a restart, and also when the
  sweep clears an account between the trip and the park: such an account stays
  parked with a working key. `GoodIsRestored` makes the exceptions.
* *Hot pools.* The listeners' backoff is never reset, against "Reset on success"
  (`account/notify.go:78`), and a listener ends for good on an error that wraps
  `context.DeadlineExceeded` (line 65).
* *Web session.* `portalApi.ts:2-3` has both consoles signed in side by side;
  the unified login removes the other one's token (`UnifiedLogin.tsx:41`, 44).
  The late 401 to a probe with an old token removes the token stored since.

## Not modelled

* The health log and the alerter: a bounded channel each, dropping when full,
  with one reader. The missing `Stop` of the recorder (`recorder.go:80`) is
  listed as a hazard. An alert that is dropped has already started its throttle
  window (`alert.go:206`).
* `SpendCache`, which repeats `BalanceGuard`'s refresh over another sum; RPM
  windows and token buckets, a counter under a mutex each.
* Proxy chains and the quota store: one map under one lock, walked or
  overwritten in one step.
* Round robin and the weighted pick (a nondeterministic choice in `Gateway`),
  active windows, cooldown parsing, price tiers, usage extraction and the
  conversion between formats: functions without state, whose difficulty is in
  the data this model leaves out.
* Request builders of the drivers, SQL itself, validation in the admin and
  portal handlers, encryption, metrics, the forms and tables of the web UI and
  the command-line client. They have no protocol of their own; where they touch
  modelled state they appear as an action there.
* `.agents/skills/impeccable`, a third-party design tool for coding agents that
  is vendored with the repository. OmniHub neither calls it nor ships it. It is
  most of the JavaScript here, which is why the share of JavaScript and
  TypeScript that the model maps is small: what is mapped is the web session,
  and the Go program.
