------------------------------- MODULE Gateway -------------------------------
(***************************************************************************)
(* One gateway request from the resolver to the audit row, many at once:   *)
(* the failover loop of AnthropicMessagesHandler, OpenAIChatHandler and    *)
(* ResponsesHandler (internal/handler/gateway), the WeightedResolver it    *)
(* asks for an account (internal/service/resolver), the sticky session     *)
(* store, the ConcurrencyGuard and the circuit breaker of Tracker.         *)
(*                                                                         *)
(* Requests interleave at every call that waits or takes a lock: resolve,  *)
(* token refresh, slot, upstream call, response body.  What an upstream,   *)
(* a token refresh or a client does is chosen nondeterministically.        *)
(***************************************************************************)
EXTENDS Tracker, FiniteSets

CONSTANTS
    Account,
    Request,
    Session,         \* sticky-session keys
    NoSession,       \* the empty key: no stickiness
    None,
    SessionKey,      \* the key of each request
    Priority,        \* Account.Priority, lower preferred
    MaxConcurrency,  \* Account.MaxConcurrency, 0 for no cap
    OAuth,           \* accounts whose token the TokenManager refreshes
    Endpoints,       \* how many base URLs each account has
    MaxEndpoints,    \* bound: the most base URLs of an account
    AccountConfig,   \* each account's breaker configuration
    MaxAttempts,     \* FailoverMaxAttempts
    Cooldown,        \* ticks a 429 parks an account
    Rectifies,       \* the Anthropic handler retries rejected signatures
    Fickle,          \* accounts that spend caps, windows or auth may bar
    Impatient        \* requests whose client may hang up

ASSUME GatewayAssumption ==
    /\ None \notin Account /\ IsFiniteSet(Request)
    /\ SessionKey \in [Request -> Session \cup {NoSession}]
    /\ Priority \in [Account -> Nat]
    /\ MaxConcurrency \in [Account -> Nat]
    /\ OAuth \subseteq Account /\ Fickle \subseteq Account
    /\ MaxEndpoints \in Nat \ {0} /\ Endpoints \in [Account -> 1..MaxEndpoints]
    /\ Impatient \subseteq Request
    /\ AccountConfig \in [Account -> Configs]
    /\ MaxAttempts \in Nat \ {0}
    /\ Cooldown \in Nat
    /\ Rectifies \in BOOLEAN

VARIABLES
    states,     \* health.Tracker.states
    cooldowns,  \* health.Tracker.cooldowns, ticks left
    barred,     \* accounts a resolver filter other than the breaker drops
    bound,      \* session.Store
    inflight,   \* ConcurrencyGuard.inflight
    pc,         \* where each request is
    account,    \* the account it works with
    held,       \* accounts with a deferred Release pending
    try,        \* its locals: attempt, attempted, last*, the once-only flags
    done,       \* whether it is over, and with a row for the audit log
    gone,       \* requests whose client has hung up
    calls       \* observed: upstream calls each request has made

tracker == <<states, cooldowns>>
world == <<barred, bound>>
slots == <<inflight, held>>
vars == <<tracker, world, slots, pc, account, try, done, gone, calls>>

Answer == {"2xx", "4xx", "401", "signature", "429", "5xx"}
Retriable == {"429", "5xx"}

Place == {"resolve", "fresh", "slot", "dispatch", "refresh", "redispatch",
          "settle", "rectify", "write", "done"}
Calling == {"dispatch", "redispatch", "rectify"}

Ending == {"open", "recorded", "unrecorded"}

\* noted: a failed attempt has left its account for the row of exhaustion;
\* authRefreshed: the account whose 401 spent the request's one forced refresh
\* (the code keeps only that it is spent); endpoint: the one Dispatch is at.
Try == [attempt : 0..MaxAttempts, attempted : SUBSET Account,
        noted : BOOLEAN, authRefreshed : Account \cup {None},
        signatureRectified : BOOLEAN, endpoint : 1..MaxEndpoints,
        status : Answer \cup {None}]

FreshTry == [attempt |-> 0, attempted |-> {}, noted |-> FALSE,
             authRefreshed |-> None, signatureRectified |-> FALSE,
             endpoint |-> 1, status |-> None]

TypeOK ==
    /\ states \in [Account -> AccountState]
    /\ cooldowns \in [Account -> 0..Cooldown]
    /\ barred \subseteq Account
    /\ bound \in [Session -> Account \cup {None}]
    /\ inflight \in [Account -> Nat]
    /\ pc \in [Request -> Place]
    /\ account \in [Request -> Account \cup {None}]
    /\ held \in [Request -> SUBSET Account]
    /\ try \in [Request -> Try]
    /\ done \in [Request -> Ending]
    /\ gone \subseteq Request
    /\ calls \in [Request -> Nat]

Init ==
    /\ states = [a \in Account |-> Fresh]
    /\ cooldowns = [a \in Account |-> 0]
    /\ barred = {}
    /\ bound = [s \in Session |-> None]
    /\ inflight = [a \in Account |-> 0]
    /\ pc = [r \in Request |-> "resolve"]
    /\ account = [r \in Request |-> None]
    /\ held = [r \in Request |-> {}]
    /\ try = [r \in Request |-> FreshTry]
    /\ done = [r \in Request |-> "open"]
    /\ gone = {}
    /\ calls = [r \in Request |-> 0]

At(r, p) == pc[r] = p
Go(r, p) == pc' = [pc EXCEPT ![r] = p]

-----------------------------------------------------------------------------
(* The resolver.                                                            *)

Available(a) == IsAvailable(states[a], cooldowns[a], AccountConfig[a])

(* Mutant: one request too many.                                            *)
AtCapOneLate(a) == MaxConcurrency[a] > 0 /\ inflight[a] > MaxConcurrency[a]

AtCap(a) == MaxConcurrency[a] > 0 /\ inflight[a] >= MaxConcurrency[a]
Routable(a) == Available(a) /\ a \notin barred /\ ~AtCap(a)

\* IsAvailable is asked of each of these, whatever the later filters say.
Consulted(as) ==
    states' = [a \in Account |->
                  IF a \in as
                  THEN AfterIsAvailable(states[a], cooldowns[a], AccountConfig[a])
                  ELSE states[a]]

Sticky(r) ==
    LET k == SessionKey[r]
    IN  IF k = NoSession \/ bound[k] \in try[r].attempted THEN None ELSE bound[k]

Gathered(r) == {a \in Account \ try[r].attempted : Routable(a)}
TopBucket(as) == {a \in as : \A b \in as : Priority[a] <= Priority[b]}

\* The loop body runs while attempts are left.
Trying(r) == At(r, "resolve") /\ try[r].attempt < MaxAttempts

Chosen(r, a) ==
    /\ account' = [account EXCEPT ![r] = a]
    /\ Go(r, IF a \in OAuth THEN "fresh" ELSE "slot")
    /\ UNCHANGED <<cooldowns, barred, slots, try, done, gone, calls>>

ResolveSticky(r) ==
    /\ Trying(r)
    /\ LET a == Sticky(r)
       IN  /\ a # None /\ Routable(a)
           /\ Consulted({a})
           /\ Chosen(r, a)
    /\ UNCHANGED bound

ResolveFresh(r) ==
    /\ Trying(r)
    /\ ~(Sticky(r) # None /\ Routable(Sticky(r)))
    /\ \E a \in TopBucket(Gathered(r)) :
        /\ Chosen(r, a)
        /\ bound' = IF SessionKey[r] # NoSession /\ try[r].attempted = {}
                    THEN [bound EXCEPT ![SessionKey[r]] = a] ELSE bound
    /\ Consulted(Account \ try[r].attempted)

NoCandidate(r) ==
    /\ ~(Sticky(r) # None /\ Routable(Sticky(r)))
    /\ Gathered(r) = {}
    /\ Consulted(Account \ try[r].attempted)

-----------------------------------------------------------------------------
(* The ways a request ends.  The deferred releases run as the handler       *)
(* returns, after the row has been enqueued.                                *)

\* The handler's locals are gone, and so is its interest in the client.
Over(r) ==
    /\ Go(r, "done")
    /\ gone' = gone \ {r}
    /\ account' = [account EXCEPT ![r] = None]
    /\ try' = [try EXCEPT ![r] = FreshTry]

(* Mutant: one release, for the account that answered.                      *)
ReturnReleasesLast(r, recorded) ==
    /\ done' = [done EXCEPT ![r] = IF recorded THEN "recorded" ELSE "unrecorded"]
    /\ inflight' = [a \in Account |->
                       IF a \in held[r] /\ a = account[r] THEN inflight[a] - 1
                       ELSE inflight[a]]
    /\ held' = [held EXCEPT ![r] = {}]
    /\ Over(r)
    /\ UNCHANGED <<cooldowns, barred, bound, calls>>

Return(r, recorded) ==
    /\ done' = [done EXCEPT ![r] = IF recorded THEN "recorded" ELSE "unrecorded"]
    /\ inflight' = [a \in Account |->
                       IF a \in held[r] /\ inflight[a] > 0 THEN inflight[a] - 1
                       ELSE inflight[a]]
    /\ held' = [held EXCEPT ![r] = {}]
    /\ Over(r)
    /\ UNCHANGED <<cooldowns, barred, bound, calls>>

(* No account at all: 503 and a row without an account. *)
Reject(r) ==
    /\ Trying(r) /\ try[r].attempt = 0
    /\ NoCandidate(r)
    /\ Return(r, TRUE)

(* Mutant: the end of the loop is not followed by an answer.                *)
ExhaustOutOfAccounts(r) ==
    /\ Trying(r) /\ try[r].attempt > 0 /\ NoCandidate(r)
    /\ Return(r, try[r].noted)

(* emitFailoverExhausted and recordExhaustedFailure: out of accounts, or of *)
(* attempts.  The row names the last attempt that failed, if any did.       *)
Exhaust(r) ==
    /\ At(r, "resolve")
    /\ \/ Trying(r) /\ try[r].attempt > 0 /\ NoCandidate(r)
       \/ ~Trying(r) /\ UNCHANGED states
    /\ Return(r, try[r].noted)

-----------------------------------------------------------------------------
(* Failing over: the account joins the excluded ones and the loop goes on.  *)

(* Mutant: the locals are declared inside the loop.                         *)
FailoverStartsOver(r, t) ==
    /\ try' = [try EXCEPT ![r] = FreshTry]
    /\ Go(r, "resolve")
    /\ account' = [account EXCEPT ![r] = None]
    /\ UNCHANGED <<world, slots, done, gone, calls>>

NextAttempt(t) == [t EXCEPT !.attempt = @ + 1, !.endpoint = 1]
Excluding(t, a) == [t EXCEPT !.attempted = @ \cup {a}]

Failover(r, t) ==
    /\ try' = [try EXCEPT ![r] = Excluding(NextAttempt(t), account[r])]
    /\ Go(r, "resolve")
    /\ account' = [account EXCEPT ![r] = None]
    /\ UNCHANGED <<world, slots, done, gone, calls>>

\* lastAttemptAccount and lastBadStatus are set.
Failed(r) == [try[r] EXCEPT !.noted = TRUE]

RecordFailure(a) ==
    states' = [states EXCEPT ![a] = AfterFailure(@, AccountConfig[a])]

\* Dispatch starts with the account's first endpoint.
Call(r, p) ==
    /\ Go(r, p)
    /\ calls' = [calls EXCEPT ![r] = @ + 1]
    /\ try' = [try EXCEPT ![r].endpoint = 1]

(* EnsureFresh, for OAuth accounts; a failure touches no breaker. *)
EnsureFresh(r) ==
    /\ At(r, "fresh")
    /\ Go(r, "slot")
    /\ UNCHANGED <<tracker, world, slots, account, try, done, gone, calls>>

EnsureFreshFails(r) ==
    /\ At(r, "fresh")
    /\ Failover(r, Failed(r))
    /\ UNCHANGED tracker

(* Mutant: the slot is taken on the word of the resolver's AtCap.           *)
AcquireUnchecked(r) ==
    /\ At(r, "slot")
    /\ inflight' = [inflight EXCEPT ![account[r]] = @ + 1]
    /\ held' = [held EXCEPT ![r] = @ \cup {account[r]}]
    /\ Call(r, "dispatch")
    /\ UNCHANGED <<tracker, world, account, done, gone>>

(* TryAcquire: the last slot may have gone since AtCap was asked. *)
Acquire(r) ==
    /\ At(r, "slot")
    /\ ~AtCap(account[r])
    /\ inflight' = [inflight EXCEPT ![account[r]] = @ + 1]
    /\ held' = [held EXCEPT ![r] = @ \cup {account[r]}]
    /\ Call(r, "dispatch")
    /\ UNCHANGED <<tracker, world, account, done, gone>>

AcquireFails(r) ==
    /\ At(r, "slot")
    /\ AtCap(account[r])
    /\ Failover(r, try[r])
    /\ UNCHANGED tracker

\* The endpoint whose outcome Dispatch returns, whatever it is.
Last(r) == try[r].endpoint = Endpoints[account[r]]

(* Dispatch: an endpoint that is not the last fails in transport, or with a *)
(* retriable status.  The next one is called, and no breaker hears of it.   *)
NextEndpoint(r) ==
    /\ pc[r] \in Calling
    /\ ~Last(r)
    /\ try' = [try EXCEPT ![r].endpoint = @ + 1]
    /\ calls' = [calls EXCEPT ![r] = @ + 1]
    /\ UNCHANGED <<tracker, world, slots, pc, account, done, gone>>

(* Mutant: the failure is not kept for the exhaustion row.                  *)
TransportFailsUnnoted(r) ==
    /\ pc[r] \in {"dispatch", "redispatch"} /\ Last(r)
    /\ RecordFailure(account[r])
    /\ Failover(r, try[r])
    /\ UNCHANGED cooldowns

(* Dispatch returns an error: the upstream, or the client's context. *)
TransportFails(r) ==
    /\ pc[r] \in {"dispatch", "redispatch"} /\ Last(r)
    /\ RecordFailure(account[r])
    /\ Failover(r, Failed(r))
    /\ UNCHANGED cooldowns

(* A 5xx or 429; the 429 also parks the account. *)
RetriableAnswer(r, status) ==
    /\ pc[r] \in {"dispatch", "redispatch"} /\ Last(r)
    /\ status \in Retriable
    /\ cooldowns' = IF status = "429" THEN [cooldowns EXCEPT ![account[r]] = Cooldown]
                    ELSE cooldowns
    /\ RecordFailure(account[r])
    /\ Failover(r, Failed(r))

(* The request's first 401 from an OAuth account: refresh, same account.    *)
Unauthorized(r) ==
    /\ At(r, "dispatch")
    /\ account[r] \in OAuth /\ try[r].authRefreshed = None
    /\ try' = [try EXCEPT ![r].authRefreshed = account[r]]
    /\ Go(r, "refresh")
    /\ UNCHANGED <<tracker, world, slots, account, done, gone, calls>>

ForceRefresh(r) ==
    /\ At(r, "refresh")
    /\ Call(r, "redispatch")
    /\ UNCHANGED <<tracker, world, slots, account, done, gone>>

ForceRefreshFails(r) ==
    /\ At(r, "refresh")
    /\ Failover(r, Failed(r))
    /\ UNCHANGED tracker

(* Mutant: a 401 is a 4xx like any other.                                   *)
SettledAnswerAny401(r, status) ==
    /\ pc[r] \in {"dispatch", "redispatch"}
    /\ status \notin Retriable
    /\ try' = [try EXCEPT ![r].status = status]
    /\ Go(r, "settle")
    /\ UNCHANGED <<tracker, world, slots, account, done, gone, calls>>

(* Any other answer is settled on, unless the rectifier takes it up. *)
SettledAnswer(r, status) ==
    /\ pc[r] \in {"dispatch", "redispatch"}
    /\ status \notin Retriable
    /\ ~(At(r, "dispatch") /\ status = "401"
         /\ account[r] \in OAuth /\ try[r].authRefreshed = None)
    /\ try' = [try EXCEPT ![r].status = status]
    /\ Go(r, "settle")
    /\ UNCHANGED <<tracker, world, slots, account, done, gone, calls>>

(* A rejected thinking signature: one rectified retry on the same account. *)
Rectify(r) ==
    /\ At(r, "settle")
    /\ Rectifies /\ try[r].status = "signature" /\ ~try[r].signatureRectified
    /\ Call(r, "rectify")
    /\ UNCHANGED <<tracker, world, slots, account, done, gone>>

Commit(r) ==
    /\ At(r, "settle")
    /\ ~(Rectifies /\ try[r].status = "signature" /\ ~try[r].signatureRectified)
    /\ Go(r, "write")
    /\ UNCHANGED <<tracker, world, slots, account, try, done, gone, calls>>

(* Mutant: the answer to the rectified request is looked at once more.      *)
RectifiedAnswerAgain(r, status) ==
    /\ At(r, "rectify")
    /\ try' = [try EXCEPT ![r].status = status]
    /\ Go(r, "settle")
    /\ UNCHANGED <<tracker, world, slots, account, done, gone, calls>>

AnsweredWith(t, status) == [t EXCEPT !.status = status]
Rectified(t) == [t EXCEPT !.signatureRectified = TRUE]

(* Whatever the rectified retry answers is committed ... *)
RectifiedAnswer(r, status) ==
    /\ At(r, "rectify") /\ (Last(r) \/ status \notin Retriable)
    /\ try' = [try EXCEPT ![r] = Rectified(AnsweredWith(@, status))]
    /\ Go(r, "write")
    /\ UNCHANGED <<tracker, world, slots, account, done, gone, calls>>

(* ... and the original 400 when it fails in transport. *)
RectifiedFails(r) ==
    /\ At(r, "rectify") /\ Last(r)
    /\ Go(r, "write")
    /\ UNCHANGED <<tracker, world, slots, account, try, done, gone, calls>>

(* WriteResponse has run its course: health, then the row, then return.    *)
Written(r) ==
    /\ At(r, "write")
    /\ LET a == account[r]
           s == try[r].status
       IN  /\ states' = [states EXCEPT ![a] =
                  CASE s = "2xx"        -> AfterSuccess(@, AccountConfig[a])
                    [] s \in Retriable  -> AfterFailure(@, AccountConfig[a])
                    [] OTHER            -> @]
           /\ Return(r, TRUE)

-----------------------------------------------------------------------------
(* Everything around the requests.                                          *)

HangUp(r) ==
    /\ r \in Impatient \ gone
    /\ pc[r] # "done"
    /\ gone' = gone \cup {r}
    /\ UNCHANGED <<tracker, world, slots, pc, account, try, done, calls>>

(* Spend caps, active windows, auth status and admin edits come and go.     *)
Bar(a) ==
    /\ a \in Fickle
    /\ barred' = IF a \in barred THEN barred \ {a} ELSE barred \cup {a}
    /\ UNCHANGED <<tracker, bound, slots, pc, account, try, done, gone, calls>>

Expire(s) ==
    /\ bound[s] # None
    /\ bound' = [bound EXCEPT ![s] = None]
    /\ UNCHANGED <<tracker, barred, slots, pc, account, try, done, gone, calls>>

Tick ==
    /\ states' = [a \in Account |-> Elapse(states[a])]
    /\ cooldowns' = [a \in Account |-> CoolDown(cooldowns[a])]
    /\ UNCHANGED <<world, slots, pc, account, try, done, gone, calls>>

(* An upstream call ends.  Once the client is gone its context cancels the  *)
(* call, which then ends in an error.                                       *)
Answered(r) ==
    \/ NextEndpoint(r) \/ TransportFails(r) \/ RectifiedFails(r)
    \/ /\ r \notin gone
       /\ \/ Unauthorized(r)
          \/ \E s \in Answer :
                RetriableAnswer(r, s) \/ SettledAnswer(r, s) \/ RectifiedAnswer(r, s)

Step(r) ==
    \/ ResolveSticky(r) \/ ResolveFresh(r) \/ Reject(r) \/ Exhaust(r)
    \/ EnsureFresh(r) \/ EnsureFreshFails(r)
    \/ Acquire(r) \/ AcquireFails(r)
    \/ Answered(r)
    \/ ForceRefresh(r) \/ ForceRefreshFails(r)
    \/ Rectify(r) \/ Commit(r) \/ Written(r)

Next ==
    \/ \E r \in Request : Step(r) \/ HangUp(r)
    \/ \E a \in Account : Bar(a)
    \/ \E s \in Session : Expire(s)
    \/ Tick

Spec == Init /\ [][Next]_vars

-----------------------------------------------------------------------------
(* Slots.                                                                   *)

Holders(a) == {r \in Request : a \in held[r]}

(* Whatever path a request takes out of the loop, the slots counted for an  *)
(* account are those of requests that still have a release pending: none    *)
(* leaks, none is returned twice.                                           *)
SlotsMatchHolders == \A a \in Account : inflight[a] = Cardinality(Holders(a))

(* The counter is a semaphore (Semaphore): a slot is taken only while one   *)
(* is free, never twice by the same request, and given back by who took it. *)
holders == [a \in Account |-> Holders(a)]

Sem == INSTANCE Semaphore WITH Slots <- MaxConcurrency

ImplementsSemaphore == Sem!Spec

Using(a) == {r \in Request : account[r] = a
                 /\ pc[r] \in Calling \cup {"refresh", "settle", "write"}}

(* max_concurrency bounds the requests an account really serves, although   *)
(* several of them may have found a free slot (AtCap) before any took one.  *)
UpstreamWithinCap ==
    \A a \in Account :
        MaxConcurrency[a] > 0 => Cardinality(Using(a)) <= MaxConcurrency[a]

-----------------------------------------------------------------------------
(* Attempts, answers and rows.                                              *)

(* A request goes at most once through the endpoints of each account it     *)
(* attempts, once more after its forced token refresh and once more with a  *)
(* rectified body: failover between endpoints, failover between accounts    *)
(* and the once-only retries of the same account multiply no further.       *)
CallBudget ==
    \A r \in Request :
        calls[r] <= (MaxAttempts + 1 + (IF Rectifies THEN 1 ELSE 0)) * MaxEndpoints

(* A request that reached an upstream never ends without a row that says so. *)
UpstreamCallsAreRecorded ==
    \A r \in Request : calls[r] > 0 => done[r] # "unrecorded"

(* What is handed to the client is final.  A retriable answer is failed     *)
(* over, save what the rectified retry of the Anthropic handler gets.  The  *)
(* 401 of an account whose token can be refreshed has been answered with a  *)
(* refresh and a repeated call; or the refresh of this request, of which    *)
(* there is one, went to an account that it then gave up.                   *)
OnlyFinalAnswers ==
    \A r \in Request : At(r, "write") /\ ~try[r].signatureRectified =>
        /\ try[r].status \notin Retriable
        /\ try[r].status = "401" /\ account[r] \in OAuth =>
              try[r].authRefreshed \in {account[r]} \cup try[r].attempted

-----------------------------------------------------------------------------
(* Termination.  Upstream calls, refreshes and writes end (each has a       *)
(* timeout), so the handler's goroutine keeps going: a request that always  *)
(* can step, and whose every step leaves less to do, is answered.           *)
Ahead == [resolve |-> 9, fresh |-> 8, slot |-> 7, dispatch |-> 6, refresh |-> 5,
          redispatch |-> 4, settle |-> 3, rectify |-> 2, write |-> 1]

Remaining(r) ==
    IF pc[r] = "done" THEN 0 ELSE 10 * (MaxAttempts - try[r].attempt) + Ahead[pc[r]]

(* Whatever runs, a request is left alone, is brought nearer to its end or  *)
(* on to the next endpoint of the call it is in: no retry, refresh,         *)
(* rectification or failover takes it back.                                 *)
Advances(r) ==
    \/ Remaining(r)' < Remaining(r)
    \/ Remaining(r)' = Remaining(r) /\ try'[r].endpoint > try[r].endpoint
    \/ UNCHANGED <<pc[r], try[r]>>

EveryStepAdvances == [][\A r \in Request : Advances(r)]_vars

(* No request waits for another one, whoever holds the slots it wants; and  *)
(* one that is over has given back every slot it took.                      *)
EveryRequestCanEnd ==
    \A r \in Request :
        IF pc[r] = "done" THEN held[r] = {} /\ done[r] # "open" ELSE ENABLED Step(r)

=============================================================================
