--------------------------- MODULE CircuitBreaker ---------------------------
(***************************************************************************)
(* The circuit breaker in use: concurrent requests ask IsAvailable, call   *)
(* the upstream for a while, and report what came of it, so a verdict may  *)
(* reach a breaker that others have moved meanwhile.  The tracker decides  *)
(* under its mutex but calls the TransitionHandler after unlocking: outbox *)
(* holds the transition a caller has decided and not yet handed over.      *)
(*                                                                         *)
(* logged, failRun, winRun and wasReset observe: what the handler received *)
(* of each account and what was reported about it.  No action reads them.  *)
(***************************************************************************)
EXTENDS Tracker, FiniteSets

CONSTANTS
    Account,
    Caller,       \* requests in flight at once
    MaxCooldown,  \* the longest 429 cooldown, in ticks
    Resettable    \* accounts an operator may force closed

ASSUME BreakerAssumption ==
    /\ IsFiniteSet(Caller)
    /\ MaxCooldown \in Nat
    /\ Resettable \subseteq Account

VARIABLES
    states,    \* Tracker.states
    cooldowns, \* Tracker.cooldowns: ticks left, 0 for none
    config,    \* what configFor returns for the account now
    request,   \* the request each caller runs
    outbox,    \* the transition a caller has still to hand to the handler
    logged,    \* transitions handed over: those to each state less those from it,
               \* counted until an operator's reset
    failRun,   \* failures reported since the last success
    winRun,    \* successes reported since the breaker last opened
    wasReset   \* accounts an operator has forced closed

tracker == <<states, cooldowns, config>>
observed == <<logged, failRun, winRun, wasReset>>
vars == <<tracker, request, outbox, observed>>

Idle == [stage |-> "idle"]
Request == {Idle} \cup [stage : {"calling", "limited"}, account : Account]

NoTransition == [from |-> Closed, to |-> Closed]
Transition == {t \in [account : Account, from : CircuitState, to : CircuitState] :
                   t.from # t.to}

TypeOK ==
    /\ states \in [Account -> AccountState]
    /\ cooldowns \in [Account -> 0..MaxCooldown]
    /\ config \in [Account -> Configs]
    /\ request \in [Caller -> Request]
    /\ outbox \in [Caller -> Transition \cup {NoTransition}]
    /\ logged \in [Account -> [CircuitState -> Int]]
    /\ failRun \in [Account -> 0..FailureCap]
    /\ winRun \in [Account -> 0..MaxQuota]
    /\ wasReset \subseteq Account

Init ==
    /\ states = [a \in Account |-> Fresh]
    /\ cooldowns = [a \in Account |-> 0]
    /\ config \in [Account -> Configs]
    /\ request = [c \in Caller |-> Idle]
    /\ outbox = [c \in Caller |-> NoTransition]
    /\ logged = [a \in Account |-> [s \in CircuitState |-> 0]]
    /\ failRun = [a \in Account |-> 0]
    /\ winRun = [a \in Account |-> 0]
    /\ wasReset = {}

-----------------------------------------------------------------------------
Is(p) == IF p THEN 1 ELSE 0

(* A caller is busy while the handler it called has not returned.           *)
Free(c) == outbox[c] = NoTransition

(* Mutant: the former state is read after the breaker has passed half-open. *)
CommitReadsLate(c, a, s) ==
    /\ states' = [states EXCEPT ![a] = s]
    /\ outbox' = IF s.state = states[a].state THEN outbox
                 ELSE [outbox EXCEPT ![c] =
                          [account |-> a, to |-> s.state,
                           from |-> IF s.state = Closed THEN HalfOpen ELSE states[a].state]]

(* The common tail of the tracker's methods: store the record and, when its *)
(* state changed, leave with a transition to hand over.                     *)
Commit(c, a, s) ==
    /\ states' = [states EXCEPT ![a] = s]
    /\ outbox' = IF s.state = states[a].state THEN outbox
                 ELSE [outbox EXCEPT ![c] =
                          [account |-> a, from |-> states[a].state, to |-> s.state]]

Consult(c, a) ==
    /\ Free(c)
    /\ request[c] = Idle
    /\ IsAvailable(states[a], cooldowns[a], config[a])
    /\ Commit(c, a, AfterIsAvailable(states[a], cooldowns[a], config[a]))
    /\ UNCHANGED <<cooldowns, config, observed>>

(* The resolver picked the account: the request goes out to it.            *)
Route(c, a) ==
    /\ Consult(c, a)
    /\ request' = [request EXCEPT ![c] = [stage |-> "calling", account |-> a]]

(* Another filter dropped the account, or another account was picked.      *)
Overlook(c, a) == Consult(c, a) /\ UNCHANGED request

Calling(c) == Free(c) /\ request[c].stage = "calling"

Done(c) == request' = [request EXCEPT ![c] = Idle]

(* RecordSuccess, whoever reports it.                                      *)
RecordSuccess(c, a) ==
    LET counted == ~Disabled(config[a])
    IN  /\ Commit(c, a, AfterSuccess(states[a], config[a]))
        /\ failRun' = IF counted THEN [failRun EXCEPT ![a] = 0] ELSE failRun
        /\ winRun' = IF counted /\ states[a].state # Closed /\ winRun[a] < MaxQuota
                     THEN [winRun EXCEPT ![a] = @ + 1] ELSE winRun
        /\ UNCHANGED <<cooldowns, config, logged, wasReset>>

(* RecordFailure, likewise.                                                *)
RecordFailure(c, a) ==
    LET counted == ~Disabled(config[a])
    IN  /\ Commit(c, a, AfterFailure(states[a], config[a]))
        /\ failRun' = IF counted THEN [failRun EXCEPT ![a] = Count(@)] ELSE failRun
        /\ winRun' = IF counted THEN [winRun EXCEPT ![a] = 0] ELSE winRun
        /\ UNCHANGED <<cooldowns, config, logged, wasReset>>

Succeed(c) == Calling(c) /\ RecordSuccess(c, request[c].account) /\ Done(c)

(* A 429 with a Retry-After parks the account, then counts as a failure.   *)
SetCooldown(c) ==
    /\ Calling(c)
    /\ \E d \in 0..MaxCooldown :
           cooldowns' = [cooldowns EXCEPT ![request[c].account] = d]
    /\ request' = [request EXCEPT ![c].stage = "limited"]
    /\ UNCHANGED <<states, config, outbox, observed>>

Fail(c) ==
    /\ Free(c) /\ request[c] # Idle
    /\ RecordFailure(c, request[c].account)
    /\ Done(c)

(* A 4xx answer, or a client that went away: no verdict about the account. *)
Abstain(c) ==
    /\ Calling(c)
    /\ Done(c)
    /\ UNCHANGED <<tracker, outbox, observed>>

(* The handler runs, outside the mutex, on the caller's goroutine.         *)
HandOver(c) ==
    /\ ~Free(c)
    /\ LET t == outbox[c]
       IN  logged' = [logged EXCEPT ![t.account] =
                         IF t.account \in wasReset THEN @
                         ELSE [s \in CircuitState |-> @[s] + Is(s = t.to) - Is(s = t.from)]]
    /\ outbox' = [outbox EXCEPT ![c] = NoTransition]
    /\ UNCHANGED <<tracker, request, failRun, winRun, wasReset>>

(* POST /admin/api/accounts/:id/reset-breaker *)
Reset(a) ==
    /\ a \in Resettable
    /\ states' = [states EXCEPT ![a] = Fresh]
    /\ failRun' = [failRun EXCEPT ![a] = 0]
    /\ winRun' = [winRun EXCEPT ![a] = 0]
    /\ wasReset' = wasReset \cup {a}
    /\ UNCHANGED <<cooldowns, config, request, outbox, logged>>

(* An edit of the account row or of the gateway settings takes effect.     *)
Reconfigure(a) ==
    /\ \E cfg \in Configs : config' = [config EXCEPT ![a] = cfg]
    /\ UNCHANGED <<states, cooldowns, request, outbox, observed>>

Tick ==
    /\ states' = [a \in Account |-> Elapse(states[a])]
    /\ cooldowns' = [a \in Account |-> CoolDown(cooldowns[a])]
    /\ UNCHANGED <<config, request, outbox, observed>>

CallerStep(c) ==
    \/ \E a \in Account : Route(c, a) \/ Overlook(c, a)
    \/ Succeed(c) \/ SetCooldown(c) \/ Fail(c) \/ Abstain(c)
    \/ HandOver(c)

Operator(a) == Reset(a) \/ Reconfigure(a)

Next ==
    \/ \E c \in Caller : CallerStep(c)
    \/ \E a \in Account : Operator(a)
    \/ Tick

Spec == Init /\ [][Next]_vars

-----------------------------------------------------------------------------
(* Counters against history.                                                *)

CountersMatch(s, fails, wins) ==
    IF s.state = Closed
    THEN s.failureCount = fails /\ s.halfOpenSuccess = 0
    ELSE s.halfOpenSuccess = wins /\ (s.state = Open => wins = 0)

(* However requests interleave, time passes and configurations change, the  *)
(* failures a closed breaker holds are exactly the run of failures reported *)
(* since the last success, and the successes any other breaker holds are    *)
(* exactly those reported since it opened, none while it is open: a counter *)
(* RecordSuccess or RecordFailure leaves over from an earlier phase would   *)
(* break it.                                                                *)
CountersMatchHistory ==
    \A a \in Account : CountersMatch(states[a], failRun[a], winRun[a])

(* A closed breaker opens only at the end of a run of consecutive failures  *)
(* as long as the threshold in force (Config.FailureThreshold).             *)
TripsAtThreshold(a) ==
    states[a].state = Closed /\ states'[a].state = Open
        => failRun'[a] >= config[a].threshold

TripNeedsRun == [][\A a \in Account : TripsAtThreshold(a)]_vars

(* Short of an operator's Reset, a breaker that opened closes only after    *)
(* HalfOpenSuccessThreshold successes with no failure in between, whichever *)
(* phases of the breaker they fell in.                                      *)
ClosesAtQuota(a) ==
    states[a].state # Closed /\ states'[a].state = Closed
        => winRun'[a] >= config[a].quota \/ Reset(a)

CloseNeedsQuota == [][\A a \in Account : ClosesAtQuota(a)]_vars

-----------------------------------------------------------------------------
(* What the handler learns.                                                 *)

Pending(a, field, s) ==
    {c \in Caller : ~Free(c) /\ outbox[c].account = a /\ outbox[c][field] = s}

(* The transitions handed over and those still in a caller's hands add up   *)
(* to the path from closed to the present state: none is lost, doubled or   *)
(* reported with the wrong end, so the health-event history of an account   *)
(* nobody reset can be reconstructed.                                       *)
TransitionsAddUp ==
    \A a \in Account \ wasReset, s \in CircuitState :
        logged[a][s] + Cardinality(Pending(a, "to", s))
                         - Cardinality(Pending(a, "from", s))
            = Is(states[a].state = s) - Is(s = Closed)

-----------------------------------------------------------------------------
(* Liveness, under the assumptions that calls to an upstream end (the       *)
(* forwarder's timeouts), that the handler returns, and that clients keep   *)
(* sending requests for which the resolver asks about every account.        *)
Fairness ==
    /\ WF_vars(Tick)
    /\ \A c \in Caller : WF_vars(HandOver(c)) /\ WF_vars(Succeed(c) \/ Fail(c) \/ Abstain(c))
    /\ \A a \in Account : SF_vars(\E c \in Caller : Route(c, a) \/ Overlook(c, a))

LiveSpec == Spec /\ Fairness

(* An open breaker is eventually tried again, although late failures of     *)
(* requests already on their way push openUntil back, and however often the *)
(* operator changes its configuration: only one that is switched off while  *)
(* open can stay open.                                                      *)
OpenIsTriedAgain ==
    \A a \in Account :
        ~ <>[](states[a].state = Open /\ ~Disabled(config[a]))

=============================================================================
