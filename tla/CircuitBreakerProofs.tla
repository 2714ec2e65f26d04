------------------------ MODULE CircuitBreakerProofs ------------------------
(***************************************************************************)
(* Theorems about CircuitBreaker for any number of accounts and requests,  *)
(* any configurations and any bounds, and about Prober, which adds a       *)
(* caller that is no request, with their proofs.                           *)
(***************************************************************************)
EXTENDS Prober, FiniteSetTheorems, TLAPS

-----------------------------------------------------------------------------
(* What the tracker's methods return, for any record and configuration.     *)

(* IsAvailable leaves a well-formed record behind. *)
LEMMA AfterIsAvailableType ==
    ASSUME NEW s \in AccountState, NEW cool, NEW cfg \in Configs
    PROVE  AfterIsAvailable(s, cool, cfg) \in AccountState
BY TrackerAssumption
DEF AfterIsAvailable, OnTrial, TrackerAssumption, AccountState, CircuitState, HalfOpen

(* RecordSuccess leaves a well-formed record behind: halfOpenSuccess stays   *)
(* below the quota it was compared with. *)
LEMMA AfterSuccessType ==
    ASSUME NEW s \in AccountState, NEW cfg \in Configs
    PROVE  AfterSuccess(s, cfg) \in AccountState
<1> USE TrackerAssumption DEF TrackerAssumption, AccountState, CircuitState, Closed, Open, HalfOpen, Config
<1>1. TrialWon(s, cfg) \in AccountState
  BY DEF TrialWon, OnTrial, Fresh
<1>2. [s EXCEPT !.failureCount = 0] \in AccountState
  OBVIOUS
<1> QED BY <1>1, <1>2 DEF AfterSuccess

(* The saturating counter stays in its range. *)
LEMMA CountType ==
    ASSUME NEW n \in 0..FailureCap
    PROVE  Count(n) \in 0..FailureCap
BY TrackerAssumption DEF Count

(* RecordFailure leaves a well-formed record behind. *)
LEMMA AfterFailureType ==
    ASSUME NEW s \in AccountState, NEW cfg \in Configs
    PROVE  AfterFailure(s, cfg) \in AccountState
<1> USE TrackerAssumption DEF TrackerAssumption, AccountState, CircuitState, Closed, Open, HalfOpen, Config
<1>0. Count(s.failureCount) \in 0..FailureCap
  BY CountType
<1>1. Trip(s, cfg) \in AccountState
  BY <1>0 DEF Trip
<1>2. [s EXCEPT !.failureCount = Count(@)] \in AccountState
  BY <1>0
<1> QED BY <1>1, <1>2 DEF AfterFailure

(* The passing of time keeps records well-formed. *)
LEMMA ElapseType ==
    ASSUME NEW s \in AccountState
    PROVE  Elapse(s) \in AccountState
BY TrackerAssumption DEF Elapse, AccountState

-----------------------------------------------------------------------------
(* The steps of a breaker, by what they do to it.                           *)

(* A caller reports a verdict; it need not be a request that ran.           *)
Reports(c, a) == Free(c) /\ (RecordSuccess(c, a) \/ RecordFailure(c, a))

(* CircuitBreaker's steps, and verdicts of a caller that runs no request.   *)
BreakerNext ==
    Next \/ \E c \in Caller, a \in Account : Reports(c, a) /\ UNCHANGED request

(* A caller that is not idle works for some account. *)
LEMMA BusyCaller ==
    ASSUME TypeOK, NEW c \in Caller, request[c] # Idle
    PROVE  /\ request[c] \in [stage : {"calling", "limited"}, account : Account]
           /\ request[c].account \in Account
BY DEF TypeOK, Request, Idle

(* A caller in the calling stage is not idle. *)
LEMMA CallingBusy ==
    ASSUME NEW c \in Caller, Calling(c)
    PROVE  request[c] # Idle
BY DEF Calling, Idle

(* But for what happens to the requests and the configuration, a step is a  *)
(* consultation, a report, a hand-over, a reset or a tick of the clock. *)
LEMMA BreakerSteps ==
    ASSUME TypeOK, [BreakerNext]_vars
    PROVE  \/ \E c \in Caller, a \in Account : Consult(c, a)
           \/ \E c \in Caller, a \in Account : Reports(c, a)
           \/ \E c \in Caller : HandOver(c)
           \/ \E a \in Account : Reset(a)
           \/ Tick
           \/ UNCHANGED <<states, outbox, observed>>
<1>1. CASE UNCHANGED vars
  BY <1>1 DEF vars, tracker
<1>2. ASSUME NEW c \in Caller, NEW a \in Account, Route(c, a) \/ Overlook(c, a)
      PROVE  Consult(c, a)
  BY <1>2 DEF Route, Overlook
<1>3. ASSUME NEW c \in Caller, Succeed(c) PROVE \E a \in Account : Reports(c, a)
  BY <1>3, BusyCaller, CallingBusy DEF Succeed, Reports, Calling
<1>4. ASSUME NEW c \in Caller, Fail(c) PROVE \E a \in Account : Reports(c, a)
  BY <1>4, BusyCaller DEF Fail, Reports
<1>5. ASSUME NEW c \in Caller, SetCooldown(c) \/ Abstain(c)
      PROVE  UNCHANGED <<states, outbox, observed>>
  BY <1>5 DEF SetCooldown, Abstain, tracker
<1>6. ASSUME NEW a \in Account, Reconfigure(a)
      PROVE  UNCHANGED <<states, outbox, observed>>
  BY <1>6 DEF Reconfigure
<1>7. CASE \E c \in Caller : CallerStep(c)
  BY <1>2, <1>3, <1>4, <1>5, <1>7 DEF CallerStep
<1>8. CASE \E a \in Account : Operator(a)
  BY <1>6, <1>8 DEF Operator
<1> QED BY <1>1, <1>7, <1>8 DEF BreakerNext, Next

-----------------------------------------------------------------------------
(* Type correctness.                                                        *)

(* Storing a well-formed record keeps the tracker and the transitions in     *)
(* callers' hands well-typed. *)
LEMMA CommitType ==
    ASSUME TypeOK, NEW c \in Caller, NEW a \in Account,
           NEW s \in AccountState, Commit(c, a, s)
    PROVE  /\ states' \in [Account -> AccountState]
           /\ outbox' \in [Caller -> Transition \cup {NoTransition}]
<1>1. states' \in [Account -> AccountState]
  BY DEF Commit, TypeOK
<1>2. ASSUME s.state # states[a].state
      PROVE  [account |-> a, from |-> states[a].state, to |-> s.state] \in Transition
  BY <1>2 DEF Transition, AccountState, TypeOK
<1>3. outbox' \in [Caller -> Transition \cup {NoTransition}]
  BY <1>2 DEF Commit, TypeOK
<1> QED BY <1>1, <1>3

(* What a consultation or a report stores: a well-formed record.            *)
LEMMA CommitsSome ==
    ASSUME TypeOK, NEW c \in Caller, NEW a \in Account, Consult(c, a) \/ Reports(c, a)
    PROVE  Free(c) /\ \E s \in AccountState : Commit(c, a, s)
<1>1. states[a] \in AccountState /\ config[a] \in Configs
  BY DEF TypeOK
<1>2. /\ AfterIsAvailable(states[a], cooldowns[a], config[a]) \in AccountState
      /\ AfterSuccess(states[a], config[a]) \in AccountState
      /\ AfterFailure(states[a], config[a]) \in AccountState
  BY <1>1, AfterIsAvailableType, AfterSuccessType, AfterFailureType
<1> QED BY <1>2 DEF Consult, Reports, RecordSuccess, RecordFailure

(* A verdict, whoever reports it, keeps the types of what it touches. *)
LEMMA ReportType ==
    ASSUME TypeOK, NEW c \in Caller, NEW a \in Account, Reports(c, a)
    PROVE  /\ states' \in [Account -> AccountState]
           /\ outbox' \in [Caller -> Transition \cup {NoTransition}]
           /\ failRun' \in [Account -> 0..FailureCap]
           /\ winRun' \in [Account -> 0..MaxQuota]
           /\ UNCHANGED <<cooldowns, config, logged, wasReset>>
<1> USE TrackerAssumption DEF TrackerAssumption
<1>1. /\ states' \in [Account -> AccountState]
      /\ outbox' \in [Caller -> Transition \cup {NoTransition}]
  BY CommitsSome, CommitType
<1>2. CASE RecordSuccess(c, a)
  BY <1>1, <1>2 DEF RecordSuccess, TypeOK
<1>3. CASE RecordFailure(c, a)
  BY <1>1, <1>3, CountType DEF RecordFailure, TypeOK
<1> QED BY <1>2, <1>3 DEF Reports

(* Initially the variables have their types. *)
LEMMA TypeInit == Init => TypeOK
BY TrackerAssumption, BreakerAssumption
DEF TrackerAssumption, BreakerAssumption, Init, TypeOK, Fresh, AccountState, CircuitState,
    Closed, Open, HalfOpen, Request

(* Every step keeps the types. *)
LEMMA TypeStep == TypeOK /\ [BreakerNext]_vars => TypeOK'
<1> SUFFICES ASSUME TypeOK, [BreakerNext]_vars PROVE TypeOK'
  OBVIOUS
<1> USE TrackerAssumption, BreakerAssumption DEF TrackerAssumption, BreakerAssumption
<1>1. CASE UNCHANGED vars
  BY <1>1 DEF TypeOK, vars, tracker, observed
<1>2. ASSUME NEW c \in Caller, NEW a \in Account, Route(c, a) \/ Overlook(c, a)
      PROVE  TypeOK'
  <2>1. Consult(c, a)
    BY <1>2 DEF Route, Overlook
  <2>2. request' \in [Caller -> Request]
    BY <1>2 DEF Route, Overlook, TypeOK, Request
  <2>3. /\ states' \in [Account -> AccountState]
        /\ outbox' \in [Caller -> Transition \cup {NoTransition}]
    BY <2>1, CommitsSome, CommitType
  <2> QED BY <2>1, <2>2, <2>3 DEF Consult, TypeOK, observed
<1>3. ASSUME NEW c \in Caller, NEW a \in Account, Reports(c, a),
             request' = request \/ Done(c)
      PROVE  TypeOK'
  <2>1. request' \in [Caller -> Request]
    BY <1>3 DEF Done, TypeOK, Request
  <2> QED BY <1>3, <2>1, ReportType DEF TypeOK
<1>4. ASSUME NEW c \in Caller, Succeed(c) \/ Fail(c)
      PROVE  TypeOK'
  <2>1. request[c].account \in Account /\ Reports(c, request[c].account) /\ Done(c)
    BY <1>4, BusyCaller, CallingBusy DEF Succeed, Fail, Reports, Calling
  <2> QED BY <2>1, <1>3
<1>5. ASSUME NEW c \in Caller, SetCooldown(c)
      PROVE  TypeOK'
  <2> DEFINE a == request[c].account
  <2>1. a \in Account /\ request[c] \in [stage : {"calling", "limited"}, account : Account]
    BY <1>5, BusyCaller, CallingBusy DEF SetCooldown
  <2>2. cooldowns' \in [Account -> 0..MaxCooldown]
    BY <1>5, <2>1 DEF SetCooldown, TypeOK
  <2>3. request' \in [Caller -> Request]
    BY <1>5, <2>1 DEF SetCooldown, TypeOK, Request
  <2> QED BY <1>5, <2>2, <2>3 DEF SetCooldown, TypeOK, observed
<1>6. ASSUME NEW c \in Caller, Abstain(c)
      PROVE  TypeOK'
  BY <1>6 DEF Abstain, Done, TypeOK, Request, tracker, observed
<1>7. ASSUME NEW c \in Caller, HandOver(c)
      PROVE  TypeOK'
  <2>1. outbox[c] \in Transition
    BY <1>7 DEF HandOver, Free, TypeOK
  <2>2. logged' \in [Account -> [CircuitState -> Int]]
    BY <1>7, <2>1 DEF HandOver, Transition, TypeOK, Is
  <2>3. outbox' \in [Caller -> Transition \cup {NoTransition}]
    BY <1>7 DEF HandOver, TypeOK
  <2> QED BY <1>7, <2>2, <2>3 DEF HandOver, TypeOK, tracker
<1>8. ASSUME NEW a \in Account, Reset(a)
      PROVE  TypeOK'
  <2>1. Fresh \in AccountState
    BY DEF Fresh, AccountState, CircuitState
  <2> QED BY <1>8, <2>1 DEF Reset, TypeOK
<1>9. ASSUME NEW a \in Account, Reconfigure(a)
      PROVE  TypeOK'
  BY <1>9 DEF Reconfigure, TypeOK, observed
<1>10. CASE Tick
  BY <1>10, ElapseType DEF Tick, CoolDown, TypeOK, observed
<1>11. CASE \E c \in Caller : CallerStep(c)
  BY <1>2, <1>4, <1>5, <1>6, <1>7, <1>11 DEF CallerStep
<1> QED
  BY <1>1, <1>3, <1>8, <1>9, <1>10, <1>11 DEF BreakerNext, Next, Operator

(* The variables keep their types along every behaviour. *)
THEOREM TypeCorrect == Spec => []TypeOK
<1>1. [Next]_vars => [BreakerNext]_vars
  BY DEF BreakerNext
<1> QED BY <1>1, TypeInit, TypeStep, PTL DEF Spec

-----------------------------------------------------------------------------
(* Counters against history.                                                *)

(* IsAvailable keeps the counters right. *)
LEMMA AvailableCounts ==
    ASSUME NEW s \in AccountState, NEW cool, NEW cfg \in Configs,
           NEW f \in 0..FailureCap, NEW w \in 0..MaxQuota, CountersMatch(s, f, w)
    PROVE  CountersMatch(AfterIsAvailable(s, cool, cfg), f, w)
BY DEF CountersMatch, AfterIsAvailable, OnTrial, TrialDue, Closed, Open, HalfOpen

(* A success counted by the breaker is the next of the run the history holds. *)
LEMMA SuccessCounts ==
    ASSUME NEW s \in AccountState, NEW cfg \in Configs, ~Disabled(cfg),
           NEW f \in 0..FailureCap, NEW w \in 0..MaxQuota, CountersMatch(s, f, w)
    PROVE  /\ CountersMatch(AfterSuccess(s, cfg), 0,
                            IF s.state # Closed /\ w < MaxQuota THEN w + 1 ELSE w)
           /\ s.state # Closed /\ AfterSuccess(s, cfg).state = Closed
                  => (IF w < MaxQuota THEN w + 1 ELSE w) >= cfg.quota
<1> USE TrackerAssumption DEF TrackerAssumption, AccountState, CircuitState, Config,
                              Closed, Open, HalfOpen
<1>1. CASE s.state = Closed
  BY <1>1 DEF AfterSuccess, CountersMatch
<1>2. CASE s.state # Closed
  <2> DEFINE wins == w + 1
  <2>1. AfterSuccess(s, cfg) = TrialWon(s, cfg)
    BY <1>2 DEF AfterSuccess
  <2>2. TrialWon(s, cfg) = IF wins >= cfg.quota THEN Fresh ELSE OnTrial(s, wins)
    BY <1>2 DEF TrialWon, CountersMatch
  <2>3. cfg.quota \in 0..MaxQuota
    OBVIOUS
  <2> QED BY <1>2, <2>1, <2>2, <2>3 DEF CountersMatch, Fresh, OnTrial
<1> QED BY <1>1, <1>2

(* A failure counted by the breaker is the next of the run the history holds, *)
(* and opens a closed breaker only when that run reaches the threshold. *)
LEMMA FailureCounts ==
    ASSUME NEW s \in AccountState, NEW cfg \in Configs, ~Disabled(cfg),
           NEW f \in 0..FailureCap, NEW w \in 0..MaxQuota, CountersMatch(s, f, w)
    PROVE  /\ CountersMatch(AfterFailure(s, cfg), Count(f), 0)
           /\ s.state = Closed /\ AfterFailure(s, cfg).state = Open
                  => Count(f) >= cfg.threshold
<1> USE TrackerAssumption DEF TrackerAssumption, AccountState, CircuitState, Config,
                              Closed, Open, HalfOpen
<1>1. Count(f) \in 0..FailureCap /\ Count(s.failureCount) \in 0..FailureCap
  BY CountType
<1>2. CASE s.state = Closed /\ Count(s.failureCount) < cfg.threshold
  <2>1. AfterFailure(s, cfg) = [s EXCEPT !.failureCount = Count(s.failureCount)]
    BY <1>2 DEF AfterFailure
  <2> QED BY <1>1, <1>2, <2>1 DEF CountersMatch
<1>3. CASE ~(s.state = Closed /\ Count(s.failureCount) < cfg.threshold)
  <2>1. AfterFailure(s, cfg) = Trip(s, cfg)
    BY <1>3 DEF AfterFailure
  <2>2. cfg.threshold \in 0..FailureCap
    OBVIOUS
  <2> QED BY <1>1, <1>3, <2>1, <2>2 DEF CountersMatch, Trip
<1> QED BY <1>2, <1>3

(* A verdict, whoever reports it, is counted as the next of its run, or not  *)
(* at all. *)
LEMMA ReportCounts ==
    ASSUME TypeOK, CountersMatchHistory, NEW c \in Caller, NEW a \in Account,
           Reports(c, a), NEW b \in Account
    PROVE  CountersMatch(states[b], failRun[b], winRun[b])'
<1>0. /\ CountersMatch(states[b], failRun[b], winRun[b])
      /\ states[b] \in AccountState /\ config[b] \in Configs
      /\ failRun[b] \in 0..FailureCap /\ winRun[b] \in 0..MaxQuota
  BY DEF CountersMatchHistory, TypeOK
<1>1. CASE b # a \/ Disabled(config[a])
  <2>1. states'[b] = states[b] /\ failRun'[b] = failRun[b] /\ winRun'[b] = winRun[b]
    BY <1>1 DEF Reports, RecordSuccess, RecordFailure, Commit, AfterSuccess, AfterFailure,
                TypeOK
  <2> QED BY <1>0, <2>1 DEF CountersMatch
<1>2. CASE b = a /\ ~Disabled(config[a]) /\ RecordSuccess(c, a)
  <2>1. /\ states'[b] = AfterSuccess(states[b], config[b])
        /\ failRun'[b] = 0
        /\ winRun'[b] = IF states[b].state # Closed /\ winRun[b] < MaxQuota
                        THEN winRun[b] + 1 ELSE winRun[b]
    BY <1>2 DEF RecordSuccess, Commit, TypeOK
  <2>2. CountersMatch(AfterSuccess(states[b], config[b]), 0,
           IF states[b].state # Closed /\ winRun[b] < MaxQuota
           THEN winRun[b] + 1 ELSE winRun[b])
    BY <1>0, <1>2, SuccessCounts
  <2> QED BY <2>1, <2>2 DEF CountersMatch
<1>3. CASE b = a /\ ~Disabled(config[a]) /\ RecordFailure(c, a)
  <2>1. /\ states'[b] = AfterFailure(states[b], config[b])
        /\ failRun'[b] = Count(failRun[b])
        /\ winRun'[b] = 0
    BY <1>3 DEF RecordFailure, Commit, TypeOK
  <2>2. CountersMatch(AfterFailure(states[b], config[b]), Count(failRun[b]), 0)
    BY <1>0, <1>3, FailureCounts
  <2> QED BY <2>1, <2>2 DEF CountersMatch
<1> QED BY <1>1, <1>2, <1>3 DEF Reports

(* Every step keeps the counters right. *)
LEMMA CountersStep ==
    TypeOK /\ CountersMatchHistory /\ [BreakerNext]_vars => CountersMatchHistory'
<1> SUFFICES ASSUME TypeOK, CountersMatchHistory, [BreakerNext]_vars,
                    NEW b \in Account
             PROVE  CountersMatch(states[b], failRun[b], winRun[b])'
  BY DEF CountersMatchHistory
<1>0. /\ CountersMatch(states[b], failRun[b], winRun[b])
      /\ states[b] \in AccountState /\ config[b] \in Configs
      /\ failRun[b] \in 0..FailureCap /\ winRun[b] \in 0..MaxQuota
  BY DEF CountersMatchHistory, TypeOK
<1>1. ASSUME NEW c \in Caller, NEW a \in Account, Consult(c, a)
      PROVE  CountersMatch(states[b], failRun[b], winRun[b])'
  <2>1. states' = [states EXCEPT ![a] =
                      AfterIsAvailable(states[a], cooldowns[a], config[a])]
        /\ UNCHANGED <<failRun, winRun>>
    BY <1>1 DEF Consult, Commit, observed
  <2>2. states'[b] = states[b]
        \/ states'[b] = AfterIsAvailable(states[b], cooldowns[b], config[b])
    BY <2>1 DEF TypeOK
  <2> QED BY <1>0, <2>1, <2>2, AvailableCounts DEF CountersMatch
<1>2. ASSUME NEW c \in Caller, NEW a \in Account, Reports(c, a)
      PROVE  CountersMatch(states[b], failRun[b], winRun[b])'
  BY <1>2, ReportCounts
<1>3. ASSUME UNCHANGED <<states, failRun, winRun>>
      PROVE  CountersMatch(states[b], failRun[b], winRun[b])'
  BY <1>0, <1>3 DEF CountersMatch
<1>4. ASSUME NEW c \in Caller, HandOver(c)
      PROVE  UNCHANGED <<states, failRun, winRun>>
  BY <1>4 DEF HandOver, tracker
<1>5. ASSUME NEW a \in Account, Reset(a)
      PROVE  CountersMatch(states[b], failRun[b], winRun[b])'
  <2>1. \/ states'[b] = Fresh /\ failRun'[b] = 0 /\ winRun'[b] = 0
        \/ states'[b] = states[b] /\ failRun'[b] = failRun[b] /\ winRun'[b] = winRun[b]
    BY <1>5 DEF Reset, TypeOK
  <2> QED BY <1>0, <2>1 DEF CountersMatch, Fresh
<1>6. CASE Tick
  <2>1. states'[b] = Elapse(states[b]) /\ UNCHANGED <<failRun, winRun>>
    BY <1>6 DEF Tick, observed
  <2> QED BY <1>0, <2>1 DEF CountersMatch, Elapse, AccountState
<1>7. CASE UNCHANGED <<states, outbox, observed>>
  BY <1>3, <1>7 DEF observed
<1> QED BY <1>1, <1>2, <1>3, <1>4, <1>5, <1>6, <1>7, BreakerSteps

(* No failure and no success has been reported yet. *)
LEMMA CountersInit == Init => CountersMatchHistory
BY DEF Init, CountersMatchHistory, CountersMatch, Fresh

(* The counters agree with the history along every behaviour. *)
THEOREM CountersCorrect == Spec => []CountersMatchHistory
<1>1. [Next]_vars => [BreakerNext]_vars
  BY DEF BreakerNext
<1> QED BY <1>1, CountersInit, CountersStep, TypeCorrect, PTL DEF Spec

-----------------------------------------------------------------------------
(* What moves a breaker.                                                    *)

Succeeds(b) == ~Disabled(config[b]) /\ \E c \in Caller : RecordSuccess(c, b)
Fails(b) == ~Disabled(config[b]) /\ \E c \in Caller : RecordFailure(c, b)

(* The only steps that move an account's breaker: the lapse of its open time *)
(* noticed by IsAvailable, a reported verdict, and an operator's reset. *)
LEMMA BreakerMoves ==
    ASSUME TypeOK, [BreakerNext]_vars, NEW b \in Account
    PROVE  \/ states'[b].state = states[b].state
           \/ states[b].state = Open /\ states'[b].state = HalfOpen
           \/ Reset(b) \/ Succeeds(b) \/ Fails(b)
<1>0. states[b] \in AccountState
  BY DEF TypeOK
<1>1. ASSUME NEW c \in Caller, NEW a \in Account, Consult(c, a)
      PROVE  \/ states'[b].state = states[b].state
             \/ states[b].state = Open /\ states'[b].state = HalfOpen
  <2>1. states' = [states EXCEPT ![a] =
                      AfterIsAvailable(states[a], cooldowns[a], config[a])]
    BY <1>1 DEF Consult, Commit
  <2>2. states'[b] = states[b]
        \/ states'[b] = AfterIsAvailable(states[b], cooldowns[b], config[b])
    BY <2>1 DEF TypeOK
  <2> QED BY <2>2 DEF AfterIsAvailable, OnTrial, TrialDue
<1>2. ASSUME NEW c \in Caller, NEW a \in Account, Reports(c, a)
      PROVE  states'[b] = states[b] \/ Succeeds(b) \/ Fails(b)
  <2>1. CASE b # a \/ Disabled(config[a])
    BY <1>2, <2>1 DEF Reports, RecordSuccess, RecordFailure, Commit, AfterSuccess,
                      AfterFailure, TypeOK
  <2>2. CASE b = a /\ ~Disabled(config[a])
    BY <1>2, <2>2 DEF Reports, Succeeds, Fails
  <2> QED BY <2>1, <2>2
<1>3. ASSUME NEW c \in Caller, HandOver(c) PROVE states' = states
  BY <1>3 DEF HandOver, tracker
<1>4. ASSUME NEW a \in Account, Reset(a) PROVE states'[b] = states[b] \/ Reset(b)
  BY <1>4 DEF Reset, TypeOK
<1>5. CASE Tick
  BY <1>0, <1>5 DEF Tick, Elapse, AccountState
<1> QED BY <1>1, <1>2, <1>3, <1>4, <1>5, BreakerSteps

(* A step that opens a closed breaker ends a run of failures as long as the  *)
(* threshold in force. *)
LEMMA TripStep ==
    TypeOK /\ CountersMatchHistory /\ [BreakerNext]_vars =>
        \A a \in Account : TripsAtThreshold(a)
<1> SUFFICES ASSUME TypeOK, CountersMatchHistory, [BreakerNext]_vars, NEW b \in Account,
                    states[b].state = Closed, states'[b].state = Open
             PROVE  failRun'[b] >= config[b].threshold
  BY DEF TripsAtThreshold
<1>0. /\ CountersMatch(states[b], failRun[b], winRun[b])
      /\ states[b] \in AccountState /\ config[b] \in Configs
      /\ failRun[b] \in 0..FailureCap /\ winRun[b] \in 0..MaxQuota
  BY DEF CountersMatchHistory, TypeOK
<1>1. ~ Reset(b)
  BY DEF Reset, Fresh, TypeOK, Closed, Open
<1>2. ~ Succeeds(b)
  <2> SUFFICES ASSUME Succeeds(b) PROVE FALSE
    OBVIOUS
  <2>1. states'[b] = AfterSuccess(states[b], config[b])
    BY DEF Succeeds, RecordSuccess, Commit, TypeOK
  <2>2. AfterSuccess(states[b], config[b]).state = Closed
    BY <1>0 DEF AfterSuccess, Succeeds, AccountState
  <2> QED BY <2>1, <2>2 DEF Closed, Open
<1>3. Fails(b)
  BY <1>1, <1>2, BreakerMoves DEF Closed, Open
<1>4. states'[b] = AfterFailure(states[b], config[b]) /\ failRun'[b] = Count(failRun[b])
  BY <1>3 DEF Fails, RecordFailure, Commit, TypeOK
<1> QED BY <1>0, <1>3, <1>4, FailureCounts DEF Fails

(* A step that closes a breaker completes the successes in a row that the    *)
(* configuration in force asks for, or is an operator's reset. *)
LEMMA CloseStep ==
    TypeOK /\ CountersMatchHistory /\ [BreakerNext]_vars =>
        \A a \in Account : ClosesAtQuota(a)
<1> SUFFICES ASSUME TypeOK, CountersMatchHistory, [BreakerNext]_vars, NEW b \in Account,
                    states[b].state # Closed, states'[b].state = Closed, ~ Reset(b)
             PROVE  winRun'[b] >= config[b].quota
  BY DEF ClosesAtQuota
<1>0. /\ CountersMatch(states[b], failRun[b], winRun[b])
      /\ states[b] \in AccountState /\ config[b] \in Configs
      /\ failRun[b] \in 0..FailureCap /\ winRun[b] \in 0..MaxQuota
  BY DEF CountersMatchHistory, TypeOK
<1>1. ~ Fails(b)
  <2> SUFFICES ASSUME Fails(b) PROVE FALSE
    OBVIOUS
  <2>1. states'[b] = AfterFailure(states[b], config[b])
    BY DEF Fails, RecordFailure, Commit, TypeOK
  <2>2. AfterFailure(states[b], config[b]).state = Open
    BY DEF AfterFailure, Trip, Fails
  <2> QED BY <2>1, <2>2 DEF Closed, Open
<1>2. Succeeds(b)
  BY <1>1, BreakerMoves DEF Closed, HalfOpen
<1>3. /\ states'[b] = AfterSuccess(states[b], config[b])
      /\ winRun'[b] = IF winRun[b] < MaxQuota THEN winRun[b] + 1 ELSE winRun[b]
  BY <1>2 DEF Succeeds, RecordSuccess, Commit, TypeOK
<1> QED BY <1>0, <1>2, <1>3, SuccessCounts DEF Succeeds

(* A closed breaker opens only at the end of a run of failures as long as    *)
(* the threshold in force. *)
THEOREM TripCorrect == Spec => TripNeedsRun
<1>1. [Next]_vars => [BreakerNext]_vars
  BY DEF BreakerNext
<1> QED BY <1>1, TripStep, TypeCorrect, CountersCorrect, PTL DEF Spec, TripNeedsRun

(* Short of an operator's reset, a breaker closes only after the number of   *)
(* successes in a row the configuration in force asks for. *)
THEOREM CloseCorrect == Spec => CloseNeedsQuota
<1>1. [Next]_vars => [BreakerNext]_vars
  BY DEF BreakerNext
<1> QED BY <1>1, CloseStep, TypeCorrect, CountersCorrect, PTL DEF Spec, CloseNeedsQuota

-----------------------------------------------------------------------------
(* What the handler learns.                                                 *)

(* The transitions in callers' hands with one end at s are finitely many. *)
LEMMA PendingFinite ==
    ASSUME NEW a, NEW field, NEW s
    PROVE  /\ IsFiniteSet(Pending(a, field, s))
           /\ Cardinality(Pending(a, field, s)) \in Nat
<1>1. Pending(a, field, s) \in SUBSET Caller
  BY DEF Pending
<1> QED BY <1>1, BreakerAssumption, FS_Subset, FS_CardinalityType DEF BreakerAssumption

(* A caller that leaves with a transition adds one to those at either end of *)
(* it, and a caller that leaves without one adds none. *)
LEMMA CommitPends ==
    ASSUME TypeOK, NEW c \in Caller, Free(c), NEW a \in Account,
           NEW r \in AccountState, Commit(c, a, r), NEW b \in Account, NEW s \in CircuitState
    PROVE  LET left == b = a /\ r.state # states[a].state
           IN  /\ Cardinality(Pending(b, "to", s)')
                     = Cardinality(Pending(b, "to", s)) + Is(left /\ s = r.state)
               /\ Cardinality(Pending(b, "from", s)')
                     = Cardinality(Pending(b, "from", s)) + Is(left /\ s = states[a].state)
<1> DEFINE left == b = a /\ r.state # states[a].state
<1>1. \A field : c \notin Pending(b, field, s)
  BY DEF Pending
<1>2. \A field : /\ IsFiniteSet(Pending(b, field, s))
                 /\ Cardinality(Pending(b, field, s)) \in Nat
  BY PendingFinite
<1>3. outbox \in [Caller -> Transition \cup {NoTransition}]
  BY DEF TypeOK
<1>n. /\ Cardinality(Pending(b, "to", s)) \in Nat
      /\ Cardinality(Pending(b, "from", s)) \in Nat
  BY PendingFinite
<1>4. CASE r.state = states[a].state
  <2>1. \A field : Pending(b, field, s)' = Pending(b, field, s)
    BY <1>4 DEF Commit, Pending, Free
  <2>2. /\ Pending(b, "to", s)' = Pending(b, "to", s)
        /\ Pending(b, "from", s)' = Pending(b, "from", s)
    BY <2>1
  <2> QED BY <1>4, <1>n, <2>2 DEF Is
<1>5. CASE r.state # states[a].state
  <2> DEFINE t == [account |-> a, from |-> states[a].state, to |-> r.state]
  <2>1. outbox' = [outbox EXCEPT ![c] = t]
    BY <1>5 DEF Commit
  <2>2. t # NoTransition
    BY <1>5 DEF NoTransition
  <2>3. Pending(b, "to", s)' = IF left /\ s = r.state THEN Pending(b, "to", s) \cup {c}
                               ELSE Pending(b, "to", s)
    BY <1>1, <1>3, <1>5, <2>1, <2>2 DEF Pending, Free
  <2>4. Pending(b, "from", s)' =
           IF left /\ s = states[a].state THEN Pending(b, "from", s) \cup {c}
           ELSE Pending(b, "from", s)
    BY <1>1, <1>3, <1>5, <2>1, <2>2 DEF Pending, Free
  <2>5. \A field : Cardinality(Pending(b, field, s) \cup {c})
                     = Cardinality(Pending(b, field, s)) + 1
    BY <1>1, <1>2, FS_AddElement
  <2> DEFINE Grown(field, end) ==
               Cardinality(Pending(b, field, s)')
                   = Cardinality(Pending(b, field, s)) + Is(left /\ s = end)
  <2>7. Grown("to", r.state)
    <3> HIDE DEF left
    <3>1. CASE left /\ s = r.state
      BY <2>3, <2>5, <3>1 DEF Is
    <3>2. CASE ~(left /\ s = r.state)
      BY <2>3, <3>2, <1>n DEF Is
    <3> QED BY <3>1, <3>2
  <2>8. Grown("from", states[a].state)
    <3> HIDE DEF left
    <3>1. CASE left /\ s = states[a].state
      BY <2>4, <2>5, <3>1 DEF Is
    <3>2. CASE ~(left /\ s = states[a].state)
      BY <2>4, <3>2, <1>n DEF Is
    <3> QED BY <3>1, <3>2
  <2> QED BY <2>7, <2>8
<1> QED BY <1>4, <1>5

(* A caller that has handed its transition over takes it from those at       *)
(* either end. *)
LEMMA HandOverPends ==
    ASSUME TypeOK, NEW c \in Caller, HandOver(c), NEW b \in Account, NEW s \in CircuitState
    PROVE  LET its == b = outbox[c].account
           IN  /\ Cardinality(Pending(b, "to", s)')
                     = Cardinality(Pending(b, "to", s)) - Is(its /\ s = outbox[c].to)
               /\ Cardinality(Pending(b, "from", s)')
                     = Cardinality(Pending(b, "from", s)) - Is(its /\ s = outbox[c].from)
<1> DEFINE its == b = outbox[c].account
<1>1. outbox' = [outbox EXCEPT ![c] = NoTransition] /\ outbox[c] # NoTransition
  BY DEF HandOver, Free
<1>2. outbox \in [Caller -> Transition \cup {NoTransition}]
  BY DEF TypeOK
<1>3. \A field : Pending(b, field, s)' = Pending(b, field, s) \ {c}
  BY <1>1, <1>2 DEF Pending, Free
<1>4. c \in Pending(b, "to", s) <=> its /\ s = outbox[c].to
  BY <1>1 DEF Pending, Free
<1>5. c \in Pending(b, "from", s) <=> its /\ s = outbox[c].from
  BY <1>1 DEF Pending, Free
<1>6. \A field : /\ Cardinality(Pending(b, field, s)) \in Nat
                 /\ Cardinality(Pending(b, field, s) \ {c})
                      = IF c \in Pending(b, field, s)
                        THEN Cardinality(Pending(b, field, s)) - 1
                        ELSE Cardinality(Pending(b, field, s))
  BY PendingFinite, FS_RemoveElement
<1>7. /\ Cardinality(Pending(b, "to", s)')
           = IF c \in Pending(b, "to", s) THEN Cardinality(Pending(b, "to", s)) - 1
             ELSE Cardinality(Pending(b, "to", s))
      /\ Cardinality(Pending(b, "from", s)')
           = IF c \in Pending(b, "from", s) THEN Cardinality(Pending(b, "from", s)) - 1
             ELSE Cardinality(Pending(b, "from", s))
  BY <1>3, <1>6
<1> QED BY <1>4, <1>5, <1>6, <1>7 DEF Is

AddsUp(a, s) ==
    logged[a][s] + Cardinality(Pending(a, "to", s)) - Cardinality(Pending(a, "from", s))
        = Is(states[a].state = s) - Is(s = Closed)

(* A step that moves a breaker leaves a transition with the caller; one that *)
(* takes it from the caller adds it to the history. *)
LEMMA AddUpStep ==
    TypeOK /\ TransitionsAddUp /\ [BreakerNext]_vars => TransitionsAddUp'
<1> SUFFICES ASSUME TypeOK, TransitionsAddUp, [BreakerNext]_vars,
                    NEW b \in Account, b \notin wasReset', NEW s \in CircuitState
             PROVE  AddsUp(b, s)'
  BY DEF TransitionsAddUp, AddsUp
<1>0. /\ states[b] \in AccountState /\ logged[b][s] \in Int
      /\ Cardinality(Pending(b, "to", s)) \in Nat
      /\ Cardinality(Pending(b, "from", s)) \in Nat
      /\ outbox \in [Caller -> Transition \cup {NoTransition}]
  BY PendingFinite DEF TypeOK
<1>a. b \notin wasReset => AddsUp(b, s)
  BY DEF TransitionsAddUp, AddsUp
<1>1. ASSUME NEW c \in Caller, NEW a \in Account, Consult(c, a) \/ Reports(c, a)
      PROVE  AddsUp(b, s)'
  <2>1. PICK r \in AccountState : Free(c) /\ Commit(c, a, r)
    BY <1>1, CommitsSome
  <2>2. UNCHANGED <<logged, wasReset>>
    BY <1>1 DEF Consult, Reports, RecordSuccess, RecordFailure, observed
  <2>3. states'[b] = IF b = a THEN r ELSE states[b]
    BY <2>1 DEF Commit, TypeOK
  <2> DEFINE left == b = a /\ r.state # states[a].state
  <2>4. /\ Cardinality(Pending(b, "to", s)')
             = Cardinality(Pending(b, "to", s)) + Is(left /\ s = r.state)
        /\ Cardinality(Pending(b, "from", s)')
             = Cardinality(Pending(b, "from", s)) + Is(left /\ s = states[a].state)
    BY <2>1, CommitPends
  <2>5. Is(states'[b].state = s) - Is(states[b].state = s)
           = Is(left /\ s = r.state) - Is(left /\ s = states[a].state)
    BY <2>3 DEF Is
  <2>6. /\ Is(left /\ s = r.state) \in Int /\ Is(left /\ s = states[a].state) \in Int
        /\ Is(states'[b].state = s) \in Int /\ Is(states[b].state = s) \in Int
        /\ Is(s = Closed) \in Int
    BY DEF Is
  <2> HIDE DEF left
  <2> QED BY <1>0, <1>a, <2>2, <2>4, <2>5, <2>6 DEF AddsUp
<1>2. ASSUME NEW c \in Caller, HandOver(c) PROVE AddsUp(b, s)'
  <2> DEFINE t == outbox[c]
  <2>1. t \in Transition /\ UNCHANGED <<states, wasReset>>
    BY <1>2, <1>0 DEF HandOver, Free, tracker
  <2> DEFINE its == b = t.account
  <2>2. /\ Cardinality(Pending(b, "to", s)')
             = Cardinality(Pending(b, "to", s)) - Is(its /\ s = t.to)
        /\ Cardinality(Pending(b, "from", s)')
             = Cardinality(Pending(b, "from", s)) - Is(its /\ s = t.from)
    BY <1>2, HandOverPends
  <2>3. logged'[b][s] = logged[b][s] + Is(its /\ s = t.to) - Is(its /\ s = t.from)
    <3>1. logged' = [logged EXCEPT ![t.account] =
                       IF t.account \in wasReset THEN @
                       ELSE [x \in CircuitState |-> @[x] + Is(x = t.to) - Is(x = t.from)]]
      BY <1>2 DEF HandOver
    <3>2. logged \in [Account -> [CircuitState -> Int]] /\ b \notin wasReset
      BY <2>1 DEF TypeOK
    <3>3. CASE its
      BY <3>1, <3>2, <3>3 DEF Is
    <3>4. CASE ~its
      BY <3>1, <3>2, <3>4, <1>0 DEF Is
    <3> QED BY <3>3, <3>4
  <2>4. Is(its /\ s = t.to) \in Int /\ Is(its /\ s = t.from) \in Int /\ AddsUp(b, s)
    BY <1>a, <2>1 DEF Is
  <2>5. Is(states[b].state = s)' = Is(states[b].state = s)
    BY <2>1
  <2>6. Is(states[b].state = s) \in Int /\ Is(s = Closed) \in Int
    BY DEF Is
  <2> HIDE DEF its, t
  <2> QED BY <1>0, <2>2, <2>3, <2>4, <2>5, <2>6 DEF AddsUp
<1>3. ASSUME outbox' = outbox, logged' = logged, states'[b].state = states[b].state,
             b \notin wasReset
      PROVE  AddsUp(b, s)'
  BY <1>3, <1>a DEF AddsUp, Pending, Free
<1>4. ASSUME NEW a \in Account, Reset(a) PROVE AddsUp(b, s)'
  <2>1. b # a /\ b \notin wasReset
    BY <1>4 DEF Reset
  <2> QED BY <1>3, <1>4, <2>1 DEF Reset, TypeOK
<1>5. CASE Tick
  <2>1. states'[b].state = states[b].state
    BY <1>0, <1>5 DEF Tick, Elapse, AccountState
  <2> QED BY <1>3, <1>5, <2>1 DEF Tick, observed
<1>6. CASE UNCHANGED <<states, outbox, observed>>
  BY <1>3, <1>6 DEF observed
<1> QED BY <1>1, <1>2, <1>4, <1>5, <1>6, BreakerSteps

(* No transition has been made yet. *)
LEMMA AddUpInit == Init => TransitionsAddUp
<1> SUFFICES ASSUME Init, NEW a \in Account, NEW s \in CircuitState PROVE AddsUp(a, s)
  BY DEF TransitionsAddUp, AddsUp
<1>1. Pending(a, "to", s) = {} /\ Pending(a, "from", s) = {}
  BY DEF Init, Pending, Free
<1>2. states[a].state = Closed /\ logged[a][s] = 0
  BY DEF Init, Fresh
<1> QED BY <1>1, <1>2, FS_EmptySet DEF AddsUp, Is

(* Whatever callers hold and the handler has received is the whole path of   *)
(* the breaker: no transition is lost, doubled or reported with a wrong end, *)
(* although the handler is called outside the tracker's lock. *)
THEOREM AddUpCorrect == Spec => []TransitionsAddUp
<1>1. [Next]_vars => [BreakerNext]_vars
  BY DEF BreakerNext
<1> QED BY <1>1, AddUpInit, AddUpStep, TypeCorrect, PTL DEF Spec

-----------------------------------------------------------------------------
(* The prober as one more caller.                                           *)

(* What the prober, its surroundings and the requests beside it do to the    *)
(* breakers is a step of the breaker's. *)
LEMMA ProberStepsBreaker == TypeOK /\ [ProberNext]_proberVars => [BreakerNext]_vars
<1> SUFFICES ASSUME TypeOK, [ProberNext]_proberVars PROVE [BreakerNext]_vars
  OBVIOUS
<1> USE ProberAssumption DEF ProberAssumption
<1>1. CASE UNCHANGED proberVars
  BY <1>1 DEF proberVars
<1>2. CASE StartPass \/ EndPass
  BY <1>2 DEF StartPass, EndPass
<1>3. ASSUME NEW a \in Account, Answer(a) \/ Change(a) PROVE UNCHANGED vars
  BY <1>3 DEF Answer, Change
<1>4. ASSUME NEW a \in Account, ApplyGreen(a) \/ ApplyRed(a)
      PROVE  UNCHANGED vars \/ (Reports(prober, a) /\ UNCHANGED request)
  <2>1. Free(prober) /\ UNCHANGED request
    BY <1>4 DEF ApplyGreen, ApplyRed, Applying, Applied
  <2>2. \/ RecordSuccess(prober, a) \/ RecordFailure(prober, a)
        \/ UNCHANGED <<tracker, outbox, observed>>
    BY <1>4 DEF ApplyGreen, ApplyRed
  <2> QED BY <2>1, <2>2 DEF Reports, vars
<1>5. ASSUME NEW c \in Caller, RequestStep(c) \/ HandOver(c) PROVE CallerStep(c)
  BY <1>5 DEF RequestStep, CallerStep
<1>6. CASE Pass
  BY <1>2, <1>3, <1>4, <1>5, <1>6 DEF Pass, BreakerNext, Next
<1> QED BY <1>1, <1>3, <1>5, <1>6 DEF ProberNext, BreakerNext, Next

BreakerInv == TypeOK /\ CountersMatchHistory /\ TransitionsAddUp

(* The breaker's types, counters and history stay right beside the prober. *)
LEMMA ProberKeepsInv == BreakerInv /\ [ProberNext]_proberVars => BreakerInv'
BY ProberStepsBreaker, TypeStep, CountersStep, AddUpStep DEF BreakerInv

(* The prober's reports break nothing the breaker promises: with it as one   *)
(* more caller the counters still agree with what was reported, and the      *)
(* transitions handed over still add up. *)
THEOREM BreakerUnharmed == ProberSpec => [](CountersMatchHistory /\ TransitionsAddUp)
<1>1. ProberInit => BreakerInv
  BY TypeInit, CountersInit, AddUpInit DEF ProberInit, BreakerInv
<1>2. BreakerInv => CountersMatchHistory /\ TransitionsAddUp
  BY DEF BreakerInv
<1> QED BY <1>1, <1>2, ProberKeepsInv, PTL DEF ProberSpec

(* Nor does it open a breaker before a run of failures as long as the        *)
(* threshold, counting its own verdicts among the requests', or close one    *)
(* before the quota of successes. *)
THEOREM ThresholdsRespected == ProberSpec => TripNeedsRun /\ CloseNeedsQuota
<1>1. ProberInit => BreakerInv
  BY TypeInit, CountersInit, AddUpInit DEF ProberInit, BreakerInv
<1>2. BreakerInv /\ [ProberNext]_proberVars =>
         /\ [\A a \in Account : TripsAtThreshold(a)]_vars
         /\ [\A a \in Account : ClosesAtQuota(a)]_vars
  BY ProberStepsBreaker, TripStep, CloseStep DEF BreakerInv
<1> QED BY <1>1, <1>2, ProberKeepsInv, PTL DEF ProberSpec, TripNeedsRun, CloseNeedsQuota

-----------------------------------------------------------------------------
(* The prober's own state.                                                  *)

(* A saturating counter of the prober's stays in its range. *)
LEMMA UpToType ==
    ASSUME NEW bound \in Nat, NEW n \in 0..bound
    PROVE  UpTo(n, bound) \in 0..bound
BY DEF UpTo

(* A step of the breaker alone leaves the prober's state as it is, and a step *)
(* of the prober's is one of these. *)
LEMMA ProberSteps ==
    ASSUME [ProberNext]_proberVars
    PROVE  \/ StartPass \/ EndPass
           \/ \E a \in Account : Answer(a) \/ ApplyGreen(a) \/ ApplyRed(a)
           \/ \E a \in Account : Change(a)
           \/ UNCHANGED <<probes, surroundings>>
BY DEF ProberNext, Pass, RequestStep, proberVars

(* The prober's variables keep their types, beside the breaker's. *)
LEMMA ProberTypeStep == ProberTypeOK /\ [ProberNext]_proberVars => ProberTypeOK'
<1> SUFFICES ASSUME ProberTypeOK, [ProberNext]_proberVars PROVE ProberTypeOK'
  OBVIOUS
<1> USE ProberAssumption DEF ProberAssumption, Counts, NoCounts, Upstream
<1>0. TypeOK'
  BY ProberStepsBreaker, TypeStep DEF ProberTypeOK
<1>1. CASE StartPass \/ EndPass
  BY <1>0, <1>1 DEF StartPass, EndPass, Applying, surroundings, ProberTypeOK
<1>2. ASSUME NEW a \in Account, Answer(a) PROVE ProberTypeOK'
  <2>1. Verdict(a) \in {"green", "none", "red"}
    BY DEF Verdict, ProberTypeOK
  <2>2. UpTo(redsSeen[a], RedThreshold) \in 0..RedThreshold
    BY UpToType DEF ProberTypeOK
  <2>3. redsSeen' \in [Account -> 0..RedThreshold]
    BY <1>2, <2>1, <2>2 DEF Answer, ProberTypeOK
  <2>4. results' \in [Account -> {"none", "green", "red"}]
    BY <1>2, <2>1 DEF Answer, ProberTypeOK
  <2> QED BY <1>0, <1>2, <2>3, <2>4 DEF Answer, surroundings, ProberTypeOK
<1>3. ASSUME NEW a \in Account, ApplyGreen(a) \/ ApplyRed(a) PROVE ProberTypeOK'
  <2>1. /\ UpTo(probeState[a].reds, RedThreshold) \in 0..RedThreshold
        /\ UpTo(probeState[a].greens, GreenThreshold) \in 0..GreenThreshold
    BY UpToType DEF ProberTypeOK
  <2>2. probeState' \in [Account -> Counts]
    BY <1>3, <2>1 DEF ApplyGreen, ApplyRed, ProberTypeOK
  <2>3. Applied(a)
    BY <1>3 DEF ApplyGreen, ApplyRed
  <2> QED BY <1>0, <2>2, <2>3 DEF Applied, surroundings, ProberTypeOK
<1>4. ASSUME NEW a \in Account, Change(a) PROVE ProberTypeOK'
  BY <1>0, <1>4 DEF Change, probes, ProberTypeOK
<1>5. CASE UNCHANGED <<probes, surroundings>>
  BY <1>0, <1>5 DEF probes, surroundings, ProberTypeOK
<1> QED BY <1>1, <1>2, <1>3, <1>4, <1>5, ProberSteps

(* Initially too. *)
LEMMA ProberTypeInit == ProberInit => ProberTypeOK
BY TypeInit, ProberAssumption
DEF ProberAssumption, ProberInit, ProberTypeOK, Counts, NoCounts, Upstream

(* The prober and the breakers it reports to keep their types. *)
THEOREM ProberTypeCorrect == ProberSpec => []ProberTypeOK
BY ProberTypeInit, ProberTypeStep, PTL DEF ProberSpec

-----------------------------------------------------------------------------
(* What ejects an account.                                                  *)

(* The prober's run of reds, with the verdict it has still to apply, is no   *)
(* longer than the run of tests that failed; a green verdict still to be     *)
(* applied will end the run, so nothing is claimed until then.  A verdict is *)
(* applied before the next test of the account can come in, since a pass     *)
(* waits for its tests and starts none while verdicts are left. *)
RedsInv ==
    /\ \A a \in Account :
          /\ results[a] = "none" => probeState[a].reds <= redsSeen[a]
          /\ results[a] = "red" => UpTo(probeState[a].reds, RedThreshold) <= redsSeen[a]
    /\ \A a \in awaiting : results[a] = "none"
    /\ pass = "asleep" => awaiting = {} /\ \A a \in Account : results[a] = "none"

(* Every step keeps RedsInv. *)
LEMMA RedsStep == ProberTypeOK /\ RedsInv /\ [ProberNext]_proberVars => RedsInv'
<1> SUFFICES ASSUME ProberTypeOK, RedsInv, [ProberNext]_proberVars PROVE RedsInv'
  OBVIOUS
<1> USE ProberAssumption DEF ProberAssumption
<1>t. \A a \in Account : /\ probeState[a] \in Counts /\ redsSeen[a] \in 0..RedThreshold
                         /\ results[a] \in {"none", "green", "red"}
  BY DEF ProberTypeOK
<1>1. CASE StartPass
  BY <1>1, <1>t DEF StartPass, RedsInv
<1>2. CASE EndPass
  <2>1. \A a \in Account : results[a] = "none" /\ probeState[a].reds <= redsSeen[a]
    BY <1>2 DEF EndPass, RedsInv
  <2>2. \A a \in Account : probeState'[a].reds <= redsSeen[a]
    BY <1>2, <1>t, <2>1 DEF EndPass, NoCounts
  <2> QED BY <1>2, <2>1, <2>2 DEF EndPass, Applying, RedsInv
<1>3. ASSUME NEW a \in Account, Answer(a) PROVE RedsInv'
  <2>1. results[a] = "none" /\ probeState[a].reds <= redsSeen[a] /\ pass # "asleep"
    BY <1>3 DEF Answer, RedsInv
  <2>2. Verdict(a) \in {"green", "none", "red"}
    BY DEF Verdict, Upstream, ProberTypeOK
  <2>3. /\ results'[a] = Verdict(a) /\ probeState' = probeState /\ pass' = pass
        /\ awaiting' = awaiting \ {a}
        /\ redsSeen'[a] = CASE Verdict(a) = "red"   -> UpTo(redsSeen[a], RedThreshold)
                            [] Verdict(a) = "green" -> 0
                            [] OTHER                -> redsSeen[a]
        /\ \A b \in Account \ {a} : results'[b] = results[b] /\ redsSeen'[b] = redsSeen[b]
    BY <1>3, <2>2 DEF Answer, ProberTypeOK
  <2>4. UpTo(probeState[a].reds, RedThreshold) <= UpTo(redsSeen[a], RedThreshold)
    BY <1>t, <2>1 DEF UpTo, Counts
  <2> QED BY <2>1, <2>2, <2>3, <2>4 DEF RedsInv, ProberTypeOK
<1>4. ASSUME NEW a \in Account, ApplyGreen(a) \/ ApplyRed(a) PROVE RedsInv'
  <2>1. Applying /\ Applied(a)
    BY <1>4 DEF ApplyGreen, ApplyRed
  <2>2. probeState'[a].reds <= redsSeen[a]
    BY <1>4, <1>t DEF ApplyGreen, ApplyRed, ProberTypeOK, RedsInv
  <2>3. \A b \in Account \ {a} : probeState'[b] = probeState[b]
    BY <1>4 DEF ApplyGreen, ApplyRed, ProberTypeOK
  <2> QED BY <2>1, <2>2, <2>3 DEF Applying, Applied, RedsInv, ProberTypeOK
<1>5. ASSUME NEW a \in Account, Change(a) PROVE UNCHANGED probes
  BY <1>5 DEF Change
<1>6. ASSUME UNCHANGED probes PROVE RedsInv'
  BY <1>6 DEF probes, RedsInv
<1> QED BY <1>1, <1>2, <1>3, <1>4, <1>5, <1>6, ProberSteps

(* Initially there are no reds. *)
LEMMA RedsInit == ProberInit => RedsInv
BY DEF ProberInit, RedsInv, NoCounts

(* A step in which the prober ejects an account applies a red verdict that   *)
(* makes the run of reds long enough. *)
LEMMA EjectApplies ==
    ASSUME ProberTypeOK, [ProberNext]_proberVars, NEW b \in Account, Ejects(b)
    PROVE  ApplyRed(b) /\ UpTo(probeState[b].reds, RedThreshold) >= RedThreshold
<1> USE ProberAssumption DEF ProberAssumption
<1>0. /\ Free(prober) /\ outbox'[prober] # outbox[prober]
      /\ states[b].state # Open /\ states'[b] # states[b] /\ states'[b].state = Open
      /\ TypeOK
  BY DEF Ejects, Free, ProberTypeOK
<1>1. ~ UNCHANGED vars
  BY <1>0 DEF vars
<1>2. ASSUME NEW c \in Caller \ {prober}, RequestStep(c) PROVE FALSE
  <2>1. outbox'[prober] = outbox[prober]
    BY <1>0, <1>2 DEF RequestStep, Route, Overlook, Consult, Succeed, RecordSuccess,
       SetCooldown, Fail, RecordFailure, Abstain, HandOver, Commit, TypeOK
  <2> QED BY <1>0, <2>1
<1>3. ASSUME NEW a \in Account, Operator(a) PROVE FALSE
  BY <1>0, <1>3 DEF Operator, Reset, Reconfigure
<1>4. ~ Tick
  BY <1>0 DEF Tick
<1>5. ~ HandOver(prober)
  BY <1>0 DEF HandOver
<1>6. ASSUME NEW a \in Account, ApplyGreen(a) PROVE FALSE
  <2>1. RecordSuccess(prober, a)
    BY <1>0, <1>6 DEF ApplyGreen
  <2>2. a = b /\ states'[b] = AfterSuccess(states[b], config[b])
    BY <1>0, <2>1 DEF RecordSuccess, Commit, TypeOK
  <2>3. states[b] \in AccountState
    BY <1>0 DEF TypeOK
  <2>4. AfterSuccess(states[b], config[b]).state # Open
    BY <1>0, <2>3 DEF AfterSuccess, TrialWon, Fresh, OnTrial, AccountState,
                      Closed, Open, HalfOpen
  <2> QED BY <1>0, <2>2, <2>4
<1>7. ASSUME NEW a \in Account, ApplyRed(a)
      PROVE  a = b /\ UpTo(probeState[a].reds, RedThreshold) >= RedThreshold
  <2>1. /\ RecordFailure(prober, a)
        /\ UpTo(probeState[a].reds, RedThreshold) >= RedThreshold
    BY <1>0, <1>7 DEF ApplyRed
  <2> QED BY <1>0, <2>1 DEF RecordFailure, Commit, TypeOK
<1>8. ~ (StartPass \/ EndPass \/ UNCHANGED proberVars)
      /\ \A a \in Account : ~ Answer(a) /\ ~ Change(a)
  BY <1>1 DEF StartPass, EndPass, Answer, Change, proberVars
<1> QED BY <1>2, <1>3, <1>4, <1>5, <1>6, <1>7, <1>8 DEF ProberNext, Pass

(* The prober ejects an account only after RedThreshold tests in a row have  *)
(* failed, none of them undone by one that passed. *)
THEOREM EjectCorrect == ProberSpec => EjectNeedsReds
<1>1. ProberTypeOK /\ RedsInv /\ [ProberNext]_proberVars =>
         [\A a \in Account : Ejects(a) => redsSeen[a] >= RedThreshold]_proberVars
  <2> SUFFICES ASSUME ProberTypeOK, RedsInv, [ProberNext]_proberVars,
                      NEW a \in Account, Ejects(a)
               PROVE  redsSeen[a] >= RedThreshold
    OBVIOUS
  <2>1. results[a] = "red"
    BY EjectApplies DEF ApplyRed
  <2>2. UpTo(probeState[a].reds, RedThreshold) <= redsSeen[a]
    BY <2>1 DEF RedsInv
  <2>3. UpTo(probeState[a].reds, RedThreshold) \in 0..RedThreshold
    BY UpToType, ProberAssumption DEF ProberAssumption, ProberTypeOK, Counts
  <2>4. redsSeen[a] \in 0..RedThreshold
    BY DEF ProberTypeOK
  <2> QED BY <2>2, <2>3, <2>4, EjectApplies, ProberAssumption DEF ProberAssumption
<1> QED BY <1>1, ProberTypeInit, ProberTypeStep, RedsInit, RedsStep, PTL
        DEF ProberSpec, EjectNeedsReds
=============================================================================
