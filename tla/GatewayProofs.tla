---------------------------- MODULE GatewayProofs ----------------------------
(***************************************************************************)
(* Proofs about Gateway, for any accounts, caps, priorities, sessions and  *)
(* configurations, and any finite number of concurrent requests.           *)
(***************************************************************************)
EXTENDS Gateway, FiniteSetTheorems, WellFoundedInduction, TLAPS

(* A request works with an account between the resolver and the next        *)
(* failover, and holds that account's slot from Acquire on.                 *)
Serving(r) == pc[r] \in Calling \cup {"refresh", "settle", "write"}
Working(r) == pc[r] \in {"fresh", "slot"} \/ Serving(r)

(* What it works with is an account it has not given up, and every slot it  *)
(* holds is of an account it has tried or is working with.                  *)
SlotInv(r) ==
    /\ Working(r) => account[r] \in Account /\ try[r].attempt < MaxAttempts
    /\ pc[r] \in {"fresh", "slot"} => account[r] \notin try[r].attempted
    /\ held[r] \subseteq try[r].attempted \cup (IF Serving(r) THEN {account[r]} ELSE {})
    /\ Serving(r) => account[r] \in held[r]
    /\ pc[r] = "done" => held[r] = {}

(* The refresh went to an account the request works with or has given up,   *)
(* and an answer that is settled on is final; see OnlyFinalAnswers.         *)
AnswerInv(r) ==
    /\ try[r].authRefreshed \in
          {None} \cup try[r].attempted \cup (IF Serving(r) THEN {account[r]} ELSE {})
    /\ pc[r] \in {"refresh", "redispatch"} => try[r].authRefreshed # None
    /\ pc[r] \in {"settle", "rectify", "write"} => try[r].status \in Answer
    /\ pc[r] \in {"settle", "rectify"} \/ (At(r, "write") /\ ~try[r].signatureRectified) =>
          /\ try[r].status \notin Retriable
          /\ try[r].status = "401" /\ account[r] \in OAuth => try[r].authRefreshed # None

(* The passes through the endpoints of an account so far, the present one   *)
(* included, by where the request is in which attempt.                      *)
Spent(r) ==
    try[r].attempt + (IF Serving(r) THEN 1 ELSE 0)
        + (IF try[r].authRefreshed # None /\ pc[r] # "refresh" THEN 1 ELSE 0)
        + (IF Rectifies /\ pc[r] \in {"rectify", "write"} THEN 1 ELSE 0)

Budget == MaxAttempts + 1 + (IF Rectifies THEN 1 ELSE 0)

\* As many passes cost at most so many calls.
Times(n) == n * MaxEndpoints

\* What the present pass may still cost.
Unspent(r) == IF pc[r] \in Calling THEN MaxEndpoints - try[r].endpoint ELSE 0

CallInv(r) ==
    /\ pc[r] \in Calling => try[r].endpoint <= Endpoints[account[r]]
    /\ calls[r] + Unspent(r) <= Times(IF pc[r] = "done" THEN Budget ELSE Spent(r))

(* Between attempts, a request that has called has a failure to report.     *)
RowInv(r) ==
    /\ pc[r] # "done" /\ ~Serving(r) /\ calls[r] > 0 => try[r].noted
    /\ pc[r] # "done" => done[r] = "open"
    /\ pc[r] = "done" => done[r] # "open" /\ (calls[r] > 0 => done[r] = "recorded")

Local(r) == SlotInv(r) /\ AnswerInv(r) /\ CallInv(r) /\ RowInv(r)

LocalInv == TypeOK /\ \A r \in Request : Local(r)

(* One pass more costs MaxEndpoints calls more. *)
LEMMA TimesNext ==
    ASSUME NEW n \in Nat
    PROVE  Times(n) \in Nat /\ Times(n + 1) = Times(n) + MaxEndpoints
<1>1. MaxEndpoints \in Nat
  BY GatewayAssumption DEF GatewayAssumption
<1> QED BY <1>1 DEF Times

(* Fewer passes cost no more calls. *)
LEMMA TimesMonotonic ==
    ASSUME NEW m \in Nat, NEW n \in Nat, m <= n
    PROVE  Times(m) <= Times(n)
<1>1. MaxEndpoints \in Nat /\ n - m \in Nat
  BY GatewayAssumption DEF GatewayAssumption
<1>2. n * MaxEndpoints = m * MaxEndpoints + (n - m) * MaxEndpoints
  BY <1>1
<1>3. (n - m) * MaxEndpoints \in Nat /\ m * MaxEndpoints \in Nat
  BY <1>1
<1> QED BY <1>2, <1>3 DEF Times

(* The passes and their budget are numbers. *)
LEMMA SpentType ==
    ASSUME NEW r \in Request, try[r] \in Try
    PROVE  Spent(r) \in Nat /\ Budget \in Nat
<1>1. try[r].attempt \in Nat /\ MaxAttempts \in Nat
  BY GatewayAssumption DEF GatewayAssumption, Try
<1> QED BY <1>1 DEF Spent, Budget

-----------------------------------------------------------------------------
(* Types.                                                                   *)

(* A failover leaves well-formed locals. *)
LEMMA FailoverType ==
    ASSUME LocalInv, NEW r \in Request, NEW t \in Try, t.attempt < MaxAttempts,
           account[r] \in Account, Failover(r, t)
    PROVE  /\ try' \in [Request -> Try]
           /\ pc' \in [Request -> Place]
           /\ account' \in [Request -> Account \cup {None}]
<1>1. NextAttempt(t) \in Try
  <2>1. 1 \in 1..MaxEndpoints
    BY GatewayAssumption DEF GatewayAssumption
  <2>2. t.attempt + 1 \in 0..MaxAttempts
    BY GatewayAssumption DEF GatewayAssumption, Try
  <2> QED BY <2>1, <2>2 DEF Try, NextAttempt
<1>2. Excluding(NextAttempt(t), account[r]) \in Try
  BY <1>1 DEF Try, Excluding
<1>3. try \in [Request -> Try] /\ pc \in [Request -> Place] /\ account \in [Request -> Account \cup {None}]
  BY DEF LocalInv, TypeOK
<1> QED BY <1>1, <1>2, <1>3 DEF Failover, Go, Place

(* A request starts with well-formed locals. *)
LEMMA FreshTryType == FreshTry \in Try
BY GatewayAssumption DEF GatewayAssumption, FreshTry, Try

(* The deferred releases and the answer keep the types. *)
LEMMA ReturnType ==
    ASSUME TypeOK, NEW r \in Request, NEW recorded \in BOOLEAN, Return(r, recorded),
           states' \in [Account -> AccountState]
    PROVE  TypeOK'
<1>1. (IF recorded THEN "recorded" ELSE "unrecorded") \in Ending
  BY DEF Ending
<1>2. done' \in [Request -> Ending]
  BY <1>1 DEF TypeOK, Return
<1>3. inflight' \in [Account -> Nat]
  BY DEF TypeOK, Return
<1>4. held' \in [Request -> SUBSET Account]
  BY DEF TypeOK, Return
<1>5. pc' \in [Request -> Place]
  BY DEF TypeOK, Return, Over, Go, Place
<1>6. account' \in [Request -> Account \cup {None}]
  BY DEF TypeOK, Return, Over
<1>7. try' \in [Request -> Try]
  BY FreshTryType DEF TypeOK, Return, Over
<1>8. gone' \subseteq Request
  BY DEF TypeOK, Return, Over
<1> QED BY <1>2, <1>3, <1>4, <1>5, <1>6, <1>7, <1>8 DEF TypeOK, Return

(* The tracker's methods leave a well-formed record behind.                 *)
LEMMA TrackerType ==
    ASSUME NEW s \in AccountState, NEW a \in Account
    PROVE  /\ \A cool : AfterIsAvailable(s, cool, AccountConfig[a]) \in AccountState
           /\ AfterSuccess(s, AccountConfig[a]) \in AccountState
           /\ AfterFailure(s, AccountConfig[a]) \in AccountState
           /\ Elapse(s) \in AccountState
<1> DEFINE cfg == AccountConfig[a]
<1> USE TrackerAssumption DEF TrackerAssumption, AccountState, CircuitState, Closed, Open, HalfOpen
<1>1. cfg \in Config
  BY GatewayAssumption DEF GatewayAssumption
<1> HIDE DEF cfg
<1>2. /\ TrialWon(s, cfg) \in AccountState
      /\ [s EXCEPT !.failureCount = 0] \in AccountState
      /\ \A cool : AfterIsAvailable(s, cool, cfg) \in AccountState
      /\ Elapse(s) \in AccountState
  BY <1>1 DEF TrialWon, AfterIsAvailable, OnTrial, Fresh, Elapse, Config
<1>3. Count(s.failureCount) \in 0..FailureCap
  BY DEF Count
<1>4. /\ Trip(s, cfg) \in AccountState
      /\ [s EXCEPT !.failureCount = Count(@)] \in AccountState
  BY <1>1, <1>3 DEF Trip, Config
<1>5. AfterSuccess(s, cfg) \in AccountState /\ AfterFailure(s, cfg) \in AccountState
  BY <1>2, <1>4 DEF AfterSuccess, AfterFailure
<1> QED BY <1>2, <1>5 DEF cfg

(* Every consultation of the breaker keeps its records well-formed. *)
LEMMA ConsultedType ==
    ASSUME TypeOK, NEW as, Consulted(as) PROVE states' \in [Account -> AccountState]
<1>1. \A a \in Account :
        AfterIsAvailable(states[a], cooldowns[a], AccountConfig[a]) \in AccountState
  BY TrackerType DEF TypeOK
<1> QED BY <1>1 DEF Consulted, TypeOK

(* So does every failure. *)
LEMMA RecordFailureType ==
    ASSUME TypeOK, NEW a \in Account, RecordFailure(a)
    PROVE  states' \in [Account -> AccountState]
<1>1. AfterFailure(states[a], AccountConfig[a]) \in AccountState
  BY TrackerType DEF TypeOK
<1> QED BY <1>1 DEF RecordFailure, TypeOK

(* What a sticky session or the gathered candidates offer is an account the *)
(* request has not tried. *)
LEMMA ResolvedIsNew ==
    ASSUME TypeOK, NEW r \in Request, NEW a,
           (a = Sticky(r) /\ a # None) \/ a \in TopBucket(Gathered(r))
    PROVE  a \in Account /\ a \notin try[r].attempted
<1>1. CASE a = Sticky(r) /\ a # None
  BY <1>1, GatewayAssumption DEF GatewayAssumption, Sticky, TypeOK
<1>2. CASE a \in TopBucket(Gathered(r))
  BY <1>2 DEF TopBucket, Gathered
<1> QED BY <1>1, <1>2

(* The resolver keeps the types. *)
LEMMA ResolveType ==
    ASSUME TypeOK, NEW r \in Request, ResolveSticky(r) \/ ResolveFresh(r)
    PROVE  TypeOK'
<1>1. PICK a, as :
        /\ Chosen(r, a) /\ Consulted(as)
        /\ (a = Sticky(r) /\ a # None) \/ a \in TopBucket(Gathered(r))
        /\ bound' = bound \/ bound' = [bound EXCEPT ![SessionKey[r]] = a]
  <2>1. CASE ResolveSticky(r)
    BY <2>1, Zenon DEF ResolveSticky
  <2>2. CASE ResolveFresh(r)
    <3>1. PICK a \in TopBucket(Gathered(r)) :
            /\ Chosen(r, a)
            /\ bound' = IF SessionKey[r] # NoSession /\ try[r].attempted = {}
                        THEN [bound EXCEPT ![SessionKey[r]] = a] ELSE bound
      BY <2>2, Zenon DEF ResolveFresh
    <3>2. Consulted(Account \ try[r].attempted)
      BY <2>2 DEF ResolveFresh
    <3> QED BY <3>1, <3>2
  <2> QED BY <2>1, <2>2
<1>2. states' \in [Account -> AccountState]
  BY <1>1, ConsultedType
<1>3. a \in Account
  BY <1>1, ResolvedIsNew
<1>4. bound' \in [Session -> Account \cup {None}]
  BY <1>1, <1>3 DEF TypeOK
<1>5. account' \in [Request -> Account \cup {None}]
  BY <1>1, <1>3 DEF TypeOK, Chosen
<1>6. pc' \in [Request -> Place]
  BY <1>1 DEF TypeOK, Chosen, Go, Place
<1>7. UNCHANGED <<cooldowns, barred, inflight, held, try, done, gone, calls>>
  BY <1>1 DEF Chosen, slots
<1> QED BY <1>2, <1>4, <1>5, <1>6, <1>7 DEF TypeOK

(* The steps that fail over, each with the locals it starts from. *)
FailsOver(r) ==
    \/ EnsureFreshFails(r) \/ AcquireFails(r) \/ TransportFails(r) \/ ForceRefreshFails(r)
    \/ \E s \in Answer : RetriableAnswer(r, s)

FailsWith(r, t) ==
    /\ Failover(r, t)
    /\ t.attempt = try[r].attempt
    /\ t.attempted = try[r].attempted
    /\ t.authRefreshed = try[r].authRefreshed
    /\ t.noted \/ (t.noted = try[r].noted /\ ~Serving(r))

(* A failover starts from the request's locals, with a note of what failed; *)
(* only a lost race for a slot leaves none. *)
LEMMA FailoverFrom ==
    ASSUME LocalInv, NEW r \in Request, FailsOver(r)
    PROVE  /\ Working(r) /\ account[r] \in Account /\ pc[r] \notin {"rectify", "write"}
           /\ \E t \in Try : FailsWith(r, t)
<1>1. Working(r) /\ account[r] \in Account /\ pc[r] \notin {"rectify", "write"}
  <2>1. Working(r) /\ pc[r] \notin {"rectify", "write"}
    BY DEF FailsOver, EnsureFreshFails, AcquireFails, TransportFails, ForceRefreshFails,
           RetriableAnswer, At, Working, Serving, Calling
  <2> QED BY <2>1 DEF LocalInv, Local, SlotInv
<1>2. try[r] \in Try
  BY DEF LocalInv, TypeOK
<1>3. CASE AcquireFails(r)
  <2>1. Failover(r, try[r]) /\ ~Serving(r)
    BY <1>3 DEF AcquireFails, At, Serving, Calling
  <2> QED BY <1>1, <1>2, <2>1 DEF FailsWith
<1>4. CASE ~AcquireFails(r)
  <2>1. Failover(r, Failed(r))
    BY <1>4 DEF FailsOver, EnsureFreshFails, TransportFails, ForceRefreshFails, RetriableAnswer
  <2>2. /\ Failed(r) \in Try
        /\ Failed(r).attempt = try[r].attempt
        /\ Failed(r).attempted = try[r].attempted
        /\ Failed(r).authRefreshed = try[r].authRefreshed
        /\ Failed(r).noted
    BY <1>2 DEF Failed, Try
  <2> QED BY <1>1, <2>1, <2>2 DEF FailsWith
<1> QED BY <1>3, <1>4

(* Failing over keeps the types. *)
LEMMA FailsOverType ==
    ASSUME LocalInv, NEW r \in Request, FailsOver(r) PROVE TypeOK'
<1>0. account[r] \in Account /\ Working(r) /\ pc[r] \notin {"rectify", "write"}
  BY FailoverFrom
<1>1. PICK t \in Try : FailsWith(r, t)
  BY FailoverFrom
<1>2. t.attempt < MaxAttempts
  BY <1>0, <1>1 DEF LocalInv, Local, SlotInv, FailsWith
<1>3. /\ try' \in [Request -> Try]
      /\ pc' \in [Request -> Place]
      /\ account' \in [Request -> Account \cup {None}]
  BY <1>0, <1>1, <1>2, FailoverType DEF FailsWith
<1>4. states' \in [Account -> AccountState]
  <2>1. RecordFailure(account[r]) \/ UNCHANGED states
    BY DEF FailsOver, EnsureFreshFails, AcquireFails, TransportFails, ForceRefreshFails,
           RetriableAnswer, tracker
  <2> QED BY <1>0, <2>1, RecordFailureType DEF LocalInv, TypeOK
<1>5. cooldowns' \in [Account -> 0..Cooldown]
  <2>1. cooldowns' = cooldowns \/ cooldowns' = [cooldowns EXCEPT ![account[r]] = Cooldown]
    BY DEF FailsOver, EnsureFreshFails, AcquireFails, TransportFails, ForceRefreshFails,
           RetriableAnswer, tracker
  <2>2. cooldowns \in [Account -> 0..Cooldown] /\ Cooldown \in 0..Cooldown
    BY GatewayAssumption DEF GatewayAssumption, LocalInv, TypeOK
  <2> QED BY <2>1, <2>2
<1>6. UNCHANGED <<barred, bound, inflight, held, done, gone, calls>>
  BY <1>1 DEF FailsWith, Failover, world, slots
<1> QED BY <1>3, <1>4, <1>5, <1>6 DEF TypeOK, LocalInv

(* The steps that go on with the account. *)
GoesOn(r) ==
    \/ EnsureFresh(r) \/ Acquire(r) \/ ForceRefresh(r) \/ Rectify(r) \/ Commit(r)
    \/ Unauthorized(r) \/ RectifiedFails(r)
    \/ \E s \in Answer : SettledAnswer(r, s) \/ RectifiedAnswer(r, s)

(* Going on keeps the types. *)
LEMMA GoesOnType ==
    ASSUME LocalInv, NEW r \in Request, GoesOn(r) PROVE TypeOK'
<1> USE DEF GoesOn, EnsureFresh, Acquire, ForceRefresh, Rectify, Commit, Unauthorized,
            RectifiedFails, SettledAnswer, RectifiedAnswer, Call, Go, At, LocalInv
<1>1. try' \in [Request -> Try]
  <2>1. try[r] \in Try
    BY DEF TypeOK
  <2>2. [try[r] EXCEPT !.authRefreshed = account[r]] \in Try
    BY <2>1 DEF Try, TypeOK
  <2>5. [try[r] EXCEPT !.endpoint = 1] \in Try
    BY <2>1, GatewayAssumption DEF GatewayAssumption, Try
  <2>3. \A s \in Answer : /\ [try[r] EXCEPT !.status = s] \in Try
                          /\ AnsweredWith(try[r], s) \in Try
    BY <2>1 DEF Try, AnsweredWith
  <2>4. \A s \in Answer : Rectified(AnsweredWith(try[r], s)) \in Try
    BY <2>3 DEF Try, Rectified
  <2> QED BY <2>2, <2>3, <2>4, <2>5 DEF TypeOK
<1>2. pc' \in [Request -> Place]
  BY DEF TypeOK, Place
<1>3. calls' \in [Request -> Nat]
  BY DEF TypeOK
<1>4. inflight' \in [Account -> Nat] /\ held' \in [Request -> SUBSET Account]
  <2>1. CASE Acquire(r)
    <3>1. account[r] \in Account
      BY <2>1 DEF Local, SlotInv, Working
    <3>2. /\ inflight' = [inflight EXCEPT ![account[r]] = @ + 1]
          /\ held' = [held EXCEPT ![r] = @ \cup {account[r]}]
      BY <2>1
    <3> QED BY <3>1, <3>2 DEF TypeOK
  <2>2. CASE UNCHANGED slots
    BY <2>2 DEF slots, TypeOK
  <2> QED BY <2>1, <2>2
<1>5. UNCHANGED <<tracker, world, account, done, gone>>
  BY DEF tracker, world
<1> QED BY <1>1, <1>2, <1>3, <1>4, <1>5 DEF TypeOK, tracker, world

(* The next endpoint of the account is one of its endpoints. *)
LEMMA NextEndpointIs ==
    ASSUME LocalInv, NEW r \in Request, NextEndpoint(r)
    PROVE  /\ Serving(r) /\ pc[r] \in Calling /\ account[r] \in Account
           /\ try[r].endpoint + 1 <= Endpoints[account[r]]
           /\ Endpoints[account[r]] \in Nat /\ Endpoints[account[r]] <= MaxEndpoints
           /\ try' = [try EXCEPT ![r].endpoint = @ + 1]
           /\ try'[r] = [try[r] EXCEPT !.endpoint = @ + 1]
           /\ try[r].endpoint \in Nat
<1>1. try \in [Request -> Try] /\ try[r] \in Try
  BY DEF LocalInv, TypeOK
<1>2. try[r].endpoint \in 1..MaxEndpoints /\ MaxEndpoints \in Nat
  BY <1>1, GatewayAssumption DEF GatewayAssumption, Try
<1>3. pc[r] \in Calling /\ Serving(r) /\ try[r].endpoint # Endpoints[account[r]]
  BY DEF NextEndpoint, Last, Serving
<1>4. account[r] \in Account /\ try[r].endpoint <= Endpoints[account[r]]
  BY <1>3 DEF LocalInv, Local, SlotInv, CallInv, Working
<1>5. Endpoints[account[r]] \in 1..MaxEndpoints
  BY <1>4, GatewayAssumption DEF GatewayAssumption
<1>6. try' = [try EXCEPT ![r].endpoint = @ + 1]
  BY DEF NextEndpoint
<1>7. try'[r] = [try[r] EXCEPT !.endpoint = @ + 1]
  BY <1>1, <1>6
<1> QED BY <1>2, <1>3, <1>4, <1>5, <1>6, <1>7

(* So it keeps the types. *)
LEMMA NextEndpointType ==
    ASSUME LocalInv, NEW r \in Request, NextEndpoint(r) PROVE TypeOK'
<1>1. [try[r] EXCEPT !.endpoint = @ + 1] \in Try
  <2>1. try[r] \in Try /\ MaxEndpoints \in Nat
    BY GatewayAssumption DEF GatewayAssumption, LocalInv, TypeOK
  <2>3. /\ try[r].endpoint + 1 <= Endpoints[account[r]] /\ try[r].endpoint \in Nat
        /\ Endpoints[account[r]] \in Nat /\ Endpoints[account[r]] <= MaxEndpoints
    BY NextEndpointIs
  <2>2. try[r].endpoint + 1 \in 1..MaxEndpoints
    BY <2>1, <2>3
  <2> QED BY <2>1, <2>2 DEF Try
<1>2. try' \in [Request -> Try]
  BY <1>1, NextEndpointIs DEF LocalInv, TypeOK
<1>3. calls' \in [Request -> Nat]
  BY DEF NextEndpoint, LocalInv, TypeOK
<1>4. UNCHANGED <<tracker, world, slots, pc, account, done, gone>>
  BY DEF NextEndpoint
<1> QED BY <1>2, <1>3, <1>4 DEF LocalInv, TypeOK, tracker, world, slots

(* The steps that end a request. *)
Ends(r) == Reject(r) \/ Exhaust(r) \/ Written(r)

ReturnsWith(r, recorded) ==
    Return(r, recorded) /\ (calls[r] > 0 => recorded)

(* A request that has called an upstream returns with a row. *)
LEMMA EndsWith ==
    ASSUME LocalInv, NEW r \in Request, Ends(r)
    PROVE  /\ At(r, "resolve") \/ At(r, "write")
           /\ \E recorded \in BOOLEAN : ReturnsWith(r, recorded)
<1>1. try[r] \in Try /\ calls[r] \in Nat
  BY DEF LocalInv, TypeOK
<1>2. CASE Reject(r)
  BY <1>2 DEF Reject, Trying, ReturnsWith
<1>3. CASE Exhaust(r)
  <2>1. At(r, "resolve") /\ Return(r, try[r].noted)
    BY <1>3 DEF Exhaust, Trying
  <2>2. calls[r] > 0 => try[r].noted
    BY <2>1 DEF LocalInv, Local, RowInv, At, Serving, Calling
  <2>3. try[r].noted \in BOOLEAN
    BY <1>1 DEF Try
  <2> QED BY <2>1, <2>2, <2>3 DEF ReturnsWith
<1>4. CASE Written(r)
  BY <1>4 DEF Written, ReturnsWith
<1> QED BY <1>2, <1>3, <1>4 DEF Ends

(* Ending keeps the types. *)
LEMMA EndsType ==
    ASSUME LocalInv, NEW r \in Request, Ends(r) PROVE TypeOK'
<1>1. states' \in [Account -> AccountState]
  <2>1. CASE Reject(r) \/ Exhaust(r)
    <3>1. UNCHANGED states \/ \E as : Consulted(as)
      BY <2>1 DEF Reject, Exhaust, NoCandidate
    <3> QED BY <3>1, ConsultedType DEF LocalInv, TypeOK
  <2>2. CASE Written(r)
    <3>1. account[r] \in Account
      BY <2>2 DEF Written, LocalInv, Local, SlotInv, At, Working, Serving
    <3>2. /\ AfterSuccess(states[account[r]], AccountConfig[account[r]]) \in AccountState
          /\ AfterFailure(states[account[r]], AccountConfig[account[r]]) \in AccountState
          /\ states[account[r]] \in AccountState
      BY <3>1, TrackerType DEF LocalInv, TypeOK
    <3>3. \E s \in AccountState : states' = [states EXCEPT ![account[r]] = s]
      BY <2>2, <3>2, Zenon DEF Written
    <3> QED BY <3>1, <3>3 DEF LocalInv, TypeOK
  <2> QED BY <2>1, <2>2 DEF Ends
<1> QED BY <1>1, EndsWith, ReturnType DEF LocalInv, ReturnsWith

(* What happens around the requests keeps the types. *)
Around ==
    \/ \E r \in Request : HangUp(r)
    \/ \E a \in Account : Bar(a)
    \/ \E s \in Session : Expire(s)
    \/ Tick

(* The clock and the world around the requests leave well-typed state. *)
LEMMA AroundType ==
    ASSUME TypeOK, Around PROVE TypeOK'
<1> USE DEF TypeOK, tracker, world, slots
<1>1. ASSUME NEW r \in Request, HangUp(r) PROVE TypeOK'
  BY <1>1 DEF HangUp
<1>2. ASSUME NEW a \in Account, Bar(a) PROVE TypeOK'
  BY <1>2 DEF Bar
<1>3. ASSUME NEW s \in Session, Expire(s) PROVE TypeOK'
  BY <1>3 DEF Expire
<1>4. CASE Tick
  <2>1. states' \in [Account -> AccountState]
    BY <1>4, TrackerType DEF Tick
  <2>2. cooldowns' \in [Account -> 0..Cooldown]
    BY <1>4, GatewayAssumption DEF GatewayAssumption, Tick, CoolDown
  <2> QED BY <1>4, <2>1, <2>2 DEF Tick
<1> QED BY <1>1, <1>2, <1>3, <1>4 DEF Around

-----------------------------------------------------------------------------
(* The request that steps.                                                  *)

Resolves(r) == ResolveSticky(r) \/ ResolveFresh(r)

(* A step of a request is one of these. *)
LEMMA StepSplits ==
    ASSUME NEW r \in Request, Step(r)
    PROVE  Resolves(r) \/ FailsOver(r) \/ GoesOn(r) \/ NextEndpoint(r) \/ Ends(r)
BY DEF Step, Answered, Resolves, FailsOver, GoesOn, Ends

(* A step that calls nobody keeps the calls within what the passes cost. *)
LEMMA CallsKept ==
    ASSUME LocalInv, NEW r \in Request, try'[r] \in Try, calls'[r] = calls[r],
           pc[r] # "done", pc'[r] # "done", pc'[r] \notin Calling, Spent(r) <= Spent(r)'
    PROVE  CallInv(r)'
<1>1. try[r] \in Try /\ calls[r] \in Nat /\ Local(r)
  BY DEF LocalInv, TypeOK
<1>2. Spent(r) \in Nat
  BY <1>1, SpentType
<1>3. Spent(r)' \in Nat
  BY GatewayAssumption DEF GatewayAssumption, Spent, Try
<1>4. Unspent(r) \in Nat /\ Unspent(r)' = 0
  BY <1>1, GatewayAssumption DEF GatewayAssumption, Unspent, Try
<1>5. calls[r] + Unspent(r) <= Times(Spent(r))
  BY <1>1 DEF Local, CallInv
<1>6. Times(Spent(r)) \in Nat /\ Times(Spent(r)') \in Nat /\ Times(Spent(r)) <= Times(Spent(r)')
  BY <1>2, <1>3, TimesNext, TimesMonotonic
<1>7. calls'[r] + Unspent(r)' <= Times(Spent(r)')
  BY <1>1, <1>4, <1>5, <1>6
<1> QED BY <1>7 DEF CallInv, Times

(* A pass that begins may cost what one pass costs. *)
LEMMA CallsOneMore ==
    ASSUME LocalInv, NEW r \in Request, calls'[r] = calls[r] + 1,
           pc[r] # "done", pc[r] \notin Calling, pc'[r] # "done", Spent(r)' = Spent(r) + 1,
           try'[r].endpoint = 1, account'[r] \in Account
    PROVE  CallInv(r)'
<1>1. try[r] \in Try /\ calls[r] \in Nat /\ Local(r)
  BY DEF LocalInv, TypeOK
<1>2. Spent(r) \in Nat /\ MaxEndpoints \in Nat
  BY <1>1, SpentType, GatewayAssumption DEF GatewayAssumption
<1>3. calls[r] <= Times(Spent(r))
  BY <1>1 DEF Local, CallInv, Unspent
<1>4. Times(Spent(r)) \in Nat /\ Times(Spent(r) + 1) = Times(Spent(r)) + MaxEndpoints
  BY <1>2, TimesNext
<1>5. Unspent(r)' \in {0, MaxEndpoints - 1} /\ MaxEndpoints >= 1
  BY GatewayAssumption DEF GatewayAssumption, Unspent
<1>6. calls'[r] + Unspent(r)' <= Times(Spent(r)')
  BY <1>1, <1>2, <1>3, <1>4, <1>5
<1>7. try'[r].endpoint <= Endpoints[account'[r]]
  BY GatewayAssumption DEF GatewayAssumption
<1> QED BY <1>6, <1>7 DEF CallInv, Times

(* Resolving keeps what is known of the request. *)
LEMMA ResolvesLocal ==
    ASSUME LocalInv, NEW r \in Request, Resolves(r) PROVE Local(r)'
<1>1. PICK a : Chosen(r, a) /\ ((a = Sticky(r) /\ a # None) \/ a \in TopBucket(Gathered(r)))
  BY Zenon DEF Resolves, ResolveSticky, ResolveFresh
<1>2. a \in Account /\ a \notin try[r].attempted
  BY <1>1, ResolvedIsNew DEF LocalInv
<1>3. pc[r] = "resolve" /\ try[r].attempt < MaxAttempts
  BY DEF Resolves, ResolveSticky, ResolveFresh, Trying, At
<1>4. /\ pc'[r] \in {"fresh", "slot"} /\ account'[r] = a
      /\ UNCHANGED <<held, try, done, calls>>
  <2>1. pc \in [Request -> Place] /\ account \in [Request -> Account \cup {None}]
    BY DEF LocalInv, TypeOK
  <2>2. UNCHANGED <<held, try, done, calls>>
    BY <1>1 DEF Chosen, slots
  <2>3. pc'[r] \in {"fresh", "slot"}
    BY <1>1, <2>1 DEF Chosen, Go
  <2>4. account'[r] = a
    BY <1>1, <2>1 DEF Chosen
  <2> QED BY <2>2, <2>3, <2>4
<1>5. Local(r)
  BY DEF LocalInv
<1>6. SlotInv(r)'
  BY <1>2, <1>3, <1>4, <1>5 DEF Local, SlotInv, Working, Serving, Calling
<1>7. AnswerInv(r)'
  BY <1>3, <1>4, <1>5 DEF Local, AnswerInv, At, Serving, Calling
<1>8. CallInv(r)'
  <2>1. Spent(r)' = Spent(r)
    BY <1>3, <1>4 DEF Spent, Serving, Calling
  <2>2. Spent(r) \in Nat /\ try'[r] \in Try
    BY <1>4, SpentType DEF LocalInv, TypeOK
  <2> QED BY <1>3, <1>4, <2>1, <2>2, CallsKept DEF Calling
<1>9. RowInv(r)'
  BY <1>3, <1>4, <1>5 DEF Local, RowInv, Serving, Calling
<1> QED BY <1>6, <1>7, <1>8, <1>9 DEF Local

(* So does failing over. *)
LEMMA FailsOverLocal ==
    ASSUME LocalInv, NEW r \in Request, FailsOver(r) PROVE Local(r)'
<1>0. account[r] \in Account /\ Working(r) /\ pc[r] \notin {"rectify", "write"}
  BY FailoverFrom
<1>1. PICK t \in Try : FailsWith(r, t)
  BY FailoverFrom
<1>2. pc'[r] = "resolve" /\ UNCHANGED <<held, done, calls>>
  BY <1>1 DEF FailsWith, Failover, Go, slots, LocalInv, TypeOK
<1>3. try'[r] = Excluding(NextAttempt(t), account[r])
  BY <1>1 DEF FailsWith, Failover, LocalInv, TypeOK
<1>4. /\ try'[r].attempt = try[r].attempt + 1
      /\ try'[r].attempted = try[r].attempted \cup {account[r]}
      /\ try'[r].authRefreshed = try[r].authRefreshed
      /\ try'[r].noted = t.noted
  BY <1>1, <1>3 DEF FailsWith, Excluding, NextAttempt, Try
<1>5. Local(r) /\ try[r] \in Try /\ calls[r] \in Nat
  BY DEF LocalInv, TypeOK
<1>6. SlotInv(r)'
  BY <1>2, <1>4, <1>5 DEF Local, SlotInv, Working, Serving, Calling
<1>7. AnswerInv(r)'
  BY <1>2, <1>4, <1>5 DEF Local, AnswerInv, At, Serving, Calling
<1>8. CallInv(r)'
  <2>1. Spent(r) <= Spent(r)'
    BY <1>0, <1>2, <1>4, <1>5, GatewayAssumption
    DEF GatewayAssumption, Spent, Working, Serving, Calling, Try
  <2>2. try'[r] \in Try
    BY FailsOverType DEF TypeOK
  <2>3. pc[r] # "done"
    BY <1>0 DEF Working, Serving, Calling
  <2> QED BY <1>2, <2>1, <2>2, <2>3, CallsKept DEF Calling
<1>9. RowInv(r)'
  BY <1>0, <1>1, <1>2, <1>4, <1>5 DEF FailsWith, Local, RowInv, Working, Serving, Calling
<1> QED BY <1>6, <1>7, <1>8, <1>9 DEF Local

(* So does ending. *)
LEMMA EndsLocal ==
    ASSUME LocalInv, NEW r \in Request, Ends(r) PROVE Local(r)'
<1>1. At(r, "resolve") \/ At(r, "write")
  BY EndsWith
<1>2. PICK recorded \in BOOLEAN : ReturnsWith(r, recorded)
  BY EndsWith
<1>3. /\ pc'[r] = "done" /\ held'[r] = {} /\ UNCHANGED calls /\ try'[r] = FreshTry
      /\ done'[r] = IF recorded THEN "recorded" ELSE "unrecorded"
  BY <1>2 DEF ReturnsWith, Return, Over, Go, LocalInv, TypeOK
<1>4. Local(r) /\ try[r] \in Try /\ calls[r] \in Nat
  BY DEF LocalInv, TypeOK
<1>5. SlotInv(r)'
  BY <1>3 DEF SlotInv, Working, Serving, Calling
<1>6. AnswerInv(r)'
  BY <1>3 DEF AnswerInv, At, FreshTry
<1>7. CallInv(r)'
  <2>1. pc[r] # "done" /\ Spent(r) <= Budget /\ Unspent(r) = 0
    BY <1>1, <1>4, GatewayAssumption
    DEF GatewayAssumption, Local, SlotInv, Spent, Budget, Unspent, At, Working, Serving, Calling, Try
  <2>2. calls[r] <= Times(Spent(r))
    BY <1>4, <2>1 DEF Local, CallInv
  <2>3. Times(Spent(r)) \in Nat /\ Times(Budget) \in Nat /\ Times(Spent(r)) <= Times(Budget)
    BY <1>4, <2>1, SpentType, TimesNext, TimesMonotonic
  <2>4. calls[r] <= Times(Budget)
    BY <1>4, <2>2, <2>3
  <2> QED BY <1>3, <1>4, <2>4 DEF CallInv, Unspent, Calling, Budget, Times
<1>8. RowInv(r)'
  BY <1>2, <1>3 DEF ReturnsWith, RowInv
<1> QED BY <1>5, <1>6, <1>7, <1>8 DEF Local

(* So does going on to the next endpoint. *)
LEMMA NextEndpointLocal ==
    ASSUME LocalInv, NEW r \in Request, NextEndpoint(r) PROVE Local(r)'
<1>1. /\ Local(r) /\ try[r] \in Try /\ calls \in [Request -> Nat] /\ calls[r] \in Nat
      /\ MaxEndpoints \in Nat
  BY GatewayAssumption DEF GatewayAssumption, LocalInv, TypeOK
<1>2. UNCHANGED <<pc, account, held, done>> /\ calls'[r] = calls[r] + 1
  BY <1>1 DEF NextEndpoint, slots
<1>3. /\ try'[r].attempt = try[r].attempt /\ try'[r].attempted = try[r].attempted
      /\ try'[r].authRefreshed = try[r].authRefreshed /\ try'[r].status = try[r].status
      /\ try'[r].signatureRectified = try[r].signatureRectified
      /\ try'[r].noted = try[r].noted /\ try'[r].endpoint = try[r].endpoint + 1
  BY <1>1, NextEndpointIs DEF Try
<1>4. /\ Serving(r) /\ pc[r] \in Calling
      /\ try[r].endpoint \in Nat /\ try[r].endpoint + 1 <= Endpoints[account[r]]
  BY NextEndpointIs
<1>5. SlotInv(r)'
  BY <1>1, <1>2, <1>3 DEF Local, SlotInv, Working, Serving
<1>6. AnswerInv(r)'
  BY <1>1, <1>2, <1>3 DEF Local, AnswerInv, Serving, At
<1>7. CallInv(r)'
  <2>1. Spent(r)' = Spent(r) /\ pc[r] # "done"
    BY <1>2, <1>3, <1>4 DEF Spent, Serving, Calling
  <2>2. Unspent(r) = MaxEndpoints - try[r].endpoint /\ Unspent(r)' = MaxEndpoints - (try[r].endpoint + 1)
    BY <1>2, <1>3, <1>4 DEF Unspent
  <2>3. calls[r] + Unspent(r) <= Times(Spent(r)) /\ Times(Spent(r)) \in Nat
    <3>1. Times(Spent(r)) \in Nat
      BY <1>1, SpentType, TimesNext
    <3> QED BY <1>1, <2>1, <3>1 DEF Local, CallInv
  <2>4. calls'[r] + Unspent(r)' <= Times(Spent(r)')
    BY <1>1, <1>2, <1>4, <2>1, <2>2, <2>3
  <2>5. try'[r].endpoint <= Endpoints[account'[r]]
    BY <1>2, <1>3, <1>4
  <2>6. pc'[r] # "done"
    BY <1>2, <2>1
  <2> QED BY <2>4, <2>5, <2>6 DEF CallInv, Times
<1>8. RowInv(r)'
  BY <1>1, <1>2, <1>4 DEF Local, RowInv, Serving, Calling
<1> QED BY <1>5, <1>6, <1>7, <1>8 DEF Local

(* So does beginning a pass: in a slot just taken, after a refresh, or with  *)
(* a rectified body. *)
LEMMA CallLocal ==
    ASSUME LocalInv, NEW r \in Request, Acquire(r) \/ ForceRefresh(r) \/ Rectify(r)
    PROVE  Local(r)'
<1>1. /\ Local(r) /\ try[r] \in Try /\ calls[r] \in Nat
      /\ pc \in [Request -> Place] /\ try \in [Request -> Try]
      /\ calls \in [Request -> Nat] /\ held \in [Request -> SUBSET Account]
  BY DEF LocalInv, TypeOK
<1>2. UNCHANGED <<account, done>> /\ calls'[r] = calls[r] + 1
  BY <1>1 DEF Acquire, ForceRefresh, Rectify, Call
<1>3. try'[r] = [try[r] EXCEPT !.endpoint = 1]
  BY <1>1 DEF Acquire, ForceRefresh, Rectify, Call
<1>4. /\ try'[r].attempt = try[r].attempt /\ try'[r].attempted = try[r].attempted
      /\ try'[r].authRefreshed = try[r].authRefreshed /\ try'[r].status = try[r].status
      /\ try'[r].signatureRectified = try[r].signatureRectified
      /\ try'[r].noted = try[r].noted /\ try'[r].endpoint = 1
  BY <1>1, <1>3 DEF Try
<1>5. \/ pc[r] = "slot" /\ pc'[r] = "dispatch" /\ held'[r] = held[r] \cup {account[r]}
      \/ pc[r] = "refresh" /\ pc'[r] = "redispatch" /\ held'[r] = held[r]
      \/ pc[r] = "settle" /\ pc'[r] = "rectify" /\ Rectifies /\ held'[r] = held[r]
  BY <1>1 DEF Acquire, ForceRefresh, Rectify, Call, Go, At, slots
<1>6. SlotInv(r)'
  BY <1>1, <1>2, <1>4, <1>5 DEF Local, SlotInv, Working, Serving, Calling
<1>7. AnswerInv(r)'
  BY <1>1, <1>2, <1>4, <1>5 DEF Local, AnswerInv, Serving, Calling, At
<1>8. CallInv(r)'
  <2>1. Spent(r)' = Spent(r) + 1
    BY <1>1, <1>2, <1>4, <1>5 DEF Local, AnswerInv, Spent, Serving, Calling, Try
  <2>2. account'[r] \in Account
    BY <1>1, <1>2, <1>5 DEF Local, SlotInv, Working, Serving
  <2> QED BY <1>2, <1>4, <1>5, <2>1, <2>2, CallsOneMore DEF Calling
<1>9. RowInv(r)'
  BY <1>1, <1>2, <1>5 DEF Local, RowInv, Serving, Calling
<1> QED BY <1>6, <1>7, <1>8, <1>9 DEF Local

(* So does going on. *)
LEMMA GoesOnLocal ==
    ASSUME LocalInv, NEW r \in Request, GoesOn(r) PROVE Local(r)'
<1>1. /\ Local(r) /\ try[r] \in Try /\ calls[r] \in Nat
      /\ pc \in [Request -> Place] /\ try \in [Request -> Try]
      /\ calls \in [Request -> Nat] /\ held \in [Request -> SUBSET Account]
      /\ try'[r] \in Try
  BY GoesOnType DEF LocalInv, TypeOK
<1>0. try[r].attempt \in Nat
  BY <1>1, GatewayAssumption DEF GatewayAssumption, Try
<1>2. CASE EnsureFresh(r) \/ Commit(r) \/ RectifiedFails(r)
  <2>1. UNCHANGED <<account, held, try, done, calls>>
    BY <1>2 DEF EnsureFresh, Commit, RectifiedFails, slots
  <2>2. \/ pc[r] = "fresh" /\ pc'[r] = "slot"
        \/ pc[r] \in {"settle", "rectify"} /\ pc'[r] = "write"
    BY <1>1, <1>2 DEF EnsureFresh, Commit, RectifiedFails, Go, At
  <2>3. SlotInv(r)'
    BY <1>1, <2>1, <2>2 DEF Local, SlotInv, Working, Serving, Calling
  <2>4. AnswerInv(r)'
    BY <1>1, <2>1, <2>2 DEF Local, AnswerInv, Serving, Calling, At
  <2>5. CallInv(r)'
    <3>1. Spent(r) <= Spent(r)'
      BY <1>0, <2>1, <2>2 DEF Spent, Serving, Calling
    <3> QED BY <1>1, <2>1, <2>2, <3>1, CallsKept DEF Calling
  <2>6. RowInv(r)'
    BY <1>1, <2>1, <2>2 DEF Local, RowInv, Serving, Calling
  <2> QED BY <2>3, <2>4, <2>5, <2>6 DEF Local
<1>3. CASE Acquire(r) \/ ForceRefresh(r) \/ Rectify(r)
  BY <1>3, CallLocal
<1>4. CASE Unauthorized(r)
  <2>1. /\ pc[r] = "dispatch" /\ pc'[r] = "refresh" /\ UNCHANGED <<account, held, done, calls>>
        /\ try'[r] = [try[r] EXCEPT !.authRefreshed = account[r]] /\ try[r].authRefreshed = None
    BY <1>1, <1>4 DEF Unauthorized, slots, Go, At
  <2>2. /\ try'[r].attempt = try[r].attempt /\ try'[r].attempted = try[r].attempted
        /\ try'[r].authRefreshed = account[r]
    BY <1>1, <2>1 DEF Try
  <2>0. account[r] \in Account /\ account[r] # None
    BY <1>1, <2>1, GatewayAssumption
    DEF GatewayAssumption, Local, SlotInv, Working, Serving, Calling
  <2>3. SlotInv(r)'
    BY <1>1, <2>1, <2>2 DEF Local, SlotInv, Working, Serving, Calling
  <2>4. AnswerInv(r)'
    BY <2>0, <2>1, <2>2 DEF AnswerInv, Serving, Calling, At
  <2>5. CallInv(r)'
    <3>1. Spent(r) <= Spent(r)'
      BY <1>0, <2>1, <2>2 DEF Spent, Serving, Calling
    <3> QED BY <1>1, <2>1, <3>1, CallsKept DEF Calling
  <2>6. RowInv(r)'
    BY <1>1, <2>1 DEF Local, RowInv, Serving, Calling
  <2> QED BY <2>3, <2>4, <2>5, <2>6 DEF Local
<1>5. ASSUME NEW s \in Answer, SettledAnswer(r, s) \/ RectifiedAnswer(r, s)
      PROVE  Local(r)'
  <2>1. UNCHANGED <<account, held, done, calls>>
    BY <1>5 DEF SettledAnswer, RectifiedAnswer, slots
  <2>2. /\ try'[r].attempt = try[r].attempt /\ try'[r].attempted = try[r].attempted
        /\ try'[r].authRefreshed = try[r].authRefreshed /\ try'[r].status = s
    <3>1. CASE SettledAnswer(r, s)
      <4>1. try'[r] = [try[r] EXCEPT !.status = s]
        BY <1>1, <3>1 DEF SettledAnswer
      <4> QED BY <1>1, <4>1 DEF Try
    <3>2. CASE RectifiedAnswer(r, s)
      <4>1. try'[r] = Rectified(AnsweredWith(try[r], s))
        BY <1>1, <3>2 DEF RectifiedAnswer
      <4> QED BY <1>1, <4>1 DEF AnsweredWith, Rectified, Try
    <3> QED BY <1>5, <3>1, <3>2
  <2>3. \/ /\ pc[r] \in {"dispatch", "redispatch"} /\ pc'[r] = "settle"
           /\ s \notin Retriable
           /\ ~(pc[r] = "dispatch" /\ s = "401" /\ account[r] \in OAuth
                /\ try[r].authRefreshed = None)
        \/ pc[r] = "rectify" /\ pc'[r] = "write" /\ try'[r].signatureRectified
    <3>1. CASE SettledAnswer(r, s)
      BY <1>1, <3>1 DEF SettledAnswer, Go, At
    <3>2. CASE RectifiedAnswer(r, s)
      <4>1. try'[r] = Rectified(AnsweredWith(try[r], s))
        BY <1>1, <3>2 DEF RectifiedAnswer
      <4>2. try'[r].signatureRectified
        BY <1>1, <4>1 DEF AnsweredWith, Rectified, Try
      <4> QED BY <1>1, <3>2, <4>2 DEF RectifiedAnswer, Go, At
    <3> QED BY <1>5, <3>1, <3>2
  <2>4. SlotInv(r)'
    BY <1>1, <2>1, <2>2, <2>3 DEF Local, SlotInv, Working, Serving, Calling
  <2>5. AnswerInv(r)'
    BY <1>1, <2>1, <2>2, <2>3 DEF Local, AnswerInv, Serving, Calling, At
  <2>6. CallInv(r)'
    <3>1. Spent(r) <= Spent(r)'
      BY <1>0, <2>1, <2>2, <2>3 DEF Spent, Serving, Calling
    <3> QED BY <1>1, <2>1, <2>3, <3>1, CallsKept DEF Calling
  <2>7. RowInv(r)'
    BY <1>1, <2>1, <2>3 DEF Local, RowInv, Serving, Calling
  <2> QED BY <2>4, <2>5, <2>6, <2>7 DEF Local
<1> QED BY <1>2, <1>3, <1>4, <1>5 DEF GoesOn

-----------------------------------------------------------------------------
(* Everybody else, and the invariant.                                       *)

Untouched(x) ==
    /\ pc'[x] = pc[x] /\ account'[x] = account[x] /\ held'[x] = held[x]
    /\ try'[x] = try[x] /\ calls'[x] = calls[x] /\ done'[x] = done[x]

(* A step of a request leaves the other requests where they are. *)
LEMMA StepTouchesOne ==
    ASSUME LocalInv, NEW r \in Request, Step(r), NEW x \in Request, x # r
    PROVE  Untouched(x)
<1>1. /\ pc \in [Request -> Place] /\ account \in [Request -> Account \cup {None}]
      /\ held \in [Request -> SUBSET Account] /\ try \in [Request -> Try]
      /\ calls \in [Request -> Nat] /\ done \in [Request -> Ending]
  BY DEF LocalInv, TypeOK
<1>2. CASE Resolves(r)
  <2>1. PICK a : Chosen(r, a)
    BY <1>2, Zenon DEF Resolves, ResolveSticky, ResolveFresh
  <2> QED BY <1>1, <2>1 DEF Chosen, Go, slots, Untouched
<1>3. CASE FailsOver(r)
  <2>1. PICK t : Failover(r, t)
    BY <1>3, FailoverFrom DEF FailsWith
  <2> QED BY <1>1, <2>1 DEF Failover, Go, slots, Untouched
<1>4. CASE Ends(r)
  <2>1. PICK recorded : Return(r, recorded)
    BY <1>4, EndsWith DEF ReturnsWith
  <2> QED BY <1>1, <2>1 DEF Return, Over, Go, Untouched
<1>5. CASE GoesOn(r)
  BY <1>1, <1>5
  DEF GoesOn, EnsureFresh, Acquire, ForceRefresh, Rectify, Commit, Unauthorized,
      RectifiedFails, SettledAnswer, RectifiedAnswer, Call, Go, slots, Untouched
<1>6. CASE NextEndpoint(r)
  BY <1>1, <1>6 DEF NextEndpoint, slots, Untouched
<1> QED BY <1>2, <1>3, <1>4, <1>5, <1>6, StepSplits

(* Nothing is known of a request but what its own steps change. *)
LEMMA UntouchedLocal ==
    ASSUME NEW x \in Request, Local(x), Untouched(x) PROVE Local(x)'
BY DEF Local, SlotInv, AnswerInv, CallInv, RowInv, Spent, Unspent, Times, At, Working, Serving,
       Untouched

(* LocalInv is inductive. *)
LEMMA LocalStep == LocalInv /\ [Next]_vars => LocalInv'
<1> SUFFICES ASSUME LocalInv, [Next]_vars PROVE LocalInv'
  OBVIOUS
<1>1. ASSUME NEW r \in Request, Step(r) PROVE LocalInv'
  <2>1. TypeOK'
    BY <1>1, StepSplits, ResolveType, FailsOverType, GoesOnType, NextEndpointType,
       EndsType DEF LocalInv, Resolves
  <2>2. Local(r)'
    BY <1>1, StepSplits, ResolvesLocal, FailsOverLocal, GoesOnLocal, NextEndpointLocal,
       EndsLocal
  <2>3. \A x \in Request : x # r => Local(x)'
    BY <1>1, StepTouchesOne, UntouchedLocal DEF LocalInv
  <2> QED BY <2>1, <2>2, <2>3 DEF LocalInv
<1>2. CASE Around \/ UNCHANGED vars
  <2>1. UNCHANGED <<pc, account, held, try, calls, done>>
    BY <1>2 DEF Around, HangUp, Bar, Expire, Tick, vars, slots
  <2>2. TypeOK'
    BY <1>2, AroundType DEF vars, tracker, world, slots, TypeOK, LocalInv
  <2>3. \A x \in Request : Local(x)'
    BY <2>1, UntouchedLocal DEF Untouched, LocalInv
  <2> QED BY <2>2, <2>3 DEF LocalInv
<1> QED BY <1>1, <1>2 DEF Next, Around

(* No request has begun. *)
LEMMA LocalInit == Init => LocalInv
<1> SUFFICES ASSUME Init PROVE LocalInv
  OBVIOUS
<1>1. Fresh \in AccountState
  BY TrackerAssumption DEF TrackerAssumption, Fresh, AccountState, CircuitState, Closed
<1>3. TypeOK
  BY <1>1, FreshTryType, GatewayAssumption DEF GatewayAssumption, Init, TypeOK, Place, Ending
<1>4. ASSUME NEW r \in Request PROVE Local(r)
  <2>1. pc[r] = "resolve" /\ held[r] = {} /\ calls[r] = 0 /\ done[r] = "open"
        /\ try[r].attempt = 0 /\ try[r].authRefreshed = None
    BY DEF Init, FreshTry
  <2>2. Spent(r) = 0 /\ Unspent(r) = 0
    BY <2>1 DEF Spent, Unspent, Serving, Calling
  <2>3. calls[r] + Unspent(r) <= Times(Spent(r))
    BY <2>1, <2>2, TimesNext
  <2> QED BY <2>1, <2>3 DEF Local, SlotInv, AnswerInv, CallInv, RowInv, At, Working, Serving, Calling
<1> QED BY <1>3, <1>4 DEF LocalInv

(* Whatever requests, upstreams, refreshes and clients do, the variables    *)
(* keep their types. *)
THEOREM GatewayTypeCorrect == Spec => []TypeOK
<1>1. LocalInv => TypeOK
  BY DEF LocalInv
<1> QED BY <1>1, LocalInit, LocalStep, PTL DEF Spec

(* Failover between the endpoints of an account, failover between accounts,  *)
(* a forced token refresh and a rectified retry multiply no further: for any *)
(* MaxAttempts, any endpoints and any interleaving the calls of a request    *)
(* stay within one pass per attempt and one per retry. *)
THEOREM CallsAreBounded == Spec => []CallBudget
<1>1. LocalInv => CallBudget
  <2> SUFFICES ASSUME LocalInv, NEW r \in Request PROVE calls[r] <= Times(Budget)
    BY DEF CallBudget, Times, Budget
  <2>1. Local(r) /\ try[r] \in Try /\ calls[r] \in Nat /\ pc[r] \in Place
    BY DEF LocalInv, TypeOK
  <2>2. Serving(r) \/ pc[r] \in {"resolve", "fresh", "slot", "done"}
    BY <2>1 DEF Place, Serving, Calling
  <2>3. Unspent(r) \in Nat
    BY <2>1, GatewayAssumption DEF GatewayAssumption, Unspent, Try
  <2>4. CASE pc[r] = "done"
    BY <2>1, <2>3, <2>4, SpentType, TimesNext DEF Local, CallInv
  <2>5. CASE pc[r] # "done"
    <3>1. Spent(r) <= Budget
      BY <2>1, <2>2, <2>5, GatewayAssumption
      DEF GatewayAssumption, Local, SlotInv, Spent, Budget, Working, Serving, Calling, Try
    <3>2. Times(Spent(r)) \in Nat /\ Times(Budget) \in Nat /\ Times(Spent(r)) <= Times(Budget)
      BY <2>1, <3>1, SpentType, TimesNext, TimesMonotonic
    <3>3. calls[r] + Unspent(r) <= Times(Spent(r))
      BY <2>1, <2>5 DEF Local, CallInv
    <3> QED BY <2>1, <2>3, <3>2, <3>3
  <2> QED BY <2>4, <2>5
<1> QED BY <1>1, LocalInit, LocalStep, PTL DEF Spec

(* A request that reached an upstream ends with a row, whichever way it     *)
(* leaves the loop. *)
THEOREM CallsAreRecorded == Spec => []UpstreamCallsAreRecorded
<1>1. LocalInv => UpstreamCallsAreRecorded
  BY DEF LocalInv, Local, RowInv, UpstreamCallsAreRecorded
<1> QED BY <1>1, LocalInit, LocalStep, PTL DEF Spec

(* What is committed to the client without a rectified retry is no retriable *)
(* answer; and when it is the 401 of an account whose token is refreshed, the *)
(* request has spent its one refresh, on this account or on one it gave up.   *)
THEOREM AnswersAreFinal == Spec => []OnlyFinalAnswers
<1>1. LocalInv => OnlyFinalAnswers
  BY DEF LocalInv, Local, AnswerInv, OnlyFinalAnswers, At, Serving
<1> QED BY <1>1, LocalInit, LocalStep, PTL DEF Spec

(* Among numbers there is a least one. *)
LEMMA LeastNumber ==
    ASSUME NEW T \in SUBSET Nat, T # {} PROVE \E x \in T : \A y \in T : x <= y
<1> DEFINE R == OpToRel(<, Nat)
<1>1. IsWellFoundedOn(R, Nat)
  BY NatLessThanWellFounded
<1>2. \A x, y \in Nat : x < y => <<x, y>> \in R
  BY DEF OpToRel
<1> HIDE DEF R
<1>3. PICK x \in T : \A y \in T : ~(<<y, x>> \in R)
  BY <1>1, WFMin, Zenon
<1>4. \A y \in T : ~(y < x)
  BY <1>2, <1>3
<1>5. \A y \in T : x <= y
  BY <1>4
<1> QED BY <1>5

(* Candidates always have a top bucket, however many there are. *)
LEMMA BucketIsFilled ==
    ASSUME NEW as \in SUBSET Account, as # {} PROVE TopBucket(as) # {}
<1> DEFINE T == {Priority[a] : a \in as}
<1>1. T \subseteq Nat /\ T # {}
  <2>1. Priority \in [Account -> Nat]
    BY GatewayAssumption DEF GatewayAssumption
  <2>2. \A a \in as : Priority[a] \in Nat
    BY <2>1
  <2>3. T # {}
    OBVIOUS
  <2> QED BY <2>2, <2>3
<1>2. \E x \in T : \A y \in T : x <= y
  <2> HIDE DEF T
  <2> QED BY <1>1, LeastNumber
<1>3. PICK a \in as : \A y \in T : Priority[a] <= y
  BY <1>2
<1>4. \A b \in as : Priority[a] <= Priority[b]
  BY <1>3
<1> QED BY <1>4 DEF TopBucket

(* A request that is over has its answer and has given back every slot, and  *)
(* one that asks the resolver gets an account or is told there is none: the  *)
(* part of EveryRequestCanEnd that needs no ENABLED; what else a request may *)
(* wait for is a call with an outcome for every case.                        *)
THEOREM RequestsEndClean ==
    Spec => [](\A r \in Request :
                  /\ At(r, "done") => held[r] = {} /\ done[r] # "open"
                  /\ Gathered(r) # {} => TopBucket(Gathered(r)) # {})
<1> DEFINE Clean == \A r \in Request :
                      /\ At(r, "done") => held[r] = {} /\ done[r] # "open"
                      /\ Gathered(r) # {} => TopBucket(Gathered(r)) # {}
<1>1. LocalInv => Clean
  <2> SUFFICES ASSUME LocalInv, NEW r \in Request
               PROVE  /\ At(r, "done") => held[r] = {} /\ done[r] # "open"
                      /\ Gathered(r) # {} => TopBucket(Gathered(r)) # {}
    OBVIOUS
  <2>1. At(r, "done") => held[r] = {} /\ done[r] # "open"
    BY DEF LocalInv, Local, SlotInv, RowInv, At
  <2>2. Gathered(r) \in SUBSET Account
    BY DEF Gathered
  <2> QED BY <2>1, <2>2, BucketIsFilled
<1> QED BY <1>1, LocalInit, LocalStep, PTL DEF Spec

-----------------------------------------------------------------------------
(* Slots.                                                                   *)

SlotsInv ==
    /\ LocalInv
    /\ SlotsMatchHolders
    /\ \A a \in Account : MaxConcurrency[a] > 0 => inflight[a] <= MaxConcurrency[a]

(* Only finitely many requests hold slots. *)
LEMMA HoldersFinite == \A a : IsFiniteSet(Holders(a)) /\ Cardinality(Holders(a)) \in Nat
BY FS_Subset, FS_CardinalityType, GatewayAssumption DEF GatewayAssumption, Holders

(* A slot is taken by a request that did not hold it, while one is free. *)
LEMMA AcquireCounts ==
    ASSUME SlotsInv, NEW r \in Request, Acquire(r), LocalInv' PROVE SlotsInv'
<1>1. /\ held \in [Request -> SUBSET Account] /\ inflight \in [Account -> Nat]
      /\ MaxConcurrency \in [Account -> Nat]
  BY GatewayAssumption DEF GatewayAssumption, SlotsInv, LocalInv, TypeOK
<1>2. PICK b \in Account : b = account[r] /\ b \notin held[r]
  BY DEF SlotsInv, LocalInv, Local, SlotInv, Acquire, At, Working, Serving, Calling
<1>3. /\ inflight' = [inflight EXCEPT ![b] = @ + 1]
      /\ held' = [held EXCEPT ![r] = @ \cup {b}]
      /\ ~AtCap(b)
  BY <1>2 DEF Acquire
<1>4. Holders(b)' = Holders(b) \cup {r} /\ r \notin Holders(b)
  BY <1>1, <1>2, <1>3 DEF Holders
<1>5. \A a \in Account : a # b => Holders(a)' = Holders(a)
  BY <1>1, <1>2, <1>3 DEF Holders
<1>6. Cardinality(Holders(b) \cup {r}) = Cardinality(Holders(b)) + 1
  BY <1>4, HoldersFinite, FS_AddElement
<1>7. \A a \in Account : inflight[a] = Cardinality(Holders(a))
  BY DEF SlotsInv, SlotsMatchHolders
<1>8. ASSUME NEW a \in Account PROVE inflight'[a] = Cardinality(Holders(a)')
  <2>1. CASE a = b
    <3>1. inflight'[b] = inflight[b] + 1
      BY <1>1, <1>2, <1>3
    <3>2. Cardinality(Holders(b)') = Cardinality(Holders(b)) + 1
      BY <1>4, <1>6
    <3> QED BY <1>7, <2>1, <3>1, <3>2
  <2>2. CASE a # b
    <3>1. inflight'[a] = inflight[a] /\ Holders(a)' = Holders(a)
      BY <1>1, <1>3, <1>5, <2>2
    <3> QED BY <1>7, <3>1
  <2> QED BY <2>1, <2>2
<1>9. ASSUME NEW a \in Account, MaxConcurrency[a] > 0 PROVE inflight'[a] <= MaxConcurrency[a]
  BY <1>1, <1>2, <1>3, <1>9 DEF AtCap, SlotsInv
<1> QED BY <1>8, <1>9 DEF SlotsInv, SlotsMatchHolders

(* A request that ends gives back exactly what it holds. *)
LEMMA ReturnCounts ==
    ASSUME SlotsInv, NEW r \in Request, NEW recorded, Return(r, recorded), LocalInv'
    PROVE  SlotsInv'
<1>1. /\ held \in [Request -> SUBSET Account] /\ inflight \in [Account -> Nat]
      /\ MaxConcurrency \in [Account -> Nat]
  BY GatewayAssumption DEF GatewayAssumption, SlotsInv, LocalInv, TypeOK
<1>2. /\ held' = [held EXCEPT ![r] = {}]
      /\ inflight' = [a \in Account |->
                         IF a \in held[r] /\ inflight[a] > 0 THEN inflight[a] - 1 ELSE inflight[a]]
  BY DEF Return
<1>3. \A a \in Account : inflight[a] = Cardinality(Holders(a))
  BY DEF SlotsInv, SlotsMatchHolders
<1>4. ASSUME NEW a \in Account PROVE inflight'[a] = Cardinality(Holders(a)')
  <2>1. CASE a \in held[r]
    <3>1. Holders(a)' = Holders(a) \ {r} /\ r \in Holders(a)
      BY <1>1, <1>2, <2>1 DEF Holders
    <3>2. /\ Cardinality(Holders(a) \ {r}) = Cardinality(Holders(a)) - 1
          /\ Cardinality(Holders(a) \ {r}) \in Nat
      BY <3>1, HoldersFinite, FS_RemoveElement, FS_CardinalityType
    <3>3. inflight[a] > 0
      BY <1>1, <1>3, <3>2
    <3> QED BY <1>2, <1>3, <2>1, <3>1, <3>2, <3>3
  <2>2. CASE a \notin held[r]
    <3>1. Holders(a)' = Holders(a)
      BY <1>1, <1>2, <2>2 DEF Holders
    <3> QED BY <1>2, <1>3, <2>2, <3>1
  <2> QED BY <2>1, <2>2
<1>5. ASSUME NEW a \in Account, MaxConcurrency[a] > 0 PROVE inflight'[a] <= MaxConcurrency[a]
  BY <1>1, <1>2, <1>5 DEF SlotsInv
<1> QED BY <1>4, <1>5 DEF SlotsInv, SlotsMatchHolders

(* Nothing else touches the slots. *)
LEMMA SlotsStep == SlotsInv /\ [Next]_vars => SlotsInv'
<1> SUFFICES ASSUME SlotsInv, [Next]_vars PROVE SlotsInv'
  OBVIOUS
<1>1. LocalInv'
  BY LocalStep DEF SlotsInv
<1>2. CASE UNCHANGED slots
  <2>1. \A a : Holders(a)' = Holders(a)
    BY <1>2 DEF Holders, slots
  <2> QED BY <1>1, <1>2, <2>1 DEF SlotsInv, SlotsMatchHolders, slots
<1>3. ASSUME NEW r \in Request, Step(r) PROVE SlotsInv'
  <2>1. CASE Resolves(r)
    BY <1>2, <2>1 DEF Resolves, ResolveSticky, ResolveFresh, Chosen
  <2>2. CASE FailsOver(r)
    BY <1>2, <2>2, FailoverFrom DEF FailsWith, Failover, SlotsInv
  <2>3. CASE Ends(r)
    BY <1>1, <2>3, EndsWith, ReturnCounts DEF ReturnsWith, SlotsInv
  <2>4. CASE Acquire(r)
    BY <1>1, <2>4, AcquireCounts
  <2>5. CASE GoesOn(r) /\ ~Acquire(r)
    BY <1>2, <2>5
    DEF GoesOn, EnsureFresh, ForceRefresh, Rectify, Commit, Unauthorized, RectifiedFails,
        SettledAnswer, RectifiedAnswer
  <2>6. CASE NextEndpoint(r)
    BY <1>2, <2>6 DEF NextEndpoint
  <2> QED BY <1>3, <2>1, <2>2, <2>3, <2>4, <2>5, <2>6, StepSplits
<1>4. CASE Around \/ UNCHANGED vars
  BY <1>2, <1>4 DEF Around, HangUp, Bar, Expire, Tick, vars
<1> QED BY <1>3, <1>4 DEF Next, Around

(* Nobody holds a slot at the start. *)
LEMMA SlotsInit == Init => SlotsInv
<1> SUFFICES ASSUME Init PROVE SlotsInv
  OBVIOUS
<1>1. \A a : Holders(a) = {}
  BY DEF Init, Holders
<1>2. \A a \in Account : inflight[a] = 0
  BY DEF Init
<1>3. Cardinality({}) = 0
  BY FS_EmptySet
<1>4. \A a \in Account : MaxConcurrency[a] \in Nat
  BY GatewayAssumption DEF GatewayAssumption
<1> QED BY <1>1, <1>2, <1>3, <1>4, LocalInit DEF SlotsInv, SlotsMatchHolders

(* Acquire takes a slot of the semaphore. *)
LEMMA SlotsAreTaken ==
    ASSUME SlotsInv, NEW r \in Request, Acquire(r)
    PROVE  \E a \in Account : Sem!Take(r, a)
<1>1. /\ held \in [Request -> SUBSET Account] /\ inflight \in [Account -> Nat]
      /\ MaxConcurrency \in [Account -> Nat]
  BY GatewayAssumption DEF GatewayAssumption, SlotsInv, LocalInv, TypeOK
<1>2. PICK b \in Account : b = account[r] /\ b \notin held[r]
  BY DEF SlotsInv, LocalInv, Local, SlotInv, Acquire, At, Working, Serving, Calling
<1>3. held' = [held EXCEPT ![r] = @ \cup {b}] /\ ~AtCap(b)
  BY <1>2 DEF Acquire
<1>4. Holders(b)' = Holders(b) \cup {r} /\ r \notin Holders(b)
  BY <1>1, <1>2, <1>3 DEF Holders
<1>5. \A a \in Account : a # b => Holders(a)' = Holders(a)
  BY <1>1, <1>2, <1>3 DEF Holders
<1>6. inflight[b] = Cardinality(Holders(b))
  BY <1>2 DEF SlotsInv, SlotsMatchHolders
<1>7. MaxConcurrency[b] > 0 => Cardinality(Holders(b)) < MaxConcurrency[b]
  BY <1>1, <1>2, <1>3, <1>6 DEF AtCap
<1>8. holders' = [holders EXCEPT ![b] = @ \cup {r}] /\ holders[b] = Holders(b)
  BY <1>2, <1>4, <1>5 DEF holders
<1>9. r \notin holders[b] /\ (MaxConcurrency[b] > 0 => Cardinality(holders[b]) < MaxConcurrency[b])
  BY <1>4, <1>7, <1>8
<1>10. Sem!Take(r, b)
  <2>1. Sem!Cardinality(holders[b]) = Cardinality(holders[b])
    BY DEF Sem!Cardinality, Cardinality
  <2> QED BY <1>8, <1>9, <2>1 DEF Sem!Take
<1> QED BY <1>2, <1>10

(* A request that returns gives back what it holds and nobody else's slots. *)
LEMMA SlotsAreGivenBack ==
    ASSUME SlotsInv, NEW r \in Request, NEW recorded, Return(r, recorded)
    PROVE  Sem!GiveBack(r)
<1>1. held \in [Request -> SUBSET Account] /\ held' = [held EXCEPT ![r] = {}]
  BY DEF SlotsInv, LocalInv, TypeOK, Return
<1>2. \A a \in Account : Holders(a)' = Holders(a) \ {r}
  BY <1>1 DEF Holders
<1> QED BY <1>2 DEF Sem!GiveBack, holders

(* To the requests the guard's counter is a semaphore: every behaviour of    *)
(* the gateway is one of Semaphore. *)
THEOREM SemaphoreCorrect == Spec => ImplementsSemaphore
<1>1. Init => Sem!Init
  BY DEF Init, Sem!Init, holders, Holders
<1>2. SlotsInv /\ [Next]_vars => [Sem!Next]_holders
  <2> SUFFICES ASSUME SlotsInv, [Next]_vars
               PROVE  Sem!Next \/ UNCHANGED holders
    OBVIOUS
  <2>1. CASE UNCHANGED slots
    <3>1. \A a \in Account : Holders(a)' = Holders(a)
      BY <2>1 DEF Holders, slots
    <3> QED BY <3>1 DEF holders
  <2>2. ASSUME NEW r \in Request, Step(r)
        PROVE  Sem!Next \/ UNCHANGED slots
    <3>1. CASE Resolves(r)
      BY <3>1 DEF Resolves, ResolveSticky, ResolveFresh, Chosen
    <3>2. CASE FailsOver(r)
      BY <3>2, FailoverFrom DEF FailsWith, Failover, SlotsInv
    <3>3. CASE Ends(r)
      BY <3>3, EndsWith, SlotsAreGivenBack DEF ReturnsWith, SlotsInv, Sem!Next
    <3>4. CASE Acquire(r)
      BY <3>4, SlotsAreTaken DEF Sem!Next
    <3>5. CASE GoesOn(r) /\ ~Acquire(r)
      BY <3>5
      DEF GoesOn, EnsureFresh, ForceRefresh, Rectify, Commit, Unauthorized, RectifiedFails,
          SettledAnswer, RectifiedAnswer
    <3>6. CASE NextEndpoint(r)
      BY <3>6 DEF NextEndpoint
    <3> QED BY <2>2, <3>1, <3>2, <3>3, <3>4, <3>5, <3>6, StepSplits
  <2>3. CASE Around \/ UNCHANGED vars
    BY <2>1, <2>3 DEF Around, HangUp, Bar, Expire, Tick, vars
  <2> QED BY <2>1, <2>2, <2>3 DEF Next, Around
<1> QED BY <1>1, <1>2, SlotsInit, SlotsStep, PTL DEF Spec, ImplementsSemaphore, Sem!Spec

(* No path out of the loop leaks a slot or returns one twice: the counter   *)
(* of an account is always the number of requests with a release pending. *)
THEOREM SlotsAreCounted == Spec => []SlotsMatchHolders
<1>1. SlotsInv => SlotsMatchHolders
  BY DEF SlotsInv
<1> QED BY <1>1, SlotsInit, SlotsStep, PTL DEF Spec

(* An account never serves more requests than its max_concurrency, however  *)
(* many of them had seen the same slot free. *)
THEOREM CapIsKept == Spec => []UpstreamWithinCap
<1>1. SlotsInv => UpstreamWithinCap
  <2> SUFFICES ASSUME SlotsInv, NEW a \in Account, MaxConcurrency[a] > 0
               PROVE  Cardinality(Using(a)) <= MaxConcurrency[a]
    BY DEF UpstreamWithinCap
  <2>1. Using(a) \subseteq Holders(a)
    BY DEF Using, Holders, SlotsInv, LocalInv, Local, SlotInv, Serving
  <2>2. /\ Cardinality(Using(a)) <= Cardinality(Holders(a))
        /\ Cardinality(Using(a)) \in Nat /\ Cardinality(Holders(a)) \in Nat
    BY <2>1, HoldersFinite, FS_Subset, FS_CardinalityType
  <2>3. inflight[a] = Cardinality(Holders(a)) /\ inflight[a] <= MaxConcurrency[a]
    BY DEF SlotsInv, SlotsMatchHolders
  <2>4. MaxConcurrency[a] \in Nat
    BY GatewayAssumption DEF GatewayAssumption
  <2> QED BY <2>2, <2>3, <2>4
<1> QED BY <1>1, SlotsInit, SlotsStep, PTL DEF Spec
-----------------------------------------------------------------------------
(* Progress.                                                                *)

(* How far each place is from the end. *)
LEMMA AheadIs ==
    /\ Ahead["resolve"] = 9 /\ Ahead["fresh"] = 8 /\ Ahead["slot"] = 7 /\ Ahead["dispatch"] = 6
    /\ Ahead["refresh"] = 5 /\ Ahead["redispatch"] = 4 /\ Ahead["settle"] = 3
    /\ Ahead["rectify"] = 2 /\ Ahead["write"] = 1
BY DEF Ahead

(* A step within an attempt leads on, never back. *)
LEMMA LeadsOn ==
    ASSUME LocalInv, NEW r \in Request, Resolves(r) \/ GoesOn(r)
    PROVE  /\ pc'[r] # "done" /\ pc[r] # "done"
           /\ Ahead[pc'[r]] < Ahead[pc[r]]
           /\ try'[r].attempt = try[r].attempt
<1>1. pc \in [Request -> Place] /\ try \in [Request -> Try] /\ try[r] \in Try
  BY DEF LocalInv, TypeOK
<1>2. CASE Resolves(r)
  <2>1. PICK a : Chosen(r, a)
    BY <1>2, Zenon DEF Resolves, ResolveSticky, ResolveFresh
  <2>2. pc[r] = "resolve"
    BY <1>2 DEF Resolves, ResolveSticky, ResolveFresh, Trying, At
  <2>3. pc'[r] \in {"fresh", "slot"} /\ try' = try
    BY <1>1, <2>1 DEF Chosen, Go
  <2> QED BY <2>2, <2>3, AheadIs
<1>3. CASE GoesOn(r)
  <2>1. \/ pc[r] = "fresh" /\ pc'[r] = "slot"
        \/ pc[r] = "slot" /\ pc'[r] = "dispatch"
        \/ pc[r] = "dispatch" /\ pc'[r] = "refresh"
        \/ pc[r] = "refresh" /\ pc'[r] = "redispatch"
        \/ pc[r] \in {"dispatch", "redispatch"} /\ pc'[r] = "settle"
        \/ pc[r] = "settle" /\ pc'[r] \in {"rectify", "write"}
        \/ pc[r] = "rectify" /\ pc'[r] = "write"
    BY <1>1, <1>3
    DEF GoesOn, EnsureFresh, Acquire, ForceRefresh, Rectify, Commit, Unauthorized,
        RectifiedFails, SettledAnswer, RectifiedAnswer, Call, Go, At
  <2>2. try'[r].attempt = try[r].attempt
    <3>1. ASSUME NEW s, SettledAnswer(r, s) PROVE try'[r].attempt = try[r].attempt
      <4>1. try'[r] = [try[r] EXCEPT !.status = s]
        BY <1>1, <3>1 DEF SettledAnswer
      <4> QED BY <1>1, <4>1 DEF Try
    <3>2. ASSUME NEW s, RectifiedAnswer(r, s) PROVE try'[r].attempt = try[r].attempt
      <4>1. try'[r] = Rectified(AnsweredWith(try[r], s))
        BY <1>1, <3>2 DEF RectifiedAnswer
      <4> QED BY <1>1, <4>1 DEF AnsweredWith, Rectified, Try
    <3>3. CASE Unauthorized(r)
      <4>1. try'[r] = [try[r] EXCEPT !.authRefreshed = account[r]]
        BY <1>1, <3>3 DEF Unauthorized
      <4> QED BY <1>1, <4>1 DEF Try
    <3>4. CASE UNCHANGED try
      BY <3>4
    <3>5. CASE Acquire(r) \/ ForceRefresh(r) \/ Rectify(r)
      <4>1. try'[r] = [try[r] EXCEPT !.endpoint = 1]
        BY <1>1, <3>5 DEF Acquire, ForceRefresh, Rectify, Call
      <4> QED BY <1>1, <4>1 DEF Try
    <3> QED BY <1>3, <3>1, <3>2, <3>3, <3>4, <3>5
            DEF GoesOn, EnsureFresh, Commit, RectifiedFails
  <2> QED BY <2>1, <2>2, AheadIs
<1> QED BY <1>2, <1>3

(* A step of a request that is not one to the next endpoint leaves it less   *)
(* to do: one more attempt outweighs going back to the resolver. *)
LEMMA StepAdvances ==
    ASSUME LocalInv, LocalInv', NEW r \in Request, Step(r), ~NextEndpoint(r)
    PROVE  Remaining(r)' < Remaining(r)
<1>1. /\ try[r].attempt \in Nat /\ try'[r].attempt \in Nat
      /\ pc[r] \in Place /\ pc'[r] \in Place
  BY GatewayAssumption DEF GatewayAssumption, LocalInv, TypeOK, Try
<1>2. pc[r] # "done" /\ MaxAttempts \in Nat
  BY StepSplits, FailoverFrom, LeadsOn, EndsWith, GatewayAssumption
  DEF GatewayAssumption, Working, Serving, Calling, At
<1>3. Ahead[pc[r]] \in 1..9
  BY <1>1, <1>2, AheadIs DEF Place
<1>4. CASE FailsOver(r)
  <2>1. PICK t \in Try : FailsWith(r, t)
    BY <1>4, FailoverFrom
  <2>2. try'[r] = Excluding(NextAttempt(t), account[r]) /\ pc'[r] = "resolve"
    BY <2>1 DEF FailsWith, Failover, Go, LocalInv, TypeOK
  <2>3. try'[r].attempt = try[r].attempt + 1
    BY <2>1, <2>2 DEF FailsWith, Excluding, NextAttempt, Try
  <2>4. Ahead[pc'[r]] = 9
    BY <2>2, AheadIs
  <2> QED BY <1>1, <1>2, <1>3, <2>2, <2>3, <2>4 DEF Remaining
<1>5. CASE Ends(r)
  <2>1. PICK recorded : Return(r, recorded)
    BY <1>5, EndsWith DEF ReturnsWith
  <2>2. pc'[r] = "done"
    BY <2>1 DEF Return, Over, Go, LocalInv, TypeOK
  <2>3. try[r].attempt <= MaxAttempts
    BY <1>2 DEF LocalInv, TypeOK, Try
  <2> QED BY <1>1, <1>2, <1>3, <2>2, <2>3 DEF Remaining
<1>6. CASE Resolves(r) \/ GoesOn(r)
  <2>1. /\ pc'[r] # "done" /\ Ahead[pc'[r]] < Ahead[pc[r]]
        /\ try'[r].attempt = try[r].attempt
    BY <1>6, LeadsOn
  <2>2. Ahead[pc'[r]] \in 1..9
    BY <1>1, <2>1, AheadIs DEF Place
  <2> QED BY <1>1, <1>2, <1>3, <2>1, <2>2 DEF Remaining
<1> QED BY <1>4, <1>5, <1>6, StepSplits

(* Whatever runs, each request is left alone, brought nearer to its end or   *)
(* on to the next endpoint of its account: of the former steps it takes no   *)
(* more than 10 * (MaxAttempts + 1), of the latter MaxEndpoints between two. *)
THEOREM RequestsAdvance == Spec => EveryStepAdvances
<1> DEFINE Advance == \A r \in Request : Advances(r)
<1>1. LocalInv /\ LocalInv' /\ [Next]_vars => [Advance]_vars
  <2> SUFFICES ASSUME LocalInv, LocalInv', Next PROVE Advance
    OBVIOUS
  <2>1. ASSUME NEW r \in Request, Step(r) PROVE Advance
    <3>1. Advances(r)
      <4>1. CASE NextEndpoint(r)
        <5>1. /\ try'[r].endpoint > try[r].endpoint /\ try'[r].attempt = try[r].attempt
              /\ pc'[r] = pc[r]
          <6>1. /\ try[r] \in Try /\ try[r].endpoint \in Nat
                /\ try'[r] = [try[r] EXCEPT !.endpoint = @ + 1]
            BY NextEndpointIs, <4>1 DEF LocalInv, TypeOK
          <6>2. try'[r].endpoint = try[r].endpoint + 1 /\ try'[r].attempt = try[r].attempt
            BY <6>1 DEF Try
          <6> QED BY <4>1, <6>1, <6>2 DEF NextEndpoint
        <5> QED BY <5>1 DEF Advances, Remaining
      <4>2. CASE ~NextEndpoint(r)
        BY <2>1, <4>2, StepAdvances DEF Advances
      <4> QED BY <4>1, <4>2
    <3>2. \A x \in Request : x # r => Advances(x)
      BY <2>1, StepTouchesOne DEF Untouched, Advances
    <3> QED BY <3>1, <3>2
  <2>2. CASE Around
    <3>1. UNCHANGED <<pc, try>>
      BY <2>2 DEF Around, HangUp, Bar, Expire, Tick
    <3> QED BY <3>1 DEF Advances
  <2> QED BY <2>1, <2>2 DEF Next, Around
<1> QED BY <1>1, LocalInit, LocalStep, PTL DEF Spec, EveryStepAdvances

-----------------------------------------------------------------------------
(* Attempts and accounts.                                                   *)

FleetPasses == Cardinality(Account) + 1 + (IF Rectifies THEN 1 ELSE 0)
FleetBudget == FleetPasses * MaxEndpoints

\* Each attempt was of another account, and the present one is of yet another.
Fleet(r) ==
    /\ IsFiniteSet(try[r].attempted)
    /\ Cardinality(try[r].attempted) = try[r].attempt
    /\ Working(r) => account[r] \notin try[r].attempted
    /\ pc[r] = "done" /\ IsFiniteSet(Account) => calls[r] <= FleetBudget

FleetInv == LocalInv /\ \A r \in Request : Fleet(r)

(* However high MaxAttempts is set, the loop asks no account twice (the      *)
(* attempted list), so that a request goes at most once through the endpoints *)
(* of each account, once more after a refresh and once more with a rectified  *)
(* body.                                                                      *)
CallsWithinFleet == IsFiniteSet(Account) => \A r \in Request : calls[r] <= FleetBudget

(* Calls are bounded by what was attempted, and that by what there is.      *)
LEMMA FleetBounds ==
    ASSUME FleetInv, NEW r \in Request, IsFiniteSet(Account)
    PROVE  calls[r] <= FleetBudget
<1>1. /\ Local(r) /\ Fleet(r) /\ try[r] \in Try /\ calls[r] \in Nat /\ pc[r] \in Place
      /\ account[r] \in Account \cup {None}
  BY DEF FleetInv, LocalInv, TypeOK
<1>2. try[r].attempted \subseteq Account /\ try[r].attempt \in Nat /\ Cardinality(Account) \in Nat
  BY <1>1, FS_CardinalityType DEF Try, Fleet
<1>3. CASE pc[r] = "done"
  BY <1>1, <1>3 DEF Fleet
<1>6. Unspent(r) \in Nat /\ FleetPasses \in Nat
  BY <1>1, <1>2, GatewayAssumption DEF GatewayAssumption, Unspent, Try, FleetPasses
<1>7. ASSUME pc[r] # "done", Spent(r) <= FleetPasses PROVE calls[r] <= FleetBudget
  <2>1. Times(Spent(r)) \in Nat /\ Times(FleetPasses) \in Nat /\ Times(Spent(r)) <= Times(FleetPasses)
    BY <1>1, <1>6, <1>7, SpentType, TimesNext, TimesMonotonic
  <2>2. calls[r] + Unspent(r) <= Times(Spent(r))
    BY <1>1, <1>7 DEF Local, CallInv
  <2>3. calls[r] <= Times(FleetPasses)
    BY <1>1, <1>6, <2>1, <2>2
  <2> QED BY <2>3 DEF Times, FleetBudget
<1>4. CASE Serving(r)
  <2>1. account[r] \in Account /\ account[r] \notin try[r].attempted
    BY <1>1, <1>4 DEF Local, SlotInv, Fleet, Working
  <2>2. Cardinality(try[r].attempted \cup {account[r]}) = try[r].attempt + 1
    BY <1>1, <2>1, FS_AddElement DEF Fleet
  <2>3. try[r].attempted \cup {account[r]} \subseteq Account
    BY <1>2, <2>1
  <2>4. try[r].attempt + 1 <= Cardinality(Account)
    BY <2>2, <2>3, FS_Subset
  <2>5. pc[r] # "done"
    BY <1>4 DEF Serving, Calling
  <2>6. Spent(r) <= FleetPasses
    BY <1>2, <1>4, <2>4 DEF Spent, FleetPasses
  <2> QED BY <1>7, <2>5, <2>6
<1>5. CASE ~Serving(r) /\ pc[r] # "done"
  <2>1. try[r].attempt <= Cardinality(Account)
    BY <1>1, <1>2, FS_Subset DEF Fleet
  <2>2. pc[r] \notin {"rectify", "write"}
    BY <1>5 DEF Serving, Calling
  <2>3. Spent(r) <= FleetPasses
    BY <1>2, <1>5, <2>1, <2>2 DEF Spent, FleetPasses
  <2> QED BY <1>5, <1>7, <2>3
<1> QED BY <1>3, <1>4, <1>5

LEMMA FleetKept ==
    ASSUME FleetInv, NEW r \in Request, Step(r) PROVE Fleet(r)'
<1>1. /\ try \in [Request -> Try] /\ try[r] \in Try /\ pc \in [Request -> Place]
      /\ account \in [Request -> Account \cup {None}] /\ Local(r) /\ Fleet(r) /\ LocalInv
  BY DEF FleetInv, LocalInv, TypeOK
<1>2. CASE Resolves(r)
  <2>1. PICK a : Chosen(r, a) /\ ((a = Sticky(r) /\ a # None) \/ a \in TopBucket(Gathered(r)))
    BY <1>2, Zenon DEF Resolves, ResolveSticky, ResolveFresh
  <2>2. a \in Account /\ a \notin try[r].attempted
    BY <1>1, <2>1, ResolvedIsNew DEF LocalInv
  <2>3. account'[r] = a /\ pc'[r] \in {"fresh", "slot"} /\ try' = try
    BY <1>1, <2>1 DEF Chosen, Go
  <2> QED BY <1>1, <2>2, <2>3 DEF Fleet
<1>3. CASE FailsOver(r)
  <2>1. account[r] \in Account /\ Working(r)
    BY <1>1, <1>3, FailoverFrom
  <2>2. PICK t \in Try : FailsWith(r, t)
    BY <1>1, <1>3, FailoverFrom
  <2>3. try'[r] = Excluding(NextAttempt(t), account[r]) /\ pc'[r] = "resolve"
    BY <1>1, <2>2 DEF FailsWith, Failover, Go
  <2>4. /\ try'[r].attempt = try[r].attempt + 1
        /\ try'[r].attempted = try[r].attempted \cup {account[r]}
    BY <2>2, <2>3 DEF FailsWith, Excluding, NextAttempt, Try
  <2>5. account[r] \notin try[r].attempted
    BY <1>1, <2>1 DEF Fleet
  <2>6. /\ IsFiniteSet(try'[r].attempted)
        /\ Cardinality(try'[r].attempted) = try[r].attempt + 1
    <3> DEFINE S == try[r].attempted
    <3>1. IsFiniteSet(S) /\ Cardinality(S) = try[r].attempt
      BY <1>1 DEF Fleet
    <3>2. /\ IsFiniteSet(S \cup {account[r]})
          /\ Cardinality(S \cup {account[r]}) = Cardinality(S) + 1
      <4> HIDE DEF S
      <4>1. account[r] \notin S
        BY <2>5 DEF S
      <4> QED BY <3>1, <4>1, FS_AddElement
    <3>3. try'[r].attempted = S \cup {account[r]}
      BY <2>4
    <3> HIDE DEF S
    <3> QED BY <3>1, <3>2, <3>3
  <2>7. ~Working(r)'
    BY <2>3 DEF Working, Serving, Calling
  <2> QED BY <2>3, <2>4, <2>6, <2>7 DEF Fleet
<1>4. CASE Ends(r)
  <2>1. PICK recorded : Return(r, recorded)
    BY <1>1, <1>4, EndsWith DEF ReturnsWith
  <2>2. pc'[r] = "done" /\ try'[r] = FreshTry /\ calls' = calls
    BY <1>1, <2>1 DEF Return, Over, Go
  <2>3. try'[r].attempted = {} /\ try'[r].attempt = 0
    BY <2>2 DEF FreshTry
  <2>4. IsFiniteSet(try'[r].attempted) /\ Cardinality(try'[r].attempted) = 0
    BY <2>3, FS_EmptySet
  <2>5. ~Working(r)'
    BY <2>2 DEF Working, Serving, Calling
  <2> QED BY <2>2, <2>3, <2>4, <2>5, FleetBounds DEF Fleet, FleetBudget, FleetPasses
<1>5. CASE GoesOn(r)
  <2>1. /\ Working(r) /\ pc'[r] # "done" /\ account' = account
    BY <1>1, <1>5
    DEF GoesOn, EnsureFresh, Acquire, ForceRefresh, Rectify, Commit, Unauthorized,
        RectifiedFails, SettledAnswer, RectifiedAnswer, Call, Go, At, Working, Serving, Calling
  <2>2. try'[r].attempt = try[r].attempt /\ try'[r].attempted = try[r].attempted
    <3>1. ASSUME NEW s, SettledAnswer(r, s)
          PROVE  try'[r].attempt = try[r].attempt /\ try'[r].attempted = try[r].attempted
      <4>1. try'[r] = [try[r] EXCEPT !.status = s]
        BY <1>1, <3>1 DEF SettledAnswer
      <4> QED BY <1>1, <4>1 DEF Try
    <3>2. ASSUME NEW s, RectifiedAnswer(r, s)
          PROVE  try'[r].attempt = try[r].attempt /\ try'[r].attempted = try[r].attempted
      <4>1. try'[r] = Rectified(AnsweredWith(try[r], s))
        BY <1>1, <3>2 DEF RectifiedAnswer
      <4> QED BY <1>1, <4>1 DEF AnsweredWith, Rectified, Try
    <3>3. CASE Unauthorized(r)
      <4>1. try'[r] = [try[r] EXCEPT !.authRefreshed = account[r]]
        BY <1>1, <3>3 DEF Unauthorized
      <4> QED BY <1>1, <4>1 DEF Try
    <3>4. CASE UNCHANGED try
      BY <3>4
    <3>5. CASE Acquire(r) \/ ForceRefresh(r) \/ Rectify(r)
      <4>1. try'[r] = [try[r] EXCEPT !.endpoint = 1]
        BY <1>1, <3>5 DEF Acquire, ForceRefresh, Rectify, Call
      <4> QED BY <1>1, <4>1 DEF Try
    <3> QED BY <1>5, <3>1, <3>2, <3>3, <3>4, <3>5
            DEF GoesOn, EnsureFresh, Commit, RectifiedFails
  <2> QED BY <1>1, <2>1, <2>2 DEF Fleet
<1>6. CASE NextEndpoint(r)
  <2>1. Working(r) /\ pc'[r] = pc[r] /\ account' = account /\ pc[r] # "done"
    BY <1>1, <1>6, NextEndpointIs DEF NextEndpoint, Working, Serving, Calling
  <2>2. try'[r].attempt = try[r].attempt /\ try'[r].attempted = try[r].attempted
    BY <1>1, <1>6, NextEndpointIs DEF Try
  <2> QED BY <1>1, <2>1, <2>2 DEF Fleet
<1> QED BY <1>2, <1>3, <1>4, <1>5, <1>6, StepSplits

LEMMA FleetStep == FleetInv /\ [Next]_vars => FleetInv'
<1> SUFFICES ASSUME FleetInv, [Next]_vars PROVE FleetInv'
  OBVIOUS
<1>1. LocalInv /\ LocalInv'
  BY LocalStep DEF FleetInv
<1>2. ASSUME NEW x \in Request, Untouched(x) PROVE Fleet(x)'
  BY <1>2 DEF FleetInv, Fleet, Untouched, Working, Serving
<1>3. ASSUME NEW r \in Request, Step(r) PROVE FleetInv'
  BY <1>1, <1>2, <1>3, FleetKept, StepTouchesOne DEF FleetInv
<1>4. CASE Around \/ UNCHANGED vars
  <2>1. UNCHANGED <<pc, account, held, try, calls, done>>
    BY <1>4 DEF Around, HangUp, Bar, Expire, Tick, vars, slots
  <2> QED BY <1>1, <1>2, <2>1 DEF FleetInv, Untouched
<1> QED BY <1>3, <1>4 DEF Next, Around

LEMMA FleetInvariant == Spec => []FleetInv
<1>1. Init => FleetInv
  <2> SUFFICES ASSUME Init, NEW r \in Request PROVE Fleet(r)
    BY LocalInit DEF FleetInv
  <2>1. /\ pc[r] = "resolve" /\ try[r].attempted = {} /\ try[r].attempt = 0
        /\ ~Working(r)
    BY DEF Init, FreshTry, Working, Serving, Calling
  <2> QED BY <2>1, FS_EmptySet DEF Fleet
<1> QED BY <1>1, FleetStep, PTL DEF Spec

(* Failover never comes back to an account, for any number of them.         *)
THEOREM FleetIsTheLimit == Spec => []CallsWithinFleet
<1>1. FleetInv => CallsWithinFleet
  BY FleetBounds DEF CallsWithinFleet
<1> QED BY <1>1, FleetInvariant, PTL

-----------------------------------------------------------------------------
(* Who moves a breaker.                                                     *)

\* The account's breaker opens or closes.
Decides(a) == states'[a].state # states[a].state /\ states'[a].state \in {Open, Closed}

Verdict(a) ==
    \E r \in Request : /\ account[r] = a /\ a \in held[r] /\ calls[r] > 0
                       /\ pc[r] \in {"dispatch", "redispatch", "write"}

(* An account's breaker opens or closes only by what a request says of a    *)
(* call it made to this very account, in a slot it holds there: not for a   *)
(* lost race, a failed token refresh, a look by the resolver or what        *)
(* another account did in the same request (RecordFailure in the branches   *)
(* of the loop, and recordHealthAfterWrite).                                *)
BlameIsEarned == [][\A a \in Account : Decides(a) => Verdict(a)]_vars

\* Whoever serves has called.
CalledInv == LocalInv /\ \A r \in Request : Serving(r) => calls[r] > 0

LEMMA CalledStep == CalledInv /\ [Next]_vars => CalledInv'
<1> SUFFICES ASSUME CalledInv, [Next]_vars PROVE CalledInv'
  OBVIOUS
<1>1. LocalInv /\ LocalInv'
  BY LocalStep DEF CalledInv
<1>2. ASSUME NEW x \in Request, Untouched(x) PROVE Serving(x)' => calls'[x] > 0
  BY <1>2 DEF CalledInv, Untouched, Serving
<1>3. ASSUME NEW r \in Request, Step(r) PROVE Serving(r)' => calls'[r] > 0
  <2>1. /\ pc \in [Request -> Place] /\ calls \in [Request -> Nat]
        /\ Serving(r) => calls[r] > 0
    BY DEF CalledInv, LocalInv, TypeOK
  <2>2. CASE Resolves(r)
    <3>1. PICK a : Chosen(r, a)
      BY <2>2, Zenon DEF Resolves, ResolveSticky, ResolveFresh
    <3>2. pc'[r] \in {"fresh", "slot"}
      BY <2>1, <3>1 DEF Chosen, Go
    <3> QED BY <3>2 DEF Serving, Calling
  <2>3. CASE FailsOver(r)
    <3>1. PICK t : Failover(r, t)
      BY <1>1, <2>3, FailoverFrom DEF FailsWith
    <3> QED BY <2>1, <3>1 DEF Failover, Go, Serving, Calling
  <2>4. CASE Ends(r)
    <3>1. PICK recorded : Return(r, recorded)
      BY <1>1, <2>4, EndsWith DEF ReturnsWith
    <3> QED BY <2>1, <3>1 DEF Return, Over, Go, Serving, Calling
  <2>5. CASE GoesOn(r)
    BY <2>1, <2>5
    DEF GoesOn, EnsureFresh, Acquire, ForceRefresh, Rectify, Commit, Unauthorized,
        RectifiedFails, SettledAnswer, RectifiedAnswer, Call, Go, At, Serving, Calling
  <2>6. CASE NextEndpoint(r)
    BY <2>1, <2>6 DEF NextEndpoint
  <2> QED BY <1>3, <2>2, <2>3, <2>4, <2>5, <2>6, StepSplits
<1>4. CASE Around \/ UNCHANGED vars
  <2>1. UNCHANGED <<pc, account, held, try, calls, done>>
    BY <1>4 DEF Around, HangUp, Bar, Expire, Tick, vars, slots
  <2> QED BY <1>1, <1>2, <2>1 DEF CalledInv, Untouched
<1> QED BY <1>1, <1>2, <1>3, <1>4, StepTouchesOne DEF CalledInv, Next, Around

(* A look at the breaker opens it to trials and no more.                    *)
LEMMA LookDecidesNothing ==
    ASSUME TypeOK, NEW as, Consulted(as), NEW a \in Account PROVE ~Decides(a)
<1>1. states'[a] = states[a] \/ states'[a].state = HalfOpen
  BY DEF Consulted, AfterIsAvailable, OnTrial
<1> QED BY <1>1 DEF Decides, Open, Closed, HalfOpen

LEMMA VerdictsDecide ==
    ASSUME CalledInv, NEW r \in Request, Step(r), NEW a \in Account, Decides(a)
    PROVE  Verdict(a)
<1>0. LocalInv /\ TypeOK /\ states \in [Account -> AccountState]
  BY DEF CalledInv, LocalInv, TypeOK
<1>1. ASSUME account[r] = a, pc[r] \in {"dispatch", "redispatch", "write"}
      PROVE  Verdict(a)
  <2>1. Serving(r)
    BY <1>1 DEF Serving, Calling
  <2> QED BY <1>0, <1>1, <2>1 DEF Verdict, CalledInv, LocalInv, Local, SlotInv
<1>2. CASE UNCHANGED states
  BY <1>2 DEF Decides
<1>3. CASE Resolves(r) \/ Reject(r) \/ Exhaust(r)
  <2>1. UNCHANGED states \/ \E as : Consulted(as)
    BY <1>3, Zenon DEF Resolves, ResolveSticky, ResolveFresh, Reject, Exhaust, NoCandidate
  <2> QED BY <1>0, <1>2, <2>1, LookDecidesNothing
<1>4. CASE FailsOver(r)
  <2>1. CASE UNCHANGED tracker
    BY <1>2, <2>1 DEF tracker
  <2>2. CASE RecordFailure(account[r]) /\ pc[r] \in {"dispatch", "redispatch"}
    <3>1. account[r] = a
      BY <1>0, <2>2 DEF RecordFailure, Decides
    <3> QED BY <1>1, <2>2, <3>1
  <2> QED BY <1>4, <2>1, <2>2
      DEF FailsOver, EnsureFreshFails, AcquireFails, TransportFails, ForceRefreshFails,
          RetriableAnswer
<1>5. CASE Written(r)
  <2>1. PICK f : states' = [states EXCEPT ![account[r]] = f]
    BY <1>5 DEF Written
  <2>2. account[r] = a
    BY <1>0, <2>1 DEF Decides
  <2> QED BY <1>1, <1>5, <2>2 DEF Written, At
<1>6. CASE GoesOn(r)
  <2>1. UNCHANGED tracker
    BY <1>6 DEF GoesOn, EnsureFresh, Acquire, ForceRefresh, Rectify, Commit, Unauthorized,
                RectifiedFails, SettledAnswer, RectifiedAnswer
  <2> QED BY <1>2, <2>1 DEF tracker
<1>7. CASE NextEndpoint(r)
  BY <1>2, <1>7 DEF NextEndpoint, tracker
<1> QED BY <1>3, <1>4, <1>5, <1>6, <1>7, StepSplits DEF Ends

(* No account is taken out of rotation, or back, for another one's doing.   *)
THEOREM BlameFallsOnCallers == Spec => BlameIsEarned
<1>1. Init => CalledInv
  BY LocalInit DEF Init, CalledInv, Serving, Calling
<1>2. CalledInv /\ [Next]_vars => [\A a \in Account : Decides(a) => Verdict(a)]_vars
  <2> SUFFICES ASSUME CalledInv, Next, NEW a \in Account, Decides(a) PROVE Verdict(a)
    OBVIOUS
  <2>1. CASE \E r \in Request : Step(r)
    BY <2>1, VerdictsDecide
  <2>2. CASE Around
    <3>1. states'[a].state = states[a].state
      BY <2>2 DEF Around, HangUp, Bar, Expire, Tick, tracker, Elapse, CalledInv, LocalInv,
                  TypeOK, AccountState
    <3> QED BY <3>1 DEF Decides
  <2> QED BY <2>1, <2>2 DEF Next, Around
<1> QED BY <1>1, <1>2, CalledStep, PTL DEF Spec, BlameIsEarned
=============================================================================
