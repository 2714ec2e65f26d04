------------------------------- MODULE Tracker -------------------------------
(***************************************************************************)
(* The decisions of health.Tracker (internal/service/health/tracker.go),   *)
(* one operator per method, as functions of one account's record, its      *)
(* cooldown and its effective configuration.  Every method of the code     *)
(* runs under Tracker.mu, so each of these is one atomic step.             *)
(*                                                                         *)
(* Deadlines are kept relative to the clock: openFor is the number of      *)
(* ticks until openUntil and -1 once the clock is past it, so time itself  *)
(* is unbounded.  failureCount is only ever compared with a threshold and  *)
(* saturates at FailureCap, which no threshold exceeds.                    *)
(***************************************************************************)
EXTENDS Integers

CONSTANTS
    FailureCap,   \* where the abstraction of failureCount saturates
    MaxOpen,      \* the longest OpenDuration, in ticks
    MaxQuota,     \* the largest HalfOpenSuccessThreshold
    Configs       \* the configurations operators use

Config == [threshold : 0..FailureCap, openDuration : 0..MaxOpen,
           quota : 0..MaxQuota]

ASSUME TrackerAssumption ==
    /\ FailureCap \in Nat
    /\ MaxOpen \in Nat
    /\ MaxQuota \in Nat
    /\ Configs \subseteq Config

Closed == "closed"
Open == "open"
HalfOpen == "half-open"
CircuitState == {Closed, Open, HalfOpen}

AccountState == [state : CircuitState, failureCount : 0..FailureCap,
                 openFor : -1..MaxOpen, halfOpenSuccess : 0..MaxQuota]

\* A missing record and a fresh one behave alike (getOrCreate, Snapshot).
Fresh == [state |-> Closed, failureCount |-> 0, openFor |-> -1,
          halfOpenSuccess |-> 0]

Disabled(cfg) == cfg.threshold <= 0

\* Mutant: the deadline is compared for equality.
TrialDueOnTheDot(s, cfg) == ~Disabled(cfg) /\ s.state = Open /\ s.openFor = 0

TrialDue(s, cfg) == ~Disabled(cfg) /\ s.state = Open /\ s.openFor < 0

OnTrial(s, wins) ==
    [state |-> HalfOpen, failureCount |-> s.failureCount, openFor |-> s.openFor,
     halfOpenSuccess |-> wins]

\* The value IsAvailable returns ...
IsAvailable(s, cool, cfg) ==
    cool = 0 /\ (Disabled(cfg) \/ s.state # Open \/ TrialDue(s, cfg))

\* ... and the record it leaves behind.
AfterIsAvailable(s, cool, cfg) ==
    IF cool = 0 /\ TrialDue(s, cfg)
    THEN OnTrial(s, 0)
    ELSE s

\* In half-open the success is added up; a success that finds the breaker open
\* is taken as the first of a half-open phase.
TrialWon(s, cfg) ==
    LET wins == IF s.state = Open THEN 1 ELSE s.halfOpenSuccess + 1
    IN  IF wins >= cfg.quota
        THEN Fresh
        ELSE OnTrial(s, wins)

\* Mutant: a success leaves the count of a closed breaker alone.
AfterSuccessKeepsCount(s, cfg) ==
    IF Disabled(cfg) \/ s.state = Closed THEN s ELSE TrialWon(s, cfg)

AfterSuccess(s, cfg) ==
    CASE Disabled(cfg)     -> s
      [] ~Disabled(cfg) /\ s.state = Closed -> [s EXCEPT !.failureCount = 0]
      [] ~Disabled(cfg) /\ s.state # Closed -> TrialWon(s, cfg)

Count(n) == IF n < FailureCap THEN n + 1 ELSE n

\* Mutant: a failed trial keeps the successes before it.
TripKeepsWins(s, cfg) ==
    [state |-> Open, failureCount |-> Count(s.failureCount),
     openFor |-> cfg.openDuration, halfOpenSuccess |-> s.halfOpenSuccess]

Trip(s, cfg) ==
    [state |-> Open, failureCount |-> Count(s.failureCount),
     openFor |-> cfg.openDuration,
     halfOpenSuccess |-> IF s.state = Open THEN s.halfOpenSuccess ELSE 0]

\* Mutant: a failure counts only against a breaker that is closed.
AfterFailureSparesTrials(s, cfg) ==
    IF Disabled(cfg) \/ s.state # Closed THEN s
    ELSE IF Count(s.failureCount) < cfg.threshold
         THEN [s EXCEPT !.failureCount = Count(@)]
         ELSE Trip(s, cfg)

AfterFailure(s, cfg) ==
    IF Disabled(cfg) THEN s
    ELSE IF s.state = Closed /\ Count(s.failureCount) < cfg.threshold
         THEN [s EXCEPT !.failureCount = Count(@)]
         ELSE Trip(s, cfg)

\* One tick of the clock on a deadline kept as the time left.
Elapse(s) == [s EXCEPT !.openFor = IF @ >= 0 THEN @ - 1 ELSE @]
CoolDown(cool) == IF cool > 0 THEN cool - 1 ELSE 0
=============================================================================
