-------------------------------- MODULE Prober --------------------------------
(***************************************************************************)
(* The active health prober (internal/service/health/prober.go) beside the *)
(* requests of CircuitBreaker.  A pass takes a snapshot of the pool, tests *)
(* every account that opted in, waits for all of them, applies the         *)
(* verdicts to the tracker one after the other, and forgets the counters   *)
(* of accounts that were not in the snapshot.  Requests, edits and the     *)
(* upstreams themselves move on meanwhile.                                 *)
(*                                                                         *)
(* The prober is one more caller of the tracker: the goroutine that        *)
(* applies the verdicts runs the TransitionHandler too.                    *)
(***************************************************************************)
EXTENDS CircuitBreaker

CONSTANTS
    prober,          \* the caller that is no request
    RedThreshold,
    GreenThreshold

ASSUME ProberAssumption ==
    /\ prober \in Caller
    /\ RedThreshold \in Nat \ {0} /\ GreenThreshold \in Nat \ {0}

VARIABLES
    upstream,    \* how each account's upstream is doing
    optIn,       \* gone from the pool, in it, or in it and to be probed
    probeState,  \* Prober.state, each count saturating at its threshold
    pass,        \* asleep, or waiting for a pass to be over
    live,        \* the accounts of the pass's snapshot
    awaiting,    \* those whose test has not returned
    results,     \* verdicts not applied yet
    redsSeen     \* observed: tests that failed since the last that passed

probes == <<probeState, pass, live, awaiting, results, redsSeen>>
surroundings == <<upstream, optIn>>
proberVars == <<vars, probes, surroundings>>

Counts == [reds : 0..RedThreshold, greens : 0..GreenThreshold]
NoCounts == [reds |-> 0, greens |-> 0]
Upstream == {"up", "slow", "down"}

ProberTypeOK ==
    /\ TypeOK
    /\ upstream \in [Account -> Upstream]
    /\ optIn \in [Account -> {"gone", "out", "in"}]
    /\ probeState \in [Account -> Counts]
    /\ pass \in {"asleep", "probing"}
    /\ live \subseteq Account
    /\ awaiting \subseteq live
    /\ results \in [Account -> {"none", "green", "red"}]
    /\ redsSeen \in [Account -> 0..RedThreshold]

ProberInit ==
    /\ Init
    /\ upstream = [a \in Account |-> "up"]
    /\ optIn \in [Account -> {"out", "in"}]
    /\ probeState = [a \in Account |-> NoCounts]
    /\ pass = "asleep" /\ live = {} /\ awaiting = {}
    /\ results = [a \in Account |-> "none"]
    /\ redsSeen = [a \in Account |-> 0]

UpTo(n, bound) == IF n < bound THEN n + 1 ELSE n

-----------------------------------------------------------------------------
(* A pass.                                                                  *)

StartPass ==
    /\ pass = "asleep" /\ pass' = "probing"
    /\ live' = {a \in Account : optIn[a] # "gone"}
    /\ awaiting' = {a \in Account : optIn[a] = "in"}
    /\ UNCHANGED <<vars, surroundings, probeState, results, redsSeen>>

Verdict(a) ==
    CASE upstream[a] = "up"   -> "green"
      [] upstream[a] = "slow" -> "none"
      [] upstream[a] = "down" -> "red"

(* One test returns.  A slow or rate-limited upstream gets no verdict.      *)
Answer(a) ==
    /\ a \in awaiting
    /\ awaiting' = awaiting \ {a}
    /\ results' = [results EXCEPT ![a] = Verdict(a)]
    /\ redsSeen' = CASE Verdict(a) = "red"   -> [redsSeen EXCEPT ![a] = UpTo(@, RedThreshold)]
                     [] Verdict(a) = "green" -> [redsSeen EXCEPT ![a] = 0]
                     [] OTHER                -> redsSeen
    /\ UNCHANGED <<vars, surroundings, probeState, pass, live>>

(* Every test has returned, and so has the handler of the last verdict.     *)
Applying == pass = "probing" /\ awaiting = {} /\ Free(prober)

Applied(a) ==
    /\ results' = [results EXCEPT ![a] = "none"]
    /\ UNCHANGED <<request, surroundings, pass, live, awaiting, redsSeen>>

(* Mutant: a green verdict does not end the run of reds.                    *)
ApplyGreenKeepsReds(a) ==
    LET greens == UpTo(probeState[a].greens, GreenThreshold)
    IN  /\ Applying /\ results[a] = "green"
        /\ probeState' = [probeState EXCEPT ![a].greens = greens]
        /\ IF greens >= GreenThreshold
           THEN RecordSuccess(prober, a)
           ELSE UNCHANGED <<tracker, outbox, observed>>
        /\ Applied(a)

(* Mutant: the tracker is told once, when the run reaches the threshold.    *)
ApplyGreenOnce(a) ==
    LET greens == UpTo(probeState[a].greens, GreenThreshold)
    IN  /\ Applying /\ results[a] = "green"
        /\ probeState' = [probeState EXCEPT ![a] = [reds |-> 0, greens |-> greens]]
        /\ IF greens > probeState[a].greens /\ greens = GreenThreshold
           THEN RecordSuccess(prober, a)
           ELSE UNCHANGED <<tracker, outbox, observed>>
        /\ Applied(a)

ApplyGreen(a) ==
    LET greens == UpTo(probeState[a].greens, GreenThreshold)
    IN  /\ Applying /\ results[a] = "green"
        /\ probeState' = [probeState EXCEPT ![a] = [reds |-> 0, greens |-> greens]]
        /\ IF greens >= GreenThreshold
           THEN RecordSuccess(prober, a)
           ELSE UNCHANGED <<tracker, outbox, observed>>
        /\ Applied(a)

(* Mutant: likewise.                                                        *)
ApplyRedOnce(a) ==
    LET reds == UpTo(probeState[a].reds, RedThreshold)
    IN  /\ Applying /\ results[a] = "red"
        /\ probeState' = [probeState EXCEPT ![a] = [reds |-> reds, greens |-> 0]]
        /\ IF reds > probeState[a].reds /\ reds = RedThreshold
           THEN RecordFailure(prober, a)
           ELSE UNCHANGED <<tracker, outbox, observed>>
        /\ Applied(a)

ApplyRed(a) ==
    LET reds == UpTo(probeState[a].reds, RedThreshold)
    IN  /\ Applying /\ results[a] = "red"
        /\ probeState' = [probeState EXCEPT ![a] = [reds |-> reds, greens |-> 0]]
        /\ IF reds >= RedThreshold
           THEN RecordFailure(prober, a)
           ELSE UNCHANGED <<tracker, outbox, observed>>
        /\ Applied(a)

EndPass ==
    /\ Applying
    /\ \A a \in Account : results[a] = "none"
    /\ pass' = "asleep"
    /\ probeState' = [a \in Account |-> IF a \in live THEN probeState[a] ELSE NoCounts]
    /\ live' = {}
    /\ UNCHANGED <<vars, surroundings, awaiting, results, redsSeen>>

Pass ==
    \/ StartPass \/ EndPass
    \/ \E a \in Account : Answer(a) \/ ApplyGreen(a) \/ ApplyRed(a)
    \/ HandOver(prober) /\ UNCHANGED <<probes, surroundings>>

-----------------------------------------------------------------------------
(* Everything else.  No request succeeds on an upstream that is down; one   *)
(* may fail on any, as a client that hangs up is counted.                   *)

RequestStep(c) ==
    /\ \/ \E a \in Account : Route(c, a) \/ Overlook(c, a)
       \/ Succeed(c) /\ upstream[request[c].account] # "down"
       \/ SetCooldown(c) \/ Fail(c) \/ Abstain(c)
       \/ HandOver(c)
    /\ UNCHANGED <<probes, surroundings>>

Change(a) ==
    /\ \/ upstream' \in {[upstream EXCEPT ![a] = u] : u \in Upstream} /\ UNCHANGED optIn
       \/ optIn' \in {[optIn EXCEPT ![a] = o] : o \in {"gone", "out", "in"}}
          /\ UNCHANGED upstream
    /\ UNCHANGED <<vars, probes>>

ProberNext ==
    \/ Pass
    \/ \E c \in Caller \ {prober} : RequestStep(c)
    \/ \E a \in Account : Change(a)
    \/ \E a \in Account : Operator(a) /\ UNCHANGED <<probes, surroundings>>
    \/ Tick /\ UNCHANGED <<probes, surroundings>>

ProberSpec == ProberInit /\ [][ProberNext]_proberVars

-----------------------------------------------------------------------------
(* The prober puts a breaker into open only after RedThreshold tests of the *)
(* account have failed and none has passed since the first of them: a       *)
(* transient red never flips an account, whatever requests, edits and       *)
(* earlier passes have left behind.                                         *)
Ejects(a) ==
    /\ Free(prober) /\ outbox'[prober] # NoTransition
    /\ states[a].state # Open /\ states'[a].state = Open

EjectNeedsReds ==
    [][\A a \in Account : Ejects(a) => redsSeen[a] >= RedThreshold]_proberVars

-----------------------------------------------------------------------------
(* Liveness: the prober's goroutine goes on (its tests time out), and so do *)
(* the handlers of requests.                                                *)
ProberFairness ==
    /\ WF_proberVars(Pass)
    /\ \A c \in Caller \ {prober} : WF_proberVars(RequestStep(c) /\ HandOver(c))

ProberLiveSpec == ProberSpec /\ ProberFairness

Probed(a) == optIn[a] = "in" /\ ~Disabled(config[a])

(* "A sustained outage reliably opens the breaker", and opens it again      *)
(* whenever a trial request is let through, with or without traffic.        *)
OutageOpens ==
    \A a \in Account :
        <>[](upstream[a] = "down" /\ Probed(a)) => []<>(states[a].state = Open)

(* A recovered account is closed again "before real traffic": the probes    *)
(* alone close it, and it stays closed.                                     *)
RecoveryCloses ==
    \A a \in Account :
        <>[](/\ upstream[a] = "up" /\ Probed(a)
             /\ \A c \in Caller : request[c] = Idle \/ request[c].account # a)
            => <>[](states[a].state = Closed)
=============================================================================
