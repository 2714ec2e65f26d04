------------------------------ MODULE AuthGuard ------------------------------
(***************************************************************************)
(* One api_key account and the guard that parks it: requests report what   *)
(* came of their calls, the one that completes a streak of refusals parks  *)
(* the account after it has let go of the guard's mutex, and a sweep tests *)
(* what the guard has parked and restores it.  What is parked is known in  *)
(* memory; that it is parked is known in the database.                     *)
(*                                                                         *)
(* streak and forgotten observe.                                           *)
(***************************************************************************)
EXTENDS Integers

CONSTANTS
    Request,
    Threshold,   \* Guard.threshold
    MaxRestarts  \* bound: restarts in a behaviour

ASSUME GuardAssumption == Threshold \in Nat \ {0} /\ MaxRestarts \in Nat

VARIABLES
    row,       \* the account in the database
    pool,      \* the account pool's copy of it
    good,      \* the upstream accepts its key
    fails,     \* Guard.fails, counted to the threshold
    tripped,   \* Guard.tripped
    pc,        \* where each request is
    sweep,     \* where the recovery sweep is
    restarts,
    streak,    \* refusals recorded since the last success or clear
    forgotten  \* the guard may have forgotten an account that is parked

guard == <<fails, tripped>>
observed == <<streak, forgotten>>
vars == <<row, pool, good, guard, pc, sweep, restarts, observed>>

\* enabled: in the pool once it is read again.
Row == [status : {"ok", "revoked"}, enabled : BOOLEAN]

GuardTypeOK ==
    /\ row \in Row
    /\ pool \in Row
    /\ good \in BOOLEAN
    /\ fails \in 0..Threshold
    /\ tripped \in BOOLEAN
    /\ pc \in [Request -> {"idle", "call", "refused", "accepted", "park"}]
    /\ sweep \in {"idle", "test", "restore", "clear"}
    /\ restarts \in 0..MaxRestarts
    /\ streak \in 0..Threshold
    /\ forgotten \in BOOLEAN

Init ==
    /\ row = [status |-> "ok", enabled |-> TRUE]
    /\ pool = row
    /\ good = TRUE
    /\ fails = 0
    /\ tripped = FALSE
    /\ pc = [r \in Request |-> "idle"]
    /\ sweep = "idle"
    /\ restarts = 0
    /\ streak = 0
    /\ forgotten = FALSE

At(r, p) == pc[r] = p
Go(r, p) == pc' = [pc EXCEPT ![r] = p]

Capped(n) == IF n < Threshold THEN n + 1 ELSE Threshold

-----------------------------------------------------------------------------
(* Requests.                                                                *)

Resolve(r) ==
    /\ At(r, "idle")
    /\ pool = [status |-> "ok", enabled |-> TRUE]
    /\ Go(r, "call")
    /\ UNCHANGED <<row, pool, good, guard, sweep, restarts, observed>>

\* A request that is refused or fails on another ground is no news.
Answer(r) ==
    /\ At(r, "call")
    /\ \/ ~good /\ Go(r, "refused")
       \/ good /\ Go(r, "accepted")
       \/ Go(r, "idle")
    /\ UNCHANGED <<row, pool, good, guard, sweep, restarts, observed>>

\* Record of a 401 or 403, under the mutex.
RecordRefusal(r) ==
    /\ At(r, "refused")
    /\ fails' = Capped(fails)
    /\ streak' = Capped(streak)
    /\ IF fails' = Threshold /\ ~tripped
       THEN tripped' = TRUE /\ Go(r, "park")
       ELSE Go(r, "idle") /\ UNCHANGED tripped
    /\ UNCHANGED <<row, pool, good, sweep, restarts, forgotten>>

(* Mutant: a success does not end the streak.                               *)
RecordSuccessIdly(r) ==
    /\ At(r, "accepted")
    /\ streak' = 0
    /\ Go(r, "idle")
    /\ UNCHANGED <<row, pool, good, guard, sweep, restarts, forgotten>>

\* Record of a 2xx.  An account that is tripped stays so.
RecordSuccess(r) ==
    /\ At(r, "accepted")
    /\ fails' = 0
    /\ streak' = 0
    /\ Go(r, "idle")
    /\ UNCHANGED <<row, pool, good, tripped, sweep, restarts, forgotten>>

\* UpdateAuthRuntime, after the mutex was released: by now the sweep may have
\* tested, restored and cleared the account.
Park(r) ==
    /\ At(r, "park")
    /\ row' = [row EXCEPT !.status = "revoked"]
    /\ Go(r, "idle")
    /\ forgotten' = (forgotten \/ ~tripped \/ sweep = "clear")
    /\ UNCHANGED <<pool, good, guard, sweep, restarts, streak>>

(* Mutant: the trip flag stays up when the account could not be parked.     *)
ParkFailsTripped(r) ==
    /\ At(r, "park")
    /\ Go(r, "idle")
    /\ UNCHANGED <<row, pool, good, guard, sweep, restarts, observed>>

\* The database fails, or the client is gone and its context with it.  A later
\* failure shall try again.
ParkFails(r) ==
    /\ At(r, "park")
    /\ tripped' = FALSE
    /\ Go(r, "idle")
    /\ forgotten' = (forgotten \/ row.status = "revoked")
    /\ UNCHANGED <<row, pool, good, fails, sweep, restarts, streak>>

-----------------------------------------------------------------------------
(* The recovery sweep.                                                      *)

\* clear.
Clear ==
    /\ fails' = 0 /\ streak' = 0
    /\ tripped' = FALSE

\* The sweep works on the pool it read when it started.
Sweep ==
    /\ sweep = "idle" /\ tripped /\ pool.enabled
    /\ sweep' = "test"
    /\ UNCHANGED <<row, pool, good, guard, pc, restarts, observed>>

\* Account left the pool: forget it.
Forget ==
    /\ sweep = "idle" /\ tripped /\ ~pool.enabled
    /\ Clear
    /\ forgotten' = (forgotten \/ row.status = "revoked")
    /\ UNCHANGED <<row, pool, good, pc, sweep, restarts>>

TestGreen ==
    /\ sweep = "test" /\ good
    /\ sweep' = "restore"
    /\ UNCHANGED <<row, pool, good, guard, pc, restarts, observed>>

TestFails ==
    /\ sweep = "test"
    /\ sweep' = "idle"
    /\ UNCHANGED <<row, pool, good, guard, pc, restarts, observed>>

Restore ==
    /\ sweep = "restore"
    /\ row' = [row EXCEPT !.status = "ok"]
    /\ sweep' = "clear"
    /\ UNCHANGED <<pool, good, guard, pc, restarts, observed>>

(* Mutant: what could not be restored is forgotten.                         *)
RestoreFailsForgetting ==
    /\ sweep = "restore"
    /\ sweep' = "clear"
    /\ UNCHANGED <<row, pool, good, guard, pc, restarts, observed>>

RestoreFails ==
    /\ sweep = "restore"
    /\ sweep' = "idle"
    /\ UNCHANGED <<row, pool, good, guard, pc, restarts, observed>>

Restored ==
    /\ sweep = "clear"
    /\ Clear
    /\ sweep' = "idle"
    /\ UNCHANGED <<row, pool, good, pc, restarts, forgotten>>

-----------------------------------------------------------------------------
(* The world around.                                                        *)

PoolRefresh ==
    /\ pool' = row
    /\ UNCHANGED <<row, good, guard, pc, sweep, restarts, observed>>

\* The key is revoked, or mended, upstream or by an administrator.
Turn ==
    /\ good' = ~good
    /\ UNCHANGED <<row, pool, guard, pc, sweep, restarts, observed>>

\* Update by an administrator, which leaves auth_status alone.
Toggle ==
    /\ row' = [row EXCEPT !.enabled = ~@]
    /\ UNCHANGED <<pool, good, guard, pc, sweep, restarts, observed>>

Restart ==
    /\ restarts < MaxRestarts
    /\ restarts' = restarts + 1
    /\ pool' = row
    /\ fails' = 0 /\ streak' = 0
    /\ tripped' = FALSE
    /\ pc' = [r \in Request |-> "idle"]
    /\ sweep' = "idle"
    /\ forgotten' = (forgotten \/ row.status = "revoked")
    /\ UNCHANGED <<row, good>>

-----------------------------------------------------------------------------
RequestStep(r) ==
    \/ Answer(r) \/ RecordRefusal(r) \/ RecordSuccess(r) \/ Park(r) \/ ParkFails(r)

SweepStep == TestGreen \/ TestFails \/ Restore \/ RestoreFails \/ Restored

Next ==
    \/ \E r \in Request : Resolve(r) \/ RequestStep(r)
    \/ Sweep \/ Forget \/ SweepStep
    \/ PoolRefresh \/ Turn \/ Toggle \/ Restart

Spec == Init /\ [][Next]_vars

-----------------------------------------------------------------------------
(* Safety.                                                                  *)

Trips(r) == ~At(r, "park") /\ At(r, "park")'
StreakBehindTrip == \A r \in Request : Trips(r) => streak' = Threshold

(* A single 401 ejects nobody: whatever order outcomes are recorded in, a   *)
(* request goes on to park the account only after Threshold refusals in a   *)
(* row, none of them counted for an earlier parking that is over.           *)
TripsAfterStreak == [][StreakBehindTrip]_vars

(* Memory and database agree: an account that is parked is one the sweep    *)
(* will test, but for a park that landed after the account was cleared, a   *)
(* removal from the pool and a restart.                                     *)
ParkedIsRemembered == row.status = "revoked" /\ ~forgotten => tripped

-----------------------------------------------------------------------------
(* Liveness: requests and sweeps go on, what is tried now and then works,   *)
(* and some day writes no longer fail.                                      *)
WriteFails == RestoreFails \/ \E r \in Request : ParkFails(r)

Fairness ==
    /\ \A r \in Request :
          /\ WF_vars(Resolve(r)) /\ WF_vars(RequestStep(r))
          /\ SF_vars(RecordRefusal(r) \/ RecordSuccess(r) \/ (Answer(r) /\ ~At(r, "idle")'))
    /\ WF_vars(Sweep) /\ WF_vars(Forget) /\ WF_vars(SweepStep) /\ SF_vars(TestGreen)
    /\ WF_vars(PoolRefresh)
    /\ <>[][~WriteFails]_vars

LiveSpec == Spec /\ Fairness

(* An account whose key stays dead is taken out of rotation, and out it     *)
(* stays: no order of parks, restores and restarts leaves it tripped and    *)
(* in rotation.                                                             *)
DeadIsParked == <>[](~good /\ row.enabled) => <>[](row.status = "revoked")

(* An account whose key works again comes back, unless a restart, its       *)
(* removal from the pool or a park that arrived late made the guard forget  *)
(* that it is parked.                                                       *)
GoodIsRestored == <>[](good /\ row.enabled /\ ~forgotten) => <>[](row.status = "ok")
=============================================================================
