--------------------------- MODULE AuthGuardProofs ---------------------------
(***************************************************************************)
(* Theorems about AuthGuard for any number of requests, any threshold and  *)
(* any number of restarts, with their proofs.                              *)
(***************************************************************************)
EXTENDS AuthGuard, TLAPS

(* The capped counter stays in its range. *)
LEMMA CappedType ==
    ASSUME NEW n \in 0..Threshold
    PROVE  Capped(n) \in 0..Threshold
BY GuardAssumption DEF GuardAssumption, Capped

\* The guard's count is that of the streak, and an account found parked after
\* the sweep has restored it is one parked anew.
Remembers ==
    /\ fails = streak
    /\ row.status = "revoked" /\ ~forgotten => tripped
    /\ row.status = "revoked" /\ sweep = "clear" => forgotten

GuardInv == GuardTypeOK /\ Remembers

(* Types and memory are kept along every behaviour. *)
LEMMA GuardInvariant == Spec => []GuardInv
<1> USE GuardAssumption DEF GuardAssumption
<1>1. Init => GuardInv
  <2> SUFFICES ASSUME Init PROVE GuardInv
    OBVIOUS
  <2>1. good \in BOOLEAN /\ tripped \in BOOLEAN /\ forgotten \in BOOLEAN
    BY Zenon DEF Init
  <2>2. row \in Row /\ pool \in Row /\ row.status = "ok"
    BY DEF Init, Row
  <2>3. /\ pc \in [Request -> {"idle", "call", "refused", "accepted", "park"}]
        /\ sweep \in {"idle", "test", "restore", "clear"}
        /\ fails \in 0..Threshold /\ streak \in 0..Threshold /\ restarts \in 0..MaxRestarts
        /\ fails = streak
    BY DEF Init
  <2> QED BY <2>1, <2>2, <2>3 DEF GuardInv, GuardTypeOK, Remembers
<1>2. GuardInv /\ [Next]_vars => GuardInv'
  <2> SUFFICES ASSUME GuardInv, [Next]_vars PROVE GuardInv'
    OBVIOUS
  <2>0. /\ row \in Row /\ pool \in Row /\ good \in BOOLEAN
        /\ fails \in 0..Threshold /\ tripped \in BOOLEAN
        /\ pc \in [Request -> {"idle", "call", "refused", "accepted", "park"}]
        /\ sweep \in {"idle", "test", "restore", "clear"}
        /\ restarts \in 0..MaxRestarts /\ streak \in 0..Threshold /\ forgotten \in BOOLEAN
        /\ Remembers
    BY DEF GuardInv, GuardTypeOK
  <2> USE <2>0 DEF GuardInv, GuardTypeOK, Remembers, At, Go, guard, observed
  <2>1. ASSUME NEW r \in Request, Resolve(r) PROVE GuardInv'
    BY <2>1 DEF Resolve
  <2>2. ASSUME NEW r \in Request, Answer(r) PROVE GuardInv'
    BY <2>2 DEF Answer
  <2>3. ASSUME NEW r \in Request, RecordRefusal(r) PROVE GuardInv'
    BY <2>3, CappedType DEF RecordRefusal
  <2>4. ASSUME NEW r \in Request, RecordSuccess(r) PROVE GuardInv'
    BY <2>4 DEF RecordSuccess
  <2>5. ASSUME NEW r \in Request, Park(r) PROVE GuardInv'
    <3>1. row' \in Row /\ forgotten' \in BOOLEAN
      BY <2>5 DEF Park, Row
    <3> QED BY <2>5, <3>1 DEF Park
  <2>6. ASSUME NEW r \in Request, ParkFails(r) PROVE GuardInv'
    <3>1. tripped' \in BOOLEAN /\ forgotten' \in BOOLEAN
      BY <2>6, Zenon DEF ParkFails
    <3>2. row.status = "revoked" => forgotten'
      BY <2>6, Zenon DEF ParkFails
    <3>3. /\ pc' \in [Request -> {"idle", "call", "refused", "accepted", "park"}]
          /\ UNCHANGED <<row, pool, good, fails, sweep, restarts, streak>>
      BY <2>6 DEF ParkFails
    <3> QED BY <3>1, <3>2, <3>3
  <2>7. CASE Sweep
    BY <2>7 DEF Sweep
  <2>8. CASE Forget
    <3>1. tripped' \in BOOLEAN /\ forgotten' \in BOOLEAN
      BY <2>8, Zenon DEF Forget, Clear
    <3>2. row.status = "revoked" => forgotten'
      BY <2>8, Zenon DEF Forget
    <3>3. /\ fails' = 0 /\ streak' = 0
          /\ UNCHANGED <<row, pool, good, pc, sweep, restarts>>
      BY <2>8 DEF Forget, Clear
    <3> QED BY <3>1, <3>2, <3>3
  <2>9. CASE TestGreen \/ TestFails \/ RestoreFails
    BY <2>9 DEF TestGreen, TestFails, RestoreFails
  <2>10. CASE Restore
    <3>1. row' \in Row /\ row'.status = "ok"
      BY <2>10 DEF Restore, Row
    <3> QED BY <2>10, <3>1 DEF Restore
  <2>11. CASE Restored
    <3>1. tripped' \in BOOLEAN
      BY <2>11, Zenon DEF Restored, Clear
    <3> QED BY <2>11, <3>1 DEF Restored, Clear
  <2>12. CASE PoolRefresh
    BY <2>12 DEF PoolRefresh
  <2>13. CASE Turn
    <3>1. good' \in BOOLEAN
      BY <2>13, Zenon DEF Turn
    <3> QED BY <2>13, <3>1 DEF Turn
  <2>14. CASE Toggle
    <3>1. row' \in Row /\ row'.status = row.status
      BY <2>14 DEF Toggle, Row
    <3> QED BY <2>14, <3>1 DEF Toggle
  <2>15. CASE Restart
    <3>1. tripped' \in BOOLEAN /\ forgotten' \in BOOLEAN
      BY <2>15, Zenon DEF Restart
    <3> QED BY <2>15, <3>1 DEF Restart
  <2>16. CASE UNCHANGED vars
    BY <2>16 DEF vars
  <2> QED BY <2>1, <2>2, <2>3, <2>4, <2>5, <2>6, <2>7, <2>8, <2>9, <2>10, <2>11, <2>12,
             <2>13, <2>14, <2>15, <2>16
       DEF Next, RequestStep, SweepStep
<1> QED BY <1>1, <1>2, PTL DEF Spec

(* The variables keep their types along every behaviour. *)
THEOREM GuardTypeCorrect == Spec => []GuardTypeOK
BY GuardInvariant, PTL DEF GuardInv

(* What is parked is remembered, whatever the order of parks and restores. *)
THEOREM GuardRemembers == Spec => []ParkedIsRemembered
<1>1. GuardInv => ParkedIsRemembered
  BY DEF GuardInv, Remembers, ParkedIsRemembered
<1> QED BY <1>1, GuardInvariant, PTL

(* No request parks the account on less than a streak of refusals. *)
THEOREM TripsAreEarned == Spec => TripsAfterStreak
<1>1. GuardInv /\ [Next]_vars => [StreakBehindTrip]_vars
  <2> SUFFICES ASSUME GuardInv, [Next]_vars, vars' # vars, NEW q \in Request, Trips(q)
               PROVE  streak' = Threshold
    BY DEF StreakBehindTrip
  <2>0. pc \in [Request -> {"idle", "call", "refused", "accepted", "park"}] /\ fails = streak
    BY DEF GuardInv, GuardTypeOK, Remembers
  <2> USE <2>0 DEF Trips, At, Go
  <2>1. ASSUME NEW r \in Request, RecordRefusal(r) PROVE streak' = Threshold
    BY <2>1 DEF RecordRefusal
  <2>2. ASSUME NEW r \in Request,
               Resolve(r) \/ Answer(r) \/ RecordSuccess(r) \/ Park(r) \/ ParkFails(r)
        PROVE  FALSE
    BY <2>2 DEF Resolve, Answer, RecordSuccess, Park, ParkFails
  <2>3. ASSUME Sweep \/ Forget \/ SweepStep \/ PoolRefresh \/ Turn \/ Toggle \/ Restart
        PROVE  FALSE
    BY <2>3 DEF Sweep, Forget, SweepStep, TestGreen, TestFails, Restore, RestoreFails,
                Restored, PoolRefresh, Turn, Toggle, Restart
  <2> QED BY <2>1, <2>2, <2>3 DEF Next, RequestStep
<1> QED BY <1>1, GuardInvariant, PTL DEF Spec, TripsAfterStreak

(* While the trip flag is up the account is parked, or about to be by the   *)
(* request that tripped it, or the sweep has restored it and is about to    *)
(* take the flag down (Guard.tripped, and UpdateAuthRuntime after the       *)
(* unlock).                                                                 *)
TripsArePursued ==
    tripped => \/ row.status = "revoked"
               \/ \E r \in Request : At(r, "park")
               \/ sweep = "clear"

(* What DeadIsParked rests on: the flag, which keeps every later refusal    *)
(* from parking the account, is never left up over an account that is in    *)
(* rotation, for any number of requests, failed writes and restarts.        *)
THEOREM TripsAreNotStuck == Spec => []TripsArePursued
<1>1. Init => TripsArePursued
  BY DEF Init, TripsArePursued
<1>2. GuardTypeOK /\ TripsArePursued /\ [Next]_vars => TripsArePursued'
  <2> SUFFICES ASSUME GuardTypeOK, TripsArePursued, [Next]_vars, tripped'
               PROVE  \/ row'.status = "revoked"
                      \/ \E r \in Request : At(r, "park")'
                      \/ sweep' = "clear"
    BY DEF TripsArePursued
  <2>0. /\ row \in Row
        /\ pc \in [Request -> {"idle", "call", "refused", "accepted", "park"}]
        /\ tripped => \/ row.status = "revoked"
                      \/ \E r \in Request : pc[r] = "park"
                      \/ sweep = "clear"
    BY DEF GuardTypeOK, TripsArePursued, At
  <2> USE DEF At, Go, guard, observed
  <2>1. ASSUME NEW r \in Request, Resolve(r) \/ Answer(r) \/ RecordSuccess(r)
        PROVE  /\ UNCHANGED <<row, tripped, sweep>>
               /\ \A q \in Request : pc[q] = "park" => pc'[q] = "park"
    BY <2>0, <2>1 DEF Resolve, Answer, RecordSuccess
  <2>2. ASSUME NEW r \in Request, RecordRefusal(r)
        PROVE  \/ pc'[r] = "park"
               \/ /\ UNCHANGED <<row, tripped, sweep>>
                  /\ \A q \in Request : pc[q] = "park" => pc'[q] = "park"
    BY <2>0, <2>2 DEF RecordRefusal
  <2>3. ASSUME NEW r \in Request, Park(r) PROVE row'.status = "revoked"
    BY <2>0, <2>3 DEF Park, Row
  <2>4. ASSUME NEW r \in Request, ParkFails(r) PROVE FALSE
    BY <2>4 DEF ParkFails
  <2>5. CASE Forget \/ Restored \/ Restart
    BY <2>5 DEF Forget, Restored, Restart, Clear
  <2>6. CASE Restore
    BY <2>6 DEF Restore
  <2>7. ASSUME Sweep \/ TestGreen \/ TestFails \/ RestoreFails
        PROVE  UNCHANGED <<row, tripped, pc>> /\ sweep # "clear"
    BY <2>7 DEF Sweep, TestGreen, TestFails, RestoreFails
  <2>8. ASSUME PoolRefresh \/ Turn \/ Toggle \/ UNCHANGED vars
        PROVE  UNCHANGED <<tripped, pc, sweep>> /\ row'.status = row.status
    BY <2>0, <2>8 DEF PoolRefresh, Turn, Toggle, vars, Row
  <2> QED BY <2>0, <2>1, <2>2, <2>3, <2>4, <2>5, <2>6, <2>7, <2>8
          DEF Next, RequestStep, SweepStep
<1> QED BY <1>1, <1>2, GuardTypeCorrect, PTL DEF Spec
=============================================================================
