------------------------- MODULE TokenManagerProofs -------------------------
(***************************************************************************)
(* Theorems about TokenManager for any number of requests, credentials and *)
(* faults, with their proofs.                                              *)
(***************************************************************************)
EXTENDS TokenManager, TLAPS

(* What the provider issues is a credential that nobody has. *)
LEMMA NewIsUnused ==
    ASSUME Unused # {}
    PROVE  New \in Credential /\ New \notin InCirculation
BY DEF New, Unused

\* What a worker is about to store is a credential.
InHand == \A w \in Worker : At(w, "save") => token[w] \in Credential

(* Along every behaviour the variables keep their types, and what a worker   *)
(* is about to store is a credential. *)
LEMMA TypesAreInductive == Spec => [](TypeOK /\ InHand)
<1> USE TokenAssumption DEF TokenAssumption
<1>1. Init => TypeOK /\ InHand
  <2> SUFFICES ASSUME Init PROVE TypeOK /\ InHand
    OBVIOUS
  <2>1. PICK c \in Credential : row = [token |-> c, due |-> FALSE, status |-> "ok"]
    BY DEF Init
  <2>2. TypeOK
    <3>1. row \in Row /\ row.token \in Credential
      BY <2>1 DEF Row, Status
    <3>2. honoured \subseteq Credential /\ burst \in 0..2 /\ faults \subseteq Fault
      BY <3>1 DEF Init
    <3>3. /\ pc \in [Worker -> {"idle", "call", "waiting"} \cup Locked]
          /\ token \in [Worker -> Credential \cup {Nothing}]
      BY DEF Init
    <3>4. pool \in Row /\ recent \in BOOLEAN /\ forced \subseteq Worker
      BY <3>1 DEF Init
    <3> QED BY <3>1, <3>2, <3>3, <3>4 DEF TypeOK
  <2>3. InHand
    BY DEF Init, InHand, At
  <2> QED BY <2>2, <2>3
<1>2. TypeOK /\ InHand /\ [Next]_vars => (TypeOK /\ InHand)'
  <2> SUFFICES ASSUME TypeOK, InHand, [Next]_vars PROVE (TypeOK /\ InHand)'
    OBVIOUS
  <2> USE DEF TypeOK, InHand, Row, Status, Locked, Worker, work, upstream, At, Go, Hold, Fault
  <2>1. ASSUME NEW r \in Request, Resolve(r) \/ Served(r) \/ Unauthorized(r)
        PROVE  (TypeOK /\ InHand)'
    BY <2>1 DEF Resolve, Served, Unauthorized
  <2>2. CASE sweep
    BY <2>2 DEF sweep
  <2>3. ASSUME NEW w \in Worker, Reload(w)
        PROVE  (TypeOK /\ InHand)'
    BY <2>3 DEF Reload, Return
  <2>4. ASSUME NEW w \in Worker, ReloadFails(w)
        PROVE  (TypeOK /\ InHand)'
    BY <2>4 DEF ReloadFails, Fail, Meet
  <2>5. ASSUME NEW w \in Worker, Refresh(w) \/ AnswerLost(w)
        PROVE  (TypeOK /\ InHand)'
    <3>1. New \in Credential /\ honoured' \subseteq Credential /\ burst' \in 0..2
      BY <2>5, NewIsUnused DEF Refresh, AnswerLost, Issue
    <3>2. CASE Refresh(w)
      BY <3>1, <3>2 DEF Refresh
    <3>3. CASE AnswerLost(w)
      BY <3>1, <3>3 DEF AnswerLost, Meet
    <3> QED BY <2>5, <3>2, <3>3
  <2>6. ASSUME NEW w \in Worker, Refuse(w) \/ Unreachable(w)
        PROVE  (TypeOK /\ InHand)'
    BY <2>6 DEF Refuse, Unreachable
  <2>7. ASSUME NEW w \in Worker, Save(w)
        PROVE  (TypeOK /\ InHand)'
    <3>1. token[w] \in Credential
      BY <2>7 DEF Save, InHand
    <3> QED BY <3>1, <2>7 DEF Save, Return
  <2>8. ASSUME NEW w \in Worker, SaveFails(w)
        PROVE  (TypeOK /\ InHand)'
    BY <2>8 DEF SaveFails, Return, Meet
  <2>9. ASSUME NEW w \in Worker, persistFailure(w) \/ persistFailureFails(w)
        PROVE  (TypeOK /\ InHand)'
    BY <2>9 DEF persistFailure, persistFailureFails, Fail
  <2>10. CASE PoolRefresh
    BY <2>10 DEF PoolRefresh
  <2>16. CASE Elapse
    <3>1. /\ recent' = FALSE /\ burst' = 0
          /\ UNCHANGED <<row, pool, pc, forced, token, honoured, faults>>
      BY <2>16 DEF Elapse
    <3>0. recent' \in BOOLEAN
      BY <2>16, Zenon DEF Elapse
    <3>2. recent' \in BOOLEAN /\ burst' \in 0..2
      BY <3>0, <3>1
    <3>3. row' \in Row /\ pool' \in Row /\ faults' \subseteq Fault
      BY <3>1
    <3>4. /\ pc' = pc /\ forced' = forced /\ token' = token /\ honoured' = honoured
      BY <3>1
    <3>5. TypeOK'
      BY <3>2, <3>3, <3>4
    <3> QED BY <3>4, <3>5
  <2>15. CASE Age
    <3>1. row' \in Row /\ pool' \in Row
      BY <2>15 DEF Age
    <3> QED BY <2>15, <3>1 DEF Age
  <2>11. CASE Import
    <3>1. New \in Credential /\ honoured' \subseteq Credential /\ burst' \in 0..2
      BY <2>11, NewIsUnused DEF Import, Issue
    <3> QED BY <2>11, <3>1 DEF Import, Meet
  <2>12. CASE Revoke
    BY <2>12 DEF Revoke, Meet
  <2>14. CASE Restart
    BY <2>14 DEF Restart, Meet
  <2>13. CASE UNCHANGED vars
    BY <2>13 DEF vars
  <2> QED BY <2>1, <2>2, <2>3, <2>4, <2>5, <2>6, <2>7, <2>8, <2>9, <2>10, <2>11, <2>12, <2>13, <2>14, <2>15, <2>16
       DEF Next, RefreshLocked
<1> QED BY <1>1, <1>2, PTL DEF Spec

(* The variables keep their types along every behaviour. *)
THEOREM TypeCorrect == Spec => []TypeOK
BY TypesAreInductive, PTL

-----------------------------------------------------------------------------
(* Nobody is told to log in again.                                          *)

\* The lock: one worker at a time between the reload and the write.
Exclusive ==
    \A v, w \in Worker : pc[v] \in Locked /\ pc[w] \in Locked => v = w

\* Short of faults, whoever holds the lock goes by the stored credential, and
\* the provider honours what is stored, or what is about to be.
GoodGrant ==
    faults = {} =>
        /\ row.status # "login_required"
        /\ \A w \in Worker :
              /\ ~At(w, "login_required")
              /\ At(w, "refresh") => token[w] = row.token
              /\ At(w, "save") => token[w] \in honoured
        /\ Rotating \/ row.token \in honoured

GrantInv == TypeOK /\ InHand /\ Exclusive /\ GoodGrant

(* The lock excludes, and the stored credential stays good. *)
LEMMA GrantInvariant == Spec => []GrantInv
<1> USE TokenAssumption DEF TokenAssumption
<1>1. Init => Exclusive /\ GoodGrant
  BY DEF Init, Exclusive, GoodGrant, At, Locked, Row, Rotating
<1>2. GrantInv /\ [Next]_vars => (Exclusive /\ GoodGrant)'
  <2> SUFFICES ASSUME GrantInv, [Next]_vars PROVE (Exclusive /\ GoodGrant)'
    OBVIOUS
  <2>0. /\ pc \in [Worker -> {"idle", "call", "waiting"} \cup Locked]
        /\ token \in [Worker -> Credential \cup {Nothing}]
        /\ honoured \subseteq Credential
        /\ row \in Row
        /\ InHand /\ Exclusive /\ GoodGrant
    BY DEF GrantInv, TypeOK
  <2> USE <2>0 DEF Exclusive, GoodGrant, Rotating, At, Go, Hold, work, upstream
  <2>1. ASSUME NEW r \in Request, Resolve(r)
        PROVE  (Exclusive /\ GoodGrant)'
    BY <2>1 DEF Resolve, Locked, Worker
  <2>17. ASSUME NEW r \in Request, Served(r) \/ Unauthorized(r)
        PROVE  (Exclusive /\ GoodGrant)'
    BY <2>17 DEF Served, Unauthorized, Locked, Worker
  <2>2. CASE sweep
    BY <2>2 DEF sweep, Locked, Worker
  <2>3. ASSUME NEW w \in Worker, Reload(w)
        PROVE  (Exclusive /\ GoodGrant)'
    BY <2>3 DEF Reload, Return, Free, Locked
  <2>4. ASSUME NEW w \in Worker, ReloadFails(w)
        PROVE  (Exclusive /\ GoodGrant)'
    BY <2>4 DEF ReloadFails, Fail, Meet, Free, Locked
  <2>5. ASSUME NEW w \in Worker, Refresh(w)
        PROVE  (Exclusive /\ GoodGrant)'
    BY <2>5, NewIsUnused DEF Refresh, Issue, Locked
  <2>6. ASSUME NEW w \in Worker, AnswerLost(w)
        PROVE  (Exclusive /\ GoodGrant)'
    BY <2>6 DEF AnswerLost, Meet, Locked
  <2>7. ASSUME NEW w \in Worker, Refuse(w)
        PROVE  (Exclusive /\ GoodGrant)'
    BY <2>7 DEF Refuse, Locked
  <2>8. ASSUME NEW w \in Worker, Unreachable(w)
        PROVE  (Exclusive /\ GoodGrant)'
    BY <2>8 DEF Unreachable, Locked
  <2>9. ASSUME NEW w \in Worker, Save(w)
        PROVE  (Exclusive /\ GoodGrant)'
    BY <2>9 DEF Save, Return, Locked
  <2>10. ASSUME NEW w \in Worker, SaveFails(w)
         PROVE  (Exclusive /\ GoodGrant)'
    BY <2>10 DEF SaveFails, Return, Meet, Locked
  <2>11. ASSUME NEW w \in Worker, persistFailure(w) \/ persistFailureFails(w)
         PROVE  (Exclusive /\ GoodGrant)'
    BY <2>11 DEF persistFailure, persistFailureFails, Fail, Locked, Status, Row
  <2>12. CASE PoolRefresh \/ Elapse
    BY <2>12 DEF PoolRefresh, Elapse, work
  <2>13. CASE Age
    BY <2>13 DEF Age, work, upstream, Row
  <2>14. CASE Import \/ Revoke
    BY <2>14 DEF Import, Revoke, Meet, work
  <2>15. CASE Restart
    BY <2>15 DEF Restart, Meet, Locked
  <2>16. CASE UNCHANGED vars
    BY <2>16 DEF vars, work, upstream
  <2> QED BY <2>1, <2>2, <2>3, <2>4, <2>5, <2>6, <2>7, <2>8, <2>9, <2>10, <2>11, <2>12,
             <2>13, <2>14, <2>15, <2>16, <2>17
       DEF Next, RefreshLocked
<1> QED BY <1>1, <1>2, TypesAreInductive, PTL DEF Spec, GrantInv

(* However many workers meet, the provider honours the stored credential.    *)
THEOREM GrantIsSafe == Spec => []GrantSurvives
<1>1. GrantInv => GrantSurvives
  BY DEF GrantInv, GoodGrant, GrantSurvives
<1> QED BY <1>1, GrantInvariant, PTL

-----------------------------------------------------------------------------
(* One rotation per burst.                                                  *)

\* Short of faults, what has been issued within the debounce is on its way to
\* the row, or in the row and good enough for all who come by.
Quiet ==
    faults = {} =>
        \/ burst = 0
        \/ burst = 1 /\ \E w \in Worker : At(w, "save")
        \/ /\ burst = 1 /\ recent /\ row.status = "ok" /\ ~row.due
           /\ \A w \in Worker : pc[w] \notin Locked

BurstInv == TypeOK /\ InHand /\ Exclusive /\ Quiet

(* However many workers meet, the provider issues one credential at a time.  *)
THEOREM BurstIsOneRotation == Spec => []OneRotationPerBurst
<1>1. Init => Exclusive /\ Quiet
  BY DEF Init, Exclusive, Quiet, At, Locked
<1>2. BurstInv /\ Exclusive' /\ [Next]_vars => Quiet'
  <2> SUFFICES ASSUME BurstInv, Exclusive', [Next]_vars PROVE Quiet'
    OBVIOUS
  <2>0. /\ pc \in [Worker -> {"idle", "call", "waiting"} \cup Locked]
        /\ recent \in BOOLEAN /\ burst \in 0..2
        /\ row \in Row
        /\ Exclusive /\ Exclusive' /\ Quiet
    BY DEF BurstInv, TypeOK
  <2> USE <2>0 DEF Quiet, At, Go, work, upstream
  <2>1. ASSUME NEW r \in Request, Resolve(r) \/ Served(r) \/ Unauthorized(r)
        PROVE  Quiet'
    BY <2>1 DEF Resolve, Served, Unauthorized, Locked, Worker
  <2>2. CASE sweep
    BY <2>2 DEF sweep, Locked, Worker
  <2>3. ASSUME NEW w \in Worker, Reload(w)
        PROVE  Quiet'
    BY <2>3 DEF Reload, GoodEnough, Return, Free, Locked
  <2>4. ASSUME NEW w \in Worker, ReloadFails(w) \/ AnswerLost(w) \/ SaveFails(w)
        PROVE  Quiet'
    BY <2>4 DEF ReloadFails, AnswerLost, SaveFails, Meet
  <2>5. ASSUME NEW w \in Worker, Refresh(w)
        PROVE  Quiet'
    BY <2>5 DEF Refresh, Issue, Locked, Exclusive
  <2>6. ASSUME NEW w \in Worker, Refuse(w) \/ Unreachable(w)
        PROVE  Quiet'
    BY <2>6 DEF Refuse, Unreachable, Locked, Exclusive
  <2>7. ASSUME NEW w \in Worker, Save(w)
        PROVE  Quiet'
    BY <2>7 DEF Save, Return, Locked, Exclusive, Row
  <2>8. ASSUME NEW w \in Worker, persistFailure(w) \/ persistFailureFails(w)
        PROVE  Quiet'
    BY <2>8 DEF persistFailure, persistFailureFails, Fail, Locked, Status, Exclusive
  <2>9. CASE PoolRefresh \/ Elapse
    BY <2>9 DEF PoolRefresh, Elapse
  <2>10. CASE Age
    BY <2>10 DEF Age, Row
  <2>11. CASE Import \/ Revoke \/ Restart
    BY <2>11 DEF Import, Revoke, Restart, Meet
  <2>12. CASE UNCHANGED vars
    BY <2>12 DEF vars
  <2> QED BY <2>1, <2>2, <2>3, <2>4, <2>5, <2>6, <2>7, <2>8, <2>9, <2>10, <2>11, <2>12
       DEF Next, RefreshLocked
<1>3. BurstInv => OneRotationPerBurst
  BY DEF BurstInv, Quiet, OneRotationPerBurst
<1>4. Spec => [](TypeOK /\ InHand /\ Exclusive)
  BY GrantInvariant, PTL DEF GrantInv
<1> QED BY <1>1, <1>2, <1>3, <1>4, PTL DEF Spec, BurstInv

-----------------------------------------------------------------------------
(* What is stored.                                                          *)

(* From the reload to the write at most one worker is under the account's   *)
(* lock (accountLock), whatever goes wrong: a refresh never overlaps with   *)
(* another, and the sweep never with a request.                             *)
THEOREM LockExcludes == Spec => []Exclusive
BY GrantInvariant, PTL DEF GrantInv

\* Who writes the account's columns without the lock, or at the provider.
Outside == {"import", "revoke"}

\* What is about to be stored is good.
SaveIsGood ==
    faults \cap Outside = {} => \A w \in Worker : At(w, "save") => token[w] \in honoured

StoresLive ==
    row'.token # row.token /\ faults' \cap Outside = {} => row'.token \in honoured'

(* No refresh stores a dead credential over another one, not even when      *)
(* answers, writes and reloads are lost and the process restarts: a stale   *)
(* copy may be presented, and refused, but what is written is the answer    *)
(* the provider gave last (persist, and UpdateAuthRuntime under it).  Only  *)
(* an import, which does not take the lock, and a revocation can make it    *)
(* false.                                                                   *)
NoDeadTokenStored == [][StoresLive]_vars

THEOREM StoredIsLive == Spec => NoDeadTokenStored
<1>1. Init => SaveIsGood
  BY DEF Init, SaveIsGood, At
<1>2. TypeOK /\ Exclusive /\ SaveIsGood /\ [Next]_vars => SaveIsGood' /\ [StoresLive]_vars
  <2> SUFFICES ASSUME TypeOK, Exclusive, SaveIsGood, [Next]_vars,
                      faults' \cap Outside = {}
               PROVE  /\ \A v \in Worker : At(v, "save")' => token'[v] \in honoured'
                      /\ row'.token # row.token => row'.token \in honoured'
    BY DEF SaveIsGood, StoresLive
  <2>0. /\ pc \in [Worker -> {"idle", "call", "waiting"} \cup Locked]
        /\ token \in [Worker -> Credential \cup {Nothing}]
        /\ row \in Row /\ Exclusive /\ SaveIsGood
    BY DEF TypeOK
  <2> DEFINE Goal == /\ \A v \in Worker : At(v, "save")' => token'[v] \in honoured'
                     /\ row'.token # row.token => row'.token \in honoured'
  <2> USE <2>0 DEF SaveIsGood, At, Go, Hold, work, upstream
  <2>1. ASSUME NEW r \in Request, Resolve(r) \/ Served(r) \/ Unauthorized(r)
        PROVE  Goal
    BY <2>1 DEF Resolve, Served, Unauthorized, Worker
  <2>2. CASE sweep
    BY <2>2 DEF sweep, Worker
  <2>3. ASSUME NEW w \in Worker, Reload(w)
        PROVE  Goal
    BY <2>3 DEF Reload, Return
  <2>4. ASSUME NEW w \in Worker, ReloadFails(w)
        PROVE  Goal
    BY <2>4 DEF ReloadFails, Fail, Meet
  <2>5. ASSUME NEW w \in Worker, Refresh(w)
        PROVE  Goal
    BY <2>5 DEF Refresh, Issue, Locked, Exclusive
  <2>6. ASSUME NEW w \in Worker, AnswerLost(w)
        PROVE  Goal
    BY <2>6 DEF AnswerLost, Meet, Locked, Exclusive
  <2>7. ASSUME NEW w \in Worker, Refuse(w) \/ Unreachable(w)
        PROVE  Goal
    BY <2>7 DEF Refuse, Unreachable
  <2>8. ASSUME NEW w \in Worker, Save(w)
        PROVE  Goal
    BY <2>8 DEF Save, Return
  <2>9. ASSUME NEW w \in Worker, SaveFails(w)
        PROVE  Goal
    BY <2>9 DEF SaveFails, Return, Meet
  <2>10. ASSUME NEW w \in Worker, persistFailure(w) \/ persistFailureFails(w)
         PROVE  Goal
    BY <2>10 DEF persistFailure, persistFailureFails, Fail, Row
  <2>11. CASE PoolRefresh \/ Elapse
    BY <2>11 DEF PoolRefresh, Elapse
  <2>12. CASE Age
    BY <2>12 DEF Age, Row
  <2>13. CASE Import \/ Revoke
    BY <2>13 DEF Import, Revoke, Meet, Outside
  <2>14. CASE Restart
    BY <2>14 DEF Restart, Meet
  <2>15. CASE UNCHANGED vars
    BY <2>15 DEF vars
  <2> QED BY <2>1, <2>2, <2>3, <2>4, <2>5, <2>6, <2>7, <2>8, <2>9, <2>10, <2>11, <2>12,
             <2>13, <2>14, <2>15
       DEF Next, RefreshLocked
<1> QED BY <1>1, <1>2, TypeCorrect, LockExcludes, PTL DEF Spec, NoDeadTokenStored
=============================================================================
