--------------------------- MODULE HotPoolProofs ---------------------------
(***************************************************************************)
(* Proofs about HotPool, for any refreshers and any number of edits.       *)
(***************************************************************************)
EXTENDS HotPool, TLAPS

USE PoolAssumption

(* Nothing is newer than the table, what waits was sent over a connection   *)
(* that lives, and each pending notification stands for an edit.            *)
PoolInv ==
    /\ PoolTypeOK
    /\ view <= db /\ inbox <= db
    /\ \A r \in Refresher : query[r] # NoQuery => query[r] <= db
    /\ inbox > 0 => Live
    /\ NoEditForgotten

LEMMA PoolInit == Init => PoolInv
<1> SUFFICES ASSUME Init PROVE PoolInv
  OBVIOUS
<1>1. query = [r \in Refresher |-> NoQuery] /\ due = {}
  BY DEF Init
<1>2. db = 0 /\ view = 0 /\ inbox = 0 /\ backoff = 1 /\ listener = "connecting"
  BY DEF Init
<1>3. broken \in BOOLEAN /\ missed \in BOOLEAN
  BY Zenon DEF Init
<1>4. query \in [Refresher -> 0..MaxEdits \cup {NoQuery}]
  BY <1>1
<1>5. PoolTypeOK
  BY <1>1, <1>2, <1>3, <1>4 DEF PoolTypeOK
<1>6. NoEditForgotten
  BY <1>2 DEF NoEditForgotten
<1> QED BY <1>1, <1>2, <1>5, <1>6 DEF PoolInv

(* A query that has returned holds a state of the table, no newer than now. *)
LEMMA QueryIsPast ==
    ASSUME PoolInv, NEW r \in Refresher, query[r] # NoQuery
    PROVE  query[r] \in 0..db /\ query[r] \in 0..MaxEdits
BY DEF PoolInv, PoolTypeOK

LEMMA RefreshKeeps ==
    ASSUME PoolInv, NEW r \in Refresher, RefreshStep(r) PROVE PoolInv'
<1> USE DEF PoolInv, PoolTypeOK, NoEditForgotten, Coming, Live, listening
<1>1. CASE Read(r)
  BY <1>1 DEF Read
<1>2. CASE ReadFails(r)
  BY <1>2 DEF ReadFails
<1>3. CASE Swap(r)
  <2>1. /\ view' = query[r] /\ query[r] \in 0..db /\ query[r] \in 0..MaxEdits
        /\ query' = [query EXCEPT ![r] = NoQuery]
        /\ UNCHANGED <<db, due, listener, broken, inbox, backoff>>
    BY <1>3, QueryIsPast DEF Swap
  <2>2. missed' \in BOOLEAN
    BY <1>3, Zenon DEF Swap
  <2>3. missed' <=> ((missed \/ view' < view) /\ view' # db)
    BY <1>3 DEF Swap
  <2>4. NoEditForgotten'
    <3> SUFFICES ASSUME view' # db, ~missed' PROVE Coming'
      BY <2>1
    <3>1. ~missed /\ view' >= view
      BY <2>1, <2>3
    <3>2. view # db
      BY <2>1, <3>1
    <3>3. Coming
      BY <3>1, <3>2
    <3>4. ~(r = "listener" /\ query["listener"] = db)
      BY <2>1
    <3> QED BY <2>1, <3>3, <3>4
  <2>5. (PoolTypeOK /\ view <= db /\ inbox <= db)' /\ (inbox > 0 => Live)'
    BY <2>1, <2>2
  <2>6. \A x \in Refresher : query'[x] # NoQuery => query'[x] <= db'
    BY <2>1
  <2> QED BY <2>4, <2>5, <2>6
<1> QED BY <1>1, <1>2, <1>3 DEF RefreshStep

LEMMA ListenerKeeps ==
    ASSUME PoolInv, ListenerStep \/ Tick \/ Break PROVE PoolInv'
<1> USE DEF PoolInv, PoolTypeOK, NoEditForgotten, Coming, Live, listening, refreshing
<1>1. CASE Listen
  BY <1>1 DEF Listen
<1>2. CASE ConnectFails
  BY <1>2 DEF ConnectFails, Retry
<1>3. CASE TimesOut
  BY <1>3 DEF TimesOut
<1>4. CASE Disconnected
  BY <1>4 DEF Disconnected, Retry
<1>5. CASE Elapse
  BY <1>5 DEF Elapse
<1>6. CASE Notified
  BY <1>6 DEF Notified, Idle
<1>7. CASE Tick
  BY <1>7 DEF Tick
<1>8. CASE Break
  <2>1. missed' \in BOOLEAN
    BY <1>8, Zenon DEF Break
  <2>2. missed' <=> (missed \/ inbox > 0)
    BY <1>8 DEF Break
  <2>3. broken' = TRUE /\ inbox' = 0 /\ UNCHANGED <<db, view, due, query, listener, backoff>>
    BY <1>8 DEF Break
  <2>4. broken' \in BOOLEAN
    BY <2>3, Zenon
  <2>5. PoolTypeOK'
    BY <2>1, <2>3, <2>4
  <2>6. NoEditForgotten'
    BY <2>2, <2>3
  <2> QED BY <2>3, <2>5, <2>6
<1> QED BY <1>1, <1>2, <1>3, <1>4, <1>5, <1>6, <1>7, <1>8 DEF ListenerStep

LEMMA CommitKeeps ==
    ASSUME PoolInv, Edit \/ Sync PROVE PoolInv'
<1> USE DEF PoolInv, PoolTypeOK, NoEditForgotten, Coming, Live, refreshing
<1>1. Commit /\ UNCHANGED <<view, query, listener, broken, backoff>>
  BY DEF Edit, Sync
<1>2. due' \subseteq Refresher /\ due \subseteq due'
  BY DEF Edit, Sync
<1>3. missed' \in BOOLEAN
  BY <1>1, Zenon DEF Commit
<1>4. missed' <=> (missed \/ ~Live)
  BY <1>1 DEF Commit
<1>5. db < MaxEdits /\ db' = db + 1 /\ inbox' = IF Live THEN inbox + 1 ELSE inbox
  BY <1>1 DEF Commit
<1>6. PoolTypeOK'
  BY <1>1, <1>2, <1>3, <1>5
<1>7. view' <= db' /\ inbox' <= db' /\ (inbox > 0 => Live)'
  BY <1>1, <1>5
<1>8. \A r \in Refresher : query'[r] # NoQuery => query'[r] <= db'
  <2> SUFFICES ASSUME NEW r \in Refresher, query[r] # NoQuery PROVE query[r] <= db + 1
    BY <1>1, <1>5
  <2> QED BY QueryIsPast
<1>9. NoEditForgotten'
  BY <1>1, <1>4, <1>5
<1> QED BY <1>6, <1>7, <1>8, <1>9

(* PoolInv is inductive. *)
LEMMA PoolStep == PoolInv /\ [Next]_vars => PoolInv'
<1> SUFFICES ASSUME PoolInv, [Next]_vars PROVE PoolInv'
  OBVIOUS
<1>1. CASE UNCHANGED vars
  BY <1>1 DEF vars, listening, refreshing, PoolInv, PoolTypeOK, NoEditForgotten, Coming, Live
<1> QED BY <1>1, RefreshKeeps, ListenerKeeps, CommitKeeps DEF Next

(* The copy is always some past or present state of the table. *)
THEOREM PoolTypeCorrect == Spec => []PoolTypeOK
<1>1. PoolInv => PoolTypeOK
  BY DEF PoolInv
<1> QED BY <1>1, PoolInit, PoolStep, PTL DEF Spec

(* As long as the listener has had word of every edit, no query has failed  *)
(* and no result has been overwritten by an older one, an outdated copy has *)
(* a refresh ahead of it that reads the table as it is.                     *)
THEOREM NoEditIsForgotten == Spec => []NoEditForgotten
<1>1. PoolInv => NoEditForgotten
  BY DEF PoolInv
<1> QED BY <1>1, PoolInit, PoolStep, PTL DEF Spec
=============================================================================
