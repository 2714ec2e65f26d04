-------------------------- MODULE WriteBufferProofs --------------------------
(***************************************************************************)
(* Theorems about WriteBuffer for every number of rows, every MaxPending   *)
(* and BatchSize and any number of flush goroutines, with their proofs.    *)
(***************************************************************************)
EXTENDS WriteBuffer, SequenceTheorems, TLAPS

-----------------------------------------------------------------------------
(* What the slices of Flush and Enqueue do.                                 *)

(* The rows a flush takes: at most BatchSize of them, at least one, and the *)
(* rest stays in the queue. *)
LEMMA TakeSplits ==
    ASSUME NEW p \in Seq(Record), p # <<>>, NEW k \in Nat,
           k = IF BatchSize > Len(p) THEN Len(p) ELSE BatchSize
    PROVE  /\ k \in 1..Len(p) /\ k <= BatchSize
           /\ SubSeq(p, 1, k) \in Seq(Record)
           /\ Len(SubSeq(p, 1, k)) = k
           /\ SubSeq(p, k + 1, Len(p)) \in Seq(Record)
           /\ Len(SubSeq(p, k + 1, Len(p))) = Len(p) - k
           /\ SubSeq(p, 1, k) \o SubSeq(p, k + 1, Len(p)) = p
<1>1. Len(p) \in Nat \ {0}
  BY EmptySeq
<1>2. k \in 1..Len(p) /\ k <= BatchSize
  BY <1>1, BufferAssumption DEF BufferAssumption
<1>3. \A i \in 1..Len(p) : p[i] \in Record
  BY ElementOfSeq
<1>4. SubSeq(p, 1, k) \in Seq(Record) /\ Len(SubSeq(p, 1, k)) = k
  <2>1. \A i \in 1..k : p[i] \in Record
    BY <1>2, <1>3
  <2> QED BY <2>1, <1>2, SubSeqProperties
<1>5. /\ SubSeq(p, k + 1, Len(p)) \in Seq(Record)
      /\ Len(SubSeq(p, k + 1, Len(p))) = Len(p) - k
  <2>1. \A i \in (k + 1)..Len(p) : p[i] \in Record
    BY <1>2, <1>3
  <2> QED BY <2>1, <1>1, <1>2, SubSeqProperties
<1>6. SubSeq(p, 1, k) \o SubSeq(p, k + 1, Len(p)) = SubSeq(p, 1, Len(p))
  BY <1>1, <1>2, ConcatAdjacentSubSeq
<1>7. SubSeq(p, 1, Len(p)) = p
  BY SubSeqFull
<1> QED BY <1>2, <1>4, <1>5, <1>6, <1>7

(* Dropping the oldest row of a full queue leaves a shorter one. *)
LEMMA MakeRoomType ==
    ASSUME NEW p \in Seq(Record)
    PROVE  /\ MakeRoom(p) \in Seq(Record)
           /\ Len(MakeRoom(p)) =
                 IF Len(p) >= MaxPending THEN Len(p) - 1 ELSE Len(p)
<1>1. CASE Len(p) >= MaxPending
  <2>1. p # <<>>
    BY <1>1, EmptySeq, BufferAssumption DEF BufferAssumption
  <2> QED BY <1>1, <2>1, HeadTailProperties DEF MakeRoom
<1>2. CASE ~(Len(p) >= MaxPending)
  BY <1>2 DEF MakeRoom
<1> QED BY <1>1, <1>2

-----------------------------------------------------------------------------
(* Type correctness.                                                        *)

(* The variables keep their types along every behaviour: in particular the  *)
(* counts of timers, callbacks and flushes never go below zero. *)
THEOREM TypeCorrect == Spec => []TypeOK
<1>1. ASSUME Init PROVE TypeOK
  <2>1. <<>> \in Seq(Record)
    BY EmptySeq
  <2>2. pending \in Seq(Record) /\ batch \in Seq(Record) /\ stored \in Seq(Record)
    BY <1>1, <2>1 DEF Init
  <2>3. added \in 0..MaxRecords
    BY <1>1, BufferAssumption DEF Init, BufferAssumption
  <2>4. unsure \subseteq Record /\ phase \in Phase
    BY <1>1 DEF Init, Phase, Serving
  <2>5. /\ arming \in Nat /\ strays \in Nat /\ callbacks \in Nat /\ waiting \in Nat
        /\ timer = "nil" /\ flusher = "free" /\ byStop = FALSE /\ failures \in 0..2
    BY <1>1 DEF Init
  <2> QED BY <2>2, <2>3, <2>4, <2>5 DEF TypeOK
<1>2. TypeOK /\ [Next]_vars => TypeOK'
  <2> SUFFICES ASSUME TypeOK, [Next]_vars PROVE TypeOK'
    OBVIOUS
  <2> USE DEF Phase, Serving, Stopping
  <2>1. CASE UNCHANGED vars
    BY <2>1 DEF TypeOK, vars, queue, timers, flush, db
  <2>2. CASE Enqueue
    <3>1. added' \in 0..MaxRecords /\ added' \in Record
      BY <2>2, BufferAssumption DEF Enqueue, TypeOK, Record, BufferAssumption
    <3>2. pending' \in Seq(Record)
      <4>1. MakeRoom(pending) \in Seq(Record)
        BY MakeRoomType DEF TypeOK
      <4>2. Append(MakeRoom(pending), added') \in Seq(Record)
        BY <4>1, <3>1
      <4> QED BY <4>2, <2>2 DEF Enqueue
    <3>3. arming' \in Nat /\ waiting' \in Nat
      BY <2>2 DEF Enqueue, TypeOK
    <3> QED BY <2>2, <3>1, <3>2, <3>3 DEF Enqueue, TypeOK, db
  <2>3. CASE EnsureTimer
    BY <2>3 DEF EnsureTimer, TypeOK, Armed, queue, flush, db
  <2>4. CASE Fire
    BY <2>4 DEF Fire, TypeOK, queue, flush, db
  <2>5. CASE Callback
    BY <2>5 DEF Callback, TypeOK, queue, db
  <2>6. CASE BeginFlush
    <3>1. waiting' \in Nat
      BY <2>6 DEF BeginFlush, TypeOK
    <3> QED BY <2>6, <3>1 DEF BeginFlush, ClearTimer, TypeOK, queue, db
  <2>13. CASE StopBeginsFlush
    BY <2>13 DEF StopBeginsFlush, ClearTimer, TypeOK, queue, db
  <2>7. CASE Take
    <3> DEFINE k == IF BatchSize > Len(pending) THEN Len(pending) ELSE BatchSize
    <3>1. k \in Nat /\ pending \in Seq(Record) /\ pending # <<>>
      BY <2>7, EmptySeq, BufferAssumption DEF Take, TypeOK, BufferAssumption
    <3>2. batch' = SubSeq(pending, 1, k) /\ pending' = SubSeq(pending, k + 1, Len(pending))
      BY <2>7 DEF Take
    <3> HIDE DEF k
    <3>3. batch' \in Seq(Record) /\ pending' \in Seq(Record)
      BY <3>1, <3>2, TakeSplits DEF k
    <3> QED BY <2>7, <3>3 DEF Take, TypeOK, timers, db
  <2>8. CASE FindEmpty
    BY <2>8 DEF FindEmpty, Release, TypeOK, queue, timers, db
  <2>9. CASE InsertSucceeds
    <3>1. stored \o batch \in Seq(Record)
      BY ConcatProperties DEF TypeOK
    <3>2. <<>> \in Seq(Record)
      BY EmptySeq
    <3> QED BY <2>9, <3>1, <3>2 DEF InsertSucceeds, TypeOK, queue, timers
  <2>10. CASE InsertFails
    <3>1. stored \o batch \in Seq(Record) /\ batch \o pending \in Seq(Record)
      BY ConcatProperties DEF TypeOK
    <3>2. Range(batch) \subseteq Record
      BY ElementOfSeq, LenProperties DEF TypeOK, Range
    <3>3. stored' \in Seq(Record) /\ unsure' \subseteq Record
      BY <2>10, <3>1, <3>2 DEF InsertFails, CommitsUnnoticed, db, TypeOK
    <3>4. failures' \in 0..2
      BY <2>10 DEF InsertFails, TypeOK
    <3>5. <<>> \in Seq(Record)
      BY EmptySeq
    <3> QED BY <2>10, <3>1, <3>3, <3>4, <3>5 DEF InsertFails, TypeOK, timers
  <2>11. CASE Rearm
    BY <2>11 DEF Rearm, Release, Armed, TypeOK, queue, db
  <2>12. CASE Signal \/ Stop \/ NeedsRetry \/ Exit \/ ShutdownTimesOut
    BY <2>12 DEF Signal, Stop, NeedsRetry, Exit, ShutdownTimesOut, ClearTimer,
                 TypeOK, queue, timers, flush, db
  <2> QED BY <2>1, <2>2, <2>3, <2>4, <2>5, <2>6, <2>7, <2>8, <2>9, <2>10, <2>11, <2>12, <2>13
          DEF Next, Flush
<1> QED BY <1>1, <1>2, PTL DEF Spec

-----------------------------------------------------------------------------
(* The bound on the backlog.                                                *)

(* The bound is not inductive: a batch that fails must fit on top of what   *)
(* has gathered behind it.  It does because rows are in a flush's hands     *)
(* only during the INSERT, and the queue behind them starts at most         *)
(* MaxPending long and is kept there by Enqueue. *)
BacklogInv ==
    /\ Len(pending) <= MaxPending + BatchSize
    /\ flusher = "insert" => Len(batch) \in 1..BatchSize /\ Len(pending) <= MaxPending
    /\ flusher # "insert" => batch = <<>>

(* The lengths in question are numbers, and an empty batch has length 0. *)
LEMMA Lengths ==
    ASSUME TypeOK
    PROVE  /\ Len(pending) \in Nat /\ Len(batch) \in Nat
           /\ batch = <<>> => Len(batch) = 0
           /\ MaxPending \in Nat \ {0} /\ BatchSize \in Nat \ {0}
BY LenProperties, EmptySeq, BufferAssumption DEF TypeOK, BufferAssumption

(* Enqueue never lengthens a queue that has MaxPending rows. *)
LEMMA EnqueueLength ==
    ASSUME TypeOK, Enqueue
    PROVE  Len(pending') = IF Len(pending) >= MaxPending THEN Len(pending) ELSE Len(pending) + 1
<1>1. MakeRoom(pending) \in Seq(Record)
  BY MakeRoomType DEF TypeOK
<1>2. added' \in Record
  BY BufferAssumption DEF Enqueue, TypeOK, Record, BufferAssumption
<1>3. Len(pending') = Len(MakeRoom(pending)) + 1
  BY <1>1, <1>2 DEF Enqueue
<1>4. Len(MakeRoom(pending)) = IF Len(pending) >= MaxPending THEN Len(pending) - 1 ELSE Len(pending)
  BY MakeRoomType DEF TypeOK
<1> QED BY <1>3, <1>4, Lengths

(* Every step keeps BacklogInv. *)
LEMMA BacklogStep == TypeOK /\ BacklogInv /\ [Next]_vars => BacklogInv'
<1> SUFFICES ASSUME TypeOK, BacklogInv, [Next]_vars PROVE BacklogInv'
  OBVIOUS
<1>l. /\ Len(pending) \in Nat /\ Len(batch) \in Nat
      /\ MaxPending \in Nat \ {0} /\ BatchSize \in Nat \ {0}
  BY Lengths
<1>1. ASSUME UNCHANGED <<pending, batch, flusher>> PROVE BacklogInv'
  BY <1>1 DEF BacklogInv
<1>2. CASE Enqueue
  BY <1>2, <1>l, EnqueueLength DEF BacklogInv, Enqueue
<1>3. CASE BeginFlush \/ StopBeginsFlush
  BY <1>3 DEF BeginFlush, StopBeginsFlush, BacklogInv, queue
<1>4. CASE Take
  <2> DEFINE k == IF BatchSize > Len(pending) THEN Len(pending) ELSE BatchSize
  <2>1. k \in Nat /\ pending \in Seq(Record) /\ pending # <<>>
    BY <1>4, <1>l DEF Take, TypeOK
  <2>2. /\ batch' = SubSeq(pending, 1, k) /\ pending' = SubSeq(pending, k + 1, Len(pending))
        /\ flusher' = "insert"
    BY <1>4 DEF Take
  <2>3. k = Len(pending) \/ k = BatchSize
    OBVIOUS
  <2>4. Len(batch') = k /\ Len(pending') = Len(pending) - k /\ k \in 1..BatchSize
    <3> HIDE DEF k
    <3>1. k = IF BatchSize > Len(pending) THEN Len(pending) ELSE BatchSize
      BY DEF k
    <3>2. k \in 1..Len(pending) /\ k <= BatchSize
      BY <2>1, <3>1, TakeSplits
    <3>3. Len(batch') = k /\ Len(pending') = Len(pending) - k
      BY <2>1, <2>2, <3>1, TakeSplits
    <3> QED BY <2>1, <3>2, <3>3, <1>l
  <2> HIDE DEF k
  <2> QED BY <2>1, <2>2, <2>3, <2>4, <1>l DEF BacklogInv
<1>5. CASE FindEmpty
  BY <1>5 DEF FindEmpty, Release, BacklogInv, queue
<1>6. CASE InsertSucceeds
  BY <1>6 DEF InsertSucceeds, BacklogInv, queue
<1>7. CASE InsertFails
  <2>1. Len(pending') = Len(batch) + Len(pending)
    BY <1>7, ConcatProperties DEF InsertFails, TypeOK
  <2> QED BY <1>7, <2>1, <1>l DEF InsertFails, BacklogInv
<1>8. CASE Rearm
  BY <1>8 DEF Rearm, Release, BacklogInv, queue
<1>9. CASE EnsureTimer \/ Fire \/ Callback \/ UNCHANGED vars
  BY <1>9, <1>1 DEF EnsureTimer, Fire, Callback, vars, queue, flush
<1>10. CASE Signal \/ Stop \/ NeedsRetry \/ Exit \/ ShutdownTimesOut
  BY <1>10, <1>1 DEF Signal, Stop, NeedsRetry, Exit, ShutdownTimesOut, queue, flush
<1> QED BY <1>2, <1>3, <1>4, <1>5, <1>6, <1>7, <1>8, <1>9, <1>10 DEF Next, Flush

(* During an outage of any length the buffer holds at most MaxPending rows  *)
(* and one batch. *)
THEOREM BacklogCorrect == Spec => []BacklogBounded
<1>1. Init => BacklogInv
  <2> SUFFICES ASSUME Init PROVE BacklogInv
    OBVIOUS
  <2>1. Len(pending) = 0 /\ batch = <<>> /\ flusher = "free"
    BY EmptySeq DEF Init
  <2> QED BY <2>1, BufferAssumption DEF BacklogInv, BufferAssumption
<1>2. TypeOK /\ BacklogInv => BacklogBounded
  BY Lengths DEF BacklogInv, BacklogBounded
<1> QED BY <1>1, <1>2, BacklogStep, TypeCorrect, PTL DEF Spec

-----------------------------------------------------------------------------
(* Nothing waits in vain.                                                   *)

(* What keeps NoRowForgotten going: while the timer reads as fired, its     *)
(* callback is still to come. *)
WakeInv ==
    /\ NoRowForgotten
    /\ timer = "fired" => callbacks > 0

(* Every step keeps WakeInv. *)
LEMMA WakeStep == TypeOK /\ WakeInv /\ [Next]_vars => WakeInv'
<1> SUFFICES ASSUME TypeOK, WakeInv, [Next]_vars PROVE WakeInv'
  OBVIOUS
<1>t. /\ arming \in Nat /\ strays \in Nat /\ callbacks \in Nat /\ waiting \in Nat
      /\ timer \in {"nil", "armed", "fired"}
  BY DEF TypeOK
<1> USE DEF WakeInv, NoRowForgotten, Running
<1>1. CASE UNCHANGED vars
  BY <1>1 DEF vars, queue, timers, flush
<1>2. CASE Enqueue
  BY <1>2, <1>t DEF Enqueue
<1>3. CASE EnsureTimer
  BY <1>3, <1>t DEF EnsureTimer, Armed, queue, flush
<1>4. CASE Fire
  BY <1>4, <1>t DEF Fire, queue, flush
<1>5. CASE Callback
  BY <1>5, <1>t DEF Callback, queue
<1>6. CASE BeginFlush \/ StopBeginsFlush
  BY <1>6, <1>t DEF BeginFlush, StopBeginsFlush, ClearTimer, queue
<1>7. CASE Take \/ InsertSucceeds \/ InsertFails
  BY <1>7, <1>t DEF Take, InsertSucceeds, InsertFails, queue, timers
<1>8. CASE FindEmpty
  BY <1>8, <1>t DEF FindEmpty, Release, queue, timers
<1>9. CASE Rearm
  BY <1>9, <1>t DEF Rearm, Release, Armed, queue
<1>10. CASE Stop
  BY <1>10, <1>t DEF Stop, ClearTimer, queue, flush, Stopping
<1>11. CASE NeedsRetry
  BY <1>11, <1>t DEF NeedsRetry, queue, flush, timers, Stopping
<1>12. CASE Signal \/ Exit \/ ShutdownTimesOut
  BY <1>12, <1>t DEF Signal, Exit, ShutdownTimesOut, queue, flush, timers, Stopping
<1> QED BY <1>1, <1>2, <1>3, <1>4, <1>5, <1>6, <1>7, <1>8, <1>9, <1>10, <1>11, <1>12
        DEF Next, Flush

(* Rows that wait have a timer, a callback, a flush or a handler under way  *)
(* that will flush them. *)
THEOREM WakeCorrect == Spec => []NoRowForgotten
<1>1. Init => WakeInv
  BY DEF Init, WakeInv, NoRowForgotten
<1>2. WakeInv => NoRowForgotten
  BY DEF WakeInv
<1> QED BY <1>1, <1>2, WakeStep, TypeCorrect, PTL DEF Spec

-----------------------------------------------------------------------------
(* Stop.                                                                    *)

(* A flush of Stop's runs only while Stop waits for it; one that is about   *)
(* to rearm the timer has failed; and once the first has come to its end    *)
(* without a failure the buffer is empty and stays so. *)
StopInv ==
    /\ byStop => phase \in {"flush1", "flush2"}
    /\ byStop /\ flusher = "rearm" => failures > 0
    /\ phase = "flush2" => failures > 0
    /\ phase \in {"check", "stopped"} /\ failures = 0 => pending = <<>> /\ batch = <<>>

(* Every step keeps StopInv. *)
LEMMA StopStep == TypeOK /\ BacklogInv /\ StopInv /\ [Next]_vars => StopInv'
<1> SUFFICES ASSUME TypeOK, BacklogInv, StopInv, [Next]_vars PROVE StopInv'
  OBVIOUS
<1>t. failures \in 0..2 /\ byStop \in BOOLEAN /\ (flusher # "insert" => batch = <<>>)
  BY DEF TypeOK, BacklogInv
<1> USE DEF StopInv, Serving
<1>1. CASE UNCHANGED vars
  BY <1>1 DEF vars, queue, flush
<1>2. CASE Enqueue
  BY <1>2 DEF Enqueue
<1>3. CASE EnsureTimer \/ Fire \/ Callback
  BY <1>3 DEF EnsureTimer, Fire, Callback, queue, flush
<1>4. CASE BeginFlush \/ StopBeginsFlush
  BY <1>4, <1>t DEF BeginFlush, StopBeginsFlush, queue
<1>5. CASE Take
  BY <1>5 DEF Take
<1>6. CASE FindEmpty
  BY <1>6, <1>t DEF FindEmpty, Release, queue
<1>7. CASE InsertSucceeds
  BY <1>7, <1>t DEF InsertSucceeds, queue
<1>8. CASE InsertFails
  BY <1>8, <1>t DEF InsertFails
<1>9. CASE Rearm
  BY <1>9, <1>t DEF Rearm, Release, queue
<1>10. CASE Signal \/ Stop \/ NeedsRetry \/ Exit \/ ShutdownTimesOut
  BY <1>10, <1>t DEF Signal, Stop, NeedsRetry, Exit, ShutdownTimesOut, queue, flush
<1> QED BY <1>1, <1>2, <1>3, <1>4, <1>5, <1>6, <1>7, <1>8, <1>9, <1>10 DEF Next, Flush

(* When Stop returns and no INSERT has failed since it was called, every    *)
(* row that was handed over has left the buffer. *)
THEOREM StopCorrect == Spec => []StopDrains
<1>1. Init => BacklogInv /\ StopInv
  <2> SUFFICES ASSUME Init PROVE BacklogInv /\ StopInv
    OBVIOUS
  <2>1. Len(pending) = 0 /\ batch = <<>> /\ flusher = "free"
    BY EmptySeq DEF Init
  <2>2. BacklogInv
    BY <2>1, BufferAssumption DEF BacklogInv, BufferAssumption
  <2> QED BY <2>2 DEF Init, StopInv
<1>2. StopInv => StopDrains
  BY DEF StopInv, StopDrains
<1> QED BY <1>1, <1>2, BacklogStep, StopStep, TypeCorrect, PTL DEF Spec

-----------------------------------------------------------------------------
(* The buffer is a LossyQueue.                                              *)

(* Dropping the oldest pending row is giving up the row behind the batch. *)
LEMMA DropIsRemoveAt ==
    ASSUME NEW b \in Seq(Record), NEW p \in Seq(Record), p # <<>>
    PROVE  RemoveAt(b \o p, Len(b) + 1) = b \o Tail(p)
<1> DEFINE q == b \o p
           i == Len(b) + 1
<1>1. /\ q \in Seq(Record) /\ Len(q) = Len(b) + Len(p)
      /\ \A j \in 1..Len(q) : q[j] = IF j <= Len(b) THEN b[j] ELSE p[j - Len(b)]
  BY ConcatProperties
<1>2. Len(b) \in Nat /\ Len(p) \in Nat \ {0}
  BY EmptySeq, LenProperties
<1>3. SubSeq(q, 1, i - 1) = b
  <2>1. SubSeq(q, 1, i - 1) \in Seq(Record) /\ Len(SubSeq(q, 1, i - 1)) = Len(b)
        /\ \A j \in 1..Len(b) : SubSeq(q, 1, i - 1)[j] = q[j]
    <3>1. \A j \in 1..(i - 1) : q[j] \in Record
      BY <1>1, <1>2, ElementOfSeq
    <3> HIDE DEF q
    <3>2. i \in Int /\ 1 \in Int /\ i - 1 \in Int /\ i - 1 = Len(b)
      BY <1>2
    <3>3. /\ SubSeq(q, 1, i - 1) \in Seq(Record)
          /\ Len(SubSeq(q, 1, i - 1)) = IF 1 <= i - 1 THEN (i - 1) - 1 + 1 ELSE 0
          /\ \A j \in 1..((i - 1) - 1 + 1) : SubSeq(q, 1, i - 1)[j] = q[1 + j - 1]
      BY <3>1, <3>2, SubSeqProperties
    <3> QED BY <3>2, <3>3, <1>2
  <2> QED BY <2>1, <1>1, <1>2, SeqEqual
<1>4. SubSeq(q, i + 1, Len(q)) = Tail(p)
  <2>1. /\ Tail(p) \in Seq(Record) /\ Len(Tail(p)) = Len(p) - 1
        /\ \A j \in 1..Len(Tail(p)) : Tail(p)[j] = p[j + 1]
    BY HeadTailProperties
  <2>2. /\ SubSeq(q, i + 1, Len(q)) \in Seq(Record)
        /\ Len(SubSeq(q, i + 1, Len(q))) = Len(p) - 1
        /\ \A j \in 1..(Len(p) - 1) : SubSeq(q, i + 1, Len(q))[j] = q[i + j]
    <3>1. \A j \in (i + 1)..Len(q) : q[j] \in Record
      BY <1>1, <1>2, ElementOfSeq
    <3>2. i + 1 \in Int /\ Len(q) \in Int /\ Len(q) - (i + 1) + 1 = Len(p) - 1
      BY <1>1, <1>2
    <3>3. /\ SubSeq(q, i + 1, Len(q)) \in Seq(Record)
          /\ Len(SubSeq(q, i + 1, Len(q))) =
                IF i + 1 <= Len(q) THEN Len(q) - (i + 1) + 1 ELSE 0
          /\ \A j \in 1..(Len(q) - (i + 1) + 1) :
                SubSeq(q, i + 1, Len(q))[j] = q[i + 1 + j - 1]
      <4> HIDE DEF q, i
      <4> QED BY <3>1, <3>2, SubSeqProperties
    <3> QED BY <3>2, <3>3, <1>1, <1>2
  <2>3. \A j \in 1..(Len(p) - 1) : q[i + j] = p[j + 1]
    BY <1>1, <1>2
  <2> QED BY <2>1, <2>2, <2>3, <1>2, SeqEqual
<1> QED BY <1>3, <1>4 DEF RemoveAt

(* Appending to the pending rows is appending to the queue. *)
LEMMA AppendBehind ==
    ASSUME NEW b \in Seq(Record), NEW p \in Seq(Record), NEW r \in Record
    PROVE  b \o Append(p, r) = Append(b \o p, r)
<1>1. p \o <<r>> = Append(p, r) /\ (b \o p) \o <<r>> = Append(b \o p, r)
  BY AppendIsConcat, ConcatProperties
<1>2. <<r>> \in Seq(Record)
  OBVIOUS
<1> QED BY <1>1, <1>2, ConcatAssociative

(* The first rows of the queue are the batch, and the rest is pending. *)
LEMMA BatchIsPrefix ==
    ASSUME NEW b \in Seq(Record), NEW p \in Seq(Record), b # <<>>
    PROVE  /\ Len(b) \in 1..Len(b \o p)
           /\ SubSeq(b \o p, 1, Len(b)) = b
           /\ SubSeq(b \o p, Len(b) + 1, Len(b \o p)) = p
<1>1. /\ b \o p \in Seq(Record) /\ Len(b \o p) = Len(b) + Len(p)
      /\ Len(b) \in Nat \ {0} /\ Len(p) \in Nat
  BY ConcatProperties, EmptySeq, LenProperties
<1>2. SubSeq(b \o p, 1, Len(b)) = SubSeq(b, 1, Len(b))
  BY <1>1, SubSeqOfConcat1
<1>3. SubSeq(b, 1, Len(b)) = b /\ SubSeq(p, 1, Len(p)) = p
  BY SubSeqFull
<1>4. CASE p = <<>>
  <2>1. Len(p) = 0
    BY <1>4, EmptySeq
  <2>2. SubSeq(b \o p, Len(b) + 1, Len(b)) = <<>>
    BY <1>1, SubSeqEmpty
  <2> QED BY <1>1, <1>2, <1>3, <1>4, <2>1, <2>2
<1>5. CASE p # <<>>
  <2>1. Len(p) > 0
    BY <1>5, EmptySeq
  <2>2. SubSeq(b \o p, Len(b) + 1, Len(b) + Len(p))
            = SubSeq(p, Len(b) + 1 - Len(b), Len(b) + Len(p) - Len(b))
    BY <1>1, <2>1, SubSeqOfConcat2
  <2>3. Len(b) + 1 - Len(b) = 1 /\ Len(b) + Len(p) - Len(b) = Len(p)
    BY <1>1
  <2> QED BY <1>1, <1>2, <1>3, <2>2, <2>3
<1> QED BY <1>4, <1>5

(* Every step of the buffer is a step of LossyQueue or leaves it alone. *)
LEMMA RefinementStep ==
    TypeOK /\ BacklogInv /\ [Next]_vars => [LQ!Next]_(LQ!vars)
<1> SUFFICES ASSUME TypeOK, BacklogInv, [Next]_vars PROVE [LQ!Next]_(LQ!vars)
  OBVIOUS
<1> DEFINE q == batch \o pending
<1>t. /\ pending \in Seq(Record) /\ batch \in Seq(Record) /\ stored \in Seq(Record)
      /\ q \in Seq(Record)
  BY ConcatProperties DEF TypeOK
<1>1. ASSUME UNCHANGED <<pending, batch, stored, added>>,
             phase # "exited", phase' # "exited"
      PROVE  UNCHANGED LQ!vars
  BY <1>1 DEF LQ!vars
<1>2. CASE UNCHANGED vars
  BY <1>2 DEF LQ!vars, vars, queue, flush, db
<1>3. CASE Enqueue
  <2>1. added + 1 \in Record /\ added' = added + 1
    BY <1>3, BufferAssumption DEF Enqueue, TypeOK, Record, BufferAssumption
  <2>2. /\ UNCHANGED <<batch, stored, phase>> /\ phase # "exited"
        /\ pending' = Append(MakeRoom(pending), added + 1)
    BY <1>3 DEF Enqueue, Serving, db
  <2>3. batch \o pending' = Append(batch \o MakeRoom(pending), added + 1)
    BY <2>1, <2>2, <1>t, MakeRoomType, AppendBehind
  <2>4. CASE Len(pending) >= MaxPending
    <3>1. pending # <<>>
      BY <2>4, EmptySeq, BufferAssumption DEF BufferAssumption
    <3>2. RemoveAt(q, Len(batch) + 1) = batch \o MakeRoom(pending)
      BY <3>1, <2>4, <1>t, DropIsRemoveAt DEF MakeRoom
    <3>3. Len(q) >= MaxPending /\ Len(batch) + 1 \in 1..Len(q)
      <4>1. Len(q) = Len(batch) + Len(pending)
        BY <1>t, ConcatProperties
      <4> HIDE DEF q
      <4> QED BY <4>1, <2>4, Lengths
    <3>4. \E i \in 1..Len(q) : batch' \o pending' = Append(RemoveAt(q, i), added + 1)
      BY <2>2, <2>3, <3>2, <3>3
    <3>5. LQ!Add
      <4>1. \A s, i : LQ!RemoveAt(s, i) = RemoveAt(s, i)
        BY DEF LQ!RemoveAt, RemoveAt
      <4> QED BY <2>1, <2>2, <3>3, <3>4, <4>1 DEF LQ!Add
    <3> QED BY <3>5, <2>2 DEF LQ!Next
  <2>5. CASE ~(Len(pending) >= MaxPending)
    <3>1. LQ!Add
      BY <2>1, <2>2, <2>3, <2>5 DEF LQ!Add, MakeRoom
    <3> QED BY <3>1, <2>2 DEF LQ!Next
  <2> QED BY <2>4, <2>5
<1>4. CASE EnsureTimer \/ Fire \/ Callback
  BY <1>4, <1>1 DEF EnsureTimer, Fire, Callback, queue, flush, db, Running
<1>5. CASE BeginFlush \/ StopBeginsFlush
  BY <1>5, <1>1 DEF BeginFlush, StopBeginsFlush, queue, db, Running
<1>6. CASE Take
  <2> DEFINE k == IF BatchSize > Len(pending) THEN Len(pending) ELSE BatchSize
  <2>1. k \in Nat /\ pending # <<>>
    BY <1>6, Lengths DEF Take
  <2>2. /\ batch' = SubSeq(pending, 1, k) /\ pending' = SubSeq(pending, k + 1, Len(pending))
        /\ UNCHANGED <<added, stored, phase>> /\ flusher = "take"
    BY <1>6 DEF Take, db
  <2>3. batch' \o pending' = pending
    <3> HIDE DEF k
    <3> QED BY <2>1, <2>2, <1>t, TakeSplits DEF k
  <2>4. batch \o pending = pending
    BY <2>2, <1>t, ConcatEmptySeq DEF BacklogInv
  <2> QED BY <2>2, <2>3, <2>4 DEF LQ!vars
<1>7. CASE FindEmpty
  BY <1>7, <1>1 DEF FindEmpty, Release, queue, db, Running
<1>8. CASE InsertSucceeds
  <2>1. /\ stored' = stored \o batch /\ batch' = <<>> /\ flusher = "insert"
        /\ UNCHANGED <<pending, added, phase>> /\ phase # "exited"
    BY <1>8 DEF InsertSucceeds, queue, Running
  <2>2. Len(batch) <= BatchSize /\ batch # <<>>
    BY <2>1, EmptySeq DEF BacklogInv
  <2>3. batch' \o pending' = pending
    BY <2>1, <1>t, ConcatEmptySeq
  <2>4. \E k \in 1..Len(q) :
            /\ k <= BatchSize
            /\ stored' = stored \o SubSeq(q, 1, k)
            /\ batch' \o pending' = SubSeq(q, k + 1, Len(q))
    <3>1. /\ Len(batch) \in 1..Len(q)
          /\ SubSeq(q, 1, Len(batch)) = batch
          /\ SubSeq(q, Len(batch) + 1, Len(q)) = pending
      BY <2>2, <1>t, BatchIsPrefix
    <3> HIDE DEF q
    <3> QED BY <2>1, <2>2, <2>3, <3>1
  <2>5. LQ!Store
    BY <2>1, <2>4 DEF LQ!Store
  <2> QED BY <2>1, <2>5 DEF LQ!Next
<1>9. CASE InsertFails
  <2>1. /\ pending' = batch \o pending /\ batch' = <<>> /\ flusher = "insert"
        /\ UNCHANGED <<added, phase>> /\ phase # "exited"
    BY <1>9 DEF InsertFails, Running
  <2>2. Len(batch) <= BatchSize /\ batch # <<>>
    BY <2>1, EmptySeq DEF BacklogInv
  <2>3. batch' \o pending' = batch \o pending
    BY <2>1, <1>t, ConcatEmptySeq
  <2>4. CASE UNCHANGED db
    BY <2>1, <2>3, <2>4 DEF LQ!vars, db
  <2>5. CASE CommitsUnnoticed
    <3>1. LQ!StoreUnnoticed
      BY <2>1, <2>2, <2>3, <2>5, <1>t, BatchIsPrefix DEF LQ!StoreUnnoticed, CommitsUnnoticed
    <3> QED BY <3>1, <2>1 DEF LQ!Next
  <2> QED BY <1>9, <2>4, <2>5 DEF InsertFails
<1>10. CASE Rearm
  BY <1>10, <1>1 DEF Rearm, Release, queue, db, Running
<1>11. CASE Signal \/ Stop \/ NeedsRetry
  BY <1>11, <1>1 DEF Signal, Stop, NeedsRetry, queue, flush, db
<1>12. CASE Exit \/ ShutdownTimesOut
  <2>1. LQ!End /\ phase # "exited"
    BY <1>12 DEF Exit, ShutdownTimesOut, LQ!End, queue, flush, db
  <2> QED BY <2>1 DEF LQ!Next
<1> QED BY <1>2, <1>3, <1>4, <1>5, <1>6, <1>7, <1>8, <1>9, <1>10, <1>11, <1>12
        DEF Next, Flush

(* The write buffer implements LossyQueue: whatever flushes, failures and   *)
(* shutdowns interleave, rows reach the table in order and only a handler   *)
(* that finds the backlog full gives one up. *)
THEOREM RefinementCorrect == Spec => ImplementsLossyQueue
<1>1. Init => BacklogInv /\ LQ!Init
  <2> SUFFICES ASSUME Init PROVE BacklogInv /\ LQ!Init
    OBVIOUS
  <2>1. Len(pending) = 0 /\ batch = <<>> /\ pending = <<>> /\ flusher = "free"
    BY EmptySeq DEF Init
  <2>2. BacklogInv
    BY <2>1, BufferAssumption DEF BacklogInv, BufferAssumption
  <2>3. batch \o pending = <<>>
    BY <2>1, EmptySeq, ConcatEmptySeq
  <2> QED BY <2>2, <2>3 DEF Init, LQ!Init
<1> QED BY <1>1, BacklogStep, RefinementStep, TypeCorrect, PTL
       DEF Spec, ImplementsLossyQueue, LQ!Spec

-----------------------------------------------------------------------------
(* The order of the rows.                                                   *)

(* Rows come in the order of their numbers, but for those excepted; all of   *)
(* one sequence come before all of another, but for those excepted of the    *)
(* other; and a sequence has no row beyond n.                               *)
Ascends(s, but) ==
    \A i, j \in 1..Len(s) : i < j => s[i] < s[j] \/ s[j] \in but
Precedes(s, t, but) ==
    \A i \in 1..Len(s), j \in 1..Len(t) : s[i] < t[j] \/ t[j] \in but
UpToRow(s, n) == \A i \in 1..Len(s) : s[i] <= n

(* What the rows of a concatenation are.                                    *)
LEMMA ConcatRows ==
    ASSUME NEW s \in Seq(Record), NEW t \in Seq(Record)
    PROVE  /\ s \o t \in Seq(Record)
           /\ Len(s) \in Nat /\ Len(t) \in Nat /\ Len(s \o t) = Len(s) + Len(t)
           /\ \A i \in 1..Len(s) : i \in 1..Len(s \o t) /\ (s \o t)[i] = s[i]
           /\ \A i \in 1..Len(t) :
                 Len(s) + i \in 1..Len(s \o t) /\ (s \o t)[Len(s) + i] = t[i]
           /\ \A k \in 1..Len(s \o t) :
                 \/ k \in 1..Len(s) /\ (s \o t)[k] = s[k]
                 \/ k - Len(s) \in 1..Len(t) /\ (s \o t)[k] = t[k - Len(s)]
<1>1. /\ s \o t \in Seq(Record) /\ Len(s \o t) = Len(s) + Len(t)
      /\ \A i \in 1..Len(s) + Len(t) :
            (s \o t)[i] = IF i <= Len(s) THEN s[i] ELSE t[i - Len(s)]
  BY ConcatProperties
<1>2. Len(s) \in Nat /\ Len(t) \in Nat
  BY LenProperties
<1> DEFINE u == s \o t
<1>3. u = s \o t
  OBVIOUS
<1> HIDE DEF u
<1> QED BY <1>1, <1>2, <1>3

(* A concatenation is in order if its halves are and the first comes before  *)
(* the second.                                                              *)
LEMMA ConcatAscends ==
    ASSUME NEW s \in Seq(Record), NEW t \in Seq(Record), NEW but
    PROVE  Ascends(s \o t, but)
               <=> Ascends(s, but) /\ Ascends(t, but) /\ Precedes(s, t, but)
<1> DEFINE u == s \o t
<1>1. /\ Len(s) \in Nat /\ Len(t) \in Nat /\ Len(u) = Len(s) + Len(t)
      /\ \A i \in 1..Len(s) : i \in 1..Len(u) /\ u[i] = s[i]
      /\ \A i \in 1..Len(t) : Len(s) + i \in 1..Len(u) /\ u[Len(s) + i] = t[i]
      /\ \A k \in 1..Len(u) : \/ k \in 1..Len(s) /\ u[k] = s[k]
                              \/ k - Len(s) \in 1..Len(t) /\ u[k] = t[k - Len(s)]
  BY ConcatRows
<1> HIDE DEF u
<1>2. ASSUME Ascends(u, but)
      PROVE  Ascends(s, but) /\ Ascends(t, but) /\ Precedes(s, t, but)
  <2>1. Ascends(s, but)
    BY <1>1, <1>2 DEF Ascends
  <2>2. Ascends(t, but)
    <3> SUFFICES ASSUME NEW i \in 1..Len(t), NEW j \in 1..Len(t), i < j
                 PROVE  t[i] < t[j] \/ t[j] \in but
      BY DEF Ascends
    <3>1. /\ Len(s) + i \in 1..Len(u) /\ u[Len(s) + i] = t[i]
          /\ Len(s) + j \in 1..Len(u) /\ u[Len(s) + j] = t[j]
          /\ Len(s) + i < Len(s) + j
      BY <1>1
    <3> QED BY <1>2, <3>1 DEF Ascends
  <2>3. Precedes(s, t, but)
    <3> SUFFICES ASSUME NEW i \in 1..Len(s), NEW j \in 1..Len(t)
                 PROVE  s[i] < t[j] \/ t[j] \in but
      BY DEF Precedes
    <3>1. /\ i \in 1..Len(u) /\ u[i] = s[i]
          /\ Len(s) + j \in 1..Len(u) /\ u[Len(s) + j] = t[j]
          /\ i < Len(s) + j
      BY <1>1
    <3> QED BY <1>2, <3>1 DEF Ascends
  <2> QED BY <2>1, <2>2, <2>3
<1>3. ASSUME Ascends(s, but), Ascends(t, but), Precedes(s, t, but)
      PROVE  Ascends(u, but)
  <2> SUFFICES ASSUME NEW k \in 1..Len(u), NEW l \in 1..Len(u), k < l
               PROVE  u[k] < u[l] \/ u[l] \in but
    BY DEF Ascends
  <2>1. CASE k \in 1..Len(s) /\ u[k] = s[k] /\ l \in 1..Len(s) /\ u[l] = s[l]
    BY <1>3, <2>1 DEF Ascends
  <2>2. CASE /\ k \in 1..Len(s) /\ u[k] = s[k]
             /\ l - Len(s) \in 1..Len(t) /\ u[l] = t[l - Len(s)]
    BY <1>3, <2>2 DEF Precedes
  <2>3. CASE /\ k - Len(s) \in 1..Len(t) /\ u[k] = t[k - Len(s)]
             /\ l - Len(s) \in 1..Len(t) /\ u[l] = t[l - Len(s)]
    <3>1. k - Len(s) < l - Len(s)
      BY <1>1
    <3> QED BY <1>3, <2>3, <3>1 DEF Ascends
  <2>4. CASE k - Len(s) \in 1..Len(t) /\ l \in 1..Len(s)
    BY <1>1, <2>4
  <2> QED BY <1>1, <2>1, <2>2, <2>3, <2>4
<1> QED BY <1>2, <1>3 DEF u

(* A concatenation comes before, or after, others if its halves do, and has  *)
(* no row beyond n if they have none.                                       *)
LEMMA ConcatPrecedes ==
    ASSUME NEW s \in Seq(Record), NEW t \in Seq(Record), NEW v, NEW but, NEW n
    PROVE  /\ Precedes(s \o t, v, but) <=> Precedes(s, v, but) /\ Precedes(t, v, but)
           /\ Precedes(v, s \o t, but) <=> Precedes(v, s, but) /\ Precedes(v, t, but)
           /\ UpToRow(s \o t, n) <=> UpToRow(s, n) /\ UpToRow(t, n)
<1> DEFINE u == s \o t
<1>1. /\ \A i \in 1..Len(s) : i \in 1..Len(u) /\ u[i] = s[i]
      /\ \A i \in 1..Len(t) : Len(s) + i \in 1..Len(u) /\ u[Len(s) + i] = t[i]
      /\ \A k \in 1..Len(u) : \/ k \in 1..Len(s) /\ u[k] = s[k]
                              \/ k - Len(s) \in 1..Len(t) /\ u[k] = t[k - Len(s)]
  BY ConcatRows
<1> HIDE DEF u
<1>2. Precedes(u, v, but) <=> Precedes(s, v, but) /\ Precedes(t, v, but)
  BY <1>1, Zenon DEF Precedes
<1>3. Precedes(v, u, but) <=> Precedes(v, s, but) /\ Precedes(v, t, but)
  BY <1>1, Zenon DEF Precedes
<1>4. UpToRow(u, n) <=> UpToRow(s, n) /\ UpToRow(t, n)
  BY <1>1, Zenon DEF UpToRow
<1> QED BY <1>2, <1>3, <1>4 DEF u

(* More exceptions do no harm.                                              *)
LEMMA MoreExceptions ==
    ASSUME NEW but, NEW more, but \subseteq more, NEW s, NEW t
    PROVE  /\ Ascends(s, but) => Ascends(s, more)
           /\ Precedes(s, t, but) => Precedes(s, t, more)
BY DEF Ascends, Precedes

(* Rows that wait are in order, and behind those of the table but for the    *)
(* ones the table may hold already; no row is beyond those handed over.     *)
OrderInv ==
    /\ Ascends(batch \o pending, {})
    /\ Ascends(stored, unsure)
    /\ Precedes(stored, batch \o pending, unsure)
    /\ UpToRow(batch \o pending, added) /\ UpToRow(stored, added)

(* Enqueue may drop the oldest pending row and puts the new one last. *)
LEMMA EnqueueOrder ==
    ASSUME TypeOK, OrderInv, Enqueue PROVE OrderInv'
<1> DEFINE room == MakeRoom(pending)
           new == <<added + 1>>
<1>1. /\ batch \in Seq(Record) /\ pending \in Seq(Record) /\ stored \in Seq(Record)
      /\ added \in Nat /\ added' = added + 1
      /\ UNCHANGED <<batch, stored, unsure>>
  BY BufferAssumption DEF Enqueue, TypeOK, db, BufferAssumption
<1>2. /\ Ascends(batch, {}) /\ Ascends(pending, {}) /\ Precedes(batch, pending, {})
      /\ Precedes(stored, batch, unsure) /\ Precedes(stored, pending, unsure)
      /\ UpToRow(batch, added) /\ UpToRow(pending, added)
  BY <1>1, ConcatAscends, ConcatPrecedes DEF OrderInv
<1>3. /\ room \in Seq(Record)
      /\ Ascends(room, {}) /\ Precedes(batch, room, {}) /\ Precedes(stored, room, unsure)
      /\ UpToRow(room, added)
  <2>1. CASE Len(pending) >= MaxPending
    <3>1. pending # <<>>
      BY <2>1, EmptySeq, BufferAssumption DEF BufferAssumption
    <3>2. /\ room \in Seq(Record) /\ Len(room) = Len(pending) - 1
          /\ \A i \in 1..Len(room) : room[i] = pending[i + 1]
      BY <1>1, <2>1, <3>1, HeadTailProperties DEF MakeRoom
    <3>3. Len(pending) \in Nat \ {0}
      BY <1>1, <3>1, EmptySeq
    <3>4. \A i \in 1..Len(room) : i + 1 \in 1..Len(pending)
      BY <3>2, <3>3
    <3> HIDE DEF room
    <3>5. Ascends(room, {})
      <4> SUFFICES ASSUME NEW i \in 1..Len(room), NEW j \in 1..Len(room), i < j
                   PROVE  room[i] < room[j]
        BY DEF Ascends
      <4> QED BY <1>2, <3>2, <3>4 DEF Ascends
    <3>6. /\ Precedes(batch, room, {}) /\ Precedes(stored, room, unsure)
          /\ UpToRow(room, added)
      BY <1>2, <3>2, <3>4 DEF Precedes, UpToRow
    <3> QED BY <3>2, <3>5, <3>6
  <2>2. CASE ~(Len(pending) >= MaxPending)
    BY <1>1, <1>2, <2>2 DEF MakeRoom
  <2> QED BY <2>1, <2>2
<1>4. added + 1 \in Record /\ new \in Seq(Record)
  BY BufferAssumption DEF Enqueue, TypeOK, Record, BufferAssumption
<1>5. Len(new) = 1 /\ new[1] = added + 1
  OBVIOUS
<1>6. pending' = room \o new
  BY <1>1, <1>3, <1>4, AppendIsConcat DEF Enqueue
<1> HIDE DEF room, new
<1>7. Ascends(new, {}) /\ UpToRow(new, added + 1)
  BY <1>1, <1>5 DEF Ascends, UpToRow
<1>8. ASSUME NEW s \in Seq(Record), UpToRow(s, added), NEW but
      PROVE  Precedes(s, new, but) /\ UpToRow(s, added + 1)
  <2>1. \A i \in 1..Len(s) : s[i] \in Nat
    <3>1. \A i \in 1..Len(s) : s[i] \in Record
      BY ElementOfSeq
    <3>2. Record \subseteq Nat
      BY DEF Record
    <3> QED BY <3>1, <3>2
  <2>2. \A i \in 1..Len(s) : s[i] < added + 1 /\ s[i] <= added + 1
    BY <1>1, <1>8, <2>1 DEF UpToRow
  <2>3. \A j \in 1..Len(new) : new[j] = added + 1
    BY <1>5
  <2> QED BY <2>2, <2>3 DEF Precedes, UpToRow
<1>9. pending' \in Seq(Record) /\ Ascends(pending', {}) /\ Precedes(batch, pending', {})
      /\ Precedes(stored, pending', unsure) /\ UpToRow(pending', added + 1)
  BY <1>1, <1>2, <1>3, <1>4, <1>6, <1>7, <1>8, ConcatAscends, ConcatPrecedes, ConcatProperties
     DEF OrderInv
<1>10. UpToRow(batch, added + 1) /\ UpToRow(stored, added + 1)
  BY <1>1, <1>2, <1>8 DEF OrderInv
<1> QED BY <1>1, <1>2, <1>9, <1>10, ConcatAscends, ConcatPrecedes DEF OrderInv

(* An INSERT moves the batch, in order, behind the rows of the table.       *)
LEMMA InsertOrder ==
    ASSUME TypeOK, OrderInv
    PROVE  /\ Ascends(stored \o batch, unsure)
           /\ Precedes(stored \o batch, pending, unsure)
           /\ Ascends(pending, {})
           /\ UpToRow(stored \o batch, added) /\ UpToRow(pending, added)
<1>1. batch \in Seq(Record) /\ pending \in Seq(Record) /\ stored \in Seq(Record)
  BY DEF TypeOK
<1>2. /\ Ascends(batch, {}) /\ Ascends(pending, {}) /\ Precedes(batch, pending, {})
      /\ Precedes(stored, batch, unsure) /\ Precedes(stored, pending, unsure)
      /\ UpToRow(batch, added) /\ UpToRow(pending, added)
  BY <1>1, ConcatAscends, ConcatPrecedes DEF OrderInv
<1>3. Ascends(batch, unsure) /\ Precedes(batch, pending, unsure)
  BY <1>2, MoreExceptions
<1> QED BY <1>1, <1>2, <1>3, ConcatAscends, ConcatPrecedes DEF OrderInv

(* Every step keeps OrderInv. *)
LEMMA OrderStep == TypeOK /\ BacklogInv /\ OrderInv /\ [Next]_vars => OrderInv'
<1> SUFFICES ASSUME TypeOK, BacklogInv, OrderInv, [Next]_vars PROVE OrderInv'
  OBVIOUS
<1>t. batch \in Seq(Record) /\ pending \in Seq(Record) /\ stored \in Seq(Record)
  BY DEF TypeOK
<1>1. ASSUME UNCHANGED <<batch, pending, stored, unsure, added>> PROVE OrderInv'
  BY <1>1 DEF OrderInv
<1>2. CASE Enqueue
  BY <1>2, EnqueueOrder
<1>3. CASE Take
  <2> DEFINE k == IF BatchSize > Len(pending) THEN Len(pending) ELSE BatchSize
  <2>1. k \in Nat /\ pending # <<>>
    BY <1>3, Lengths DEF Take
  <2>2. /\ batch' = SubSeq(pending, 1, k) /\ pending' = SubSeq(pending, k + 1, Len(pending))
        /\ UNCHANGED <<added, stored, unsure>> /\ flusher = "take"
    BY <1>3 DEF Take, db
  <2>3. batch' \o pending' = pending
    <3> HIDE DEF k
    <3> QED BY <2>1, <2>2, <1>t, TakeSplits DEF k
  <2>4. batch \o pending = pending
    BY <2>2, <1>t, ConcatEmptySeq DEF BacklogInv
  <2> QED BY <2>2, <2>3, <2>4 DEF OrderInv
<1>4. CASE InsertSucceeds
  <2>1. /\ stored' = stored \o batch /\ batch' = <<>>
        /\ UNCHANGED <<pending, added, unsure>>
    BY <1>4 DEF InsertSucceeds, queue
  <2>2. batch' \o pending' = pending
    BY <2>1, <1>t, ConcatEmptySeq
  <2> QED BY <2>1, <2>2, InsertOrder DEF OrderInv
<1>5. CASE InsertFails
  <2>1. /\ pending' = batch \o pending /\ batch' = <<>> /\ added' = added
        /\ UNCHANGED db \/ CommitsUnnoticed
    BY <1>5 DEF InsertFails
  <2>2. batch' \o pending' = batch \o pending
    BY <2>1, <1>t, ConcatEmptySeq, ConcatProperties
  <2>3. CASE UNCHANGED db
    BY <2>1, <2>2, <2>3 DEF OrderInv, db
  <2>4. CASE CommitsUnnoticed
    <3>1. stored' = stored \o batch /\ unsure' = unsure \cup Range(batch)
      BY <2>4 DEF CommitsUnnoticed
    <3>2. Ascends(stored', unsure') /\ Precedes(stored', pending, unsure')
      BY <3>1, InsertOrder, MoreExceptions
    <3>3. Precedes(stored', batch, unsure')
      <4>1. \A i \in 1..Len(batch) : batch[i] \in Range(batch)
        BY <1>t, LenProperties DEF Range
      <4> QED BY <3>1, <4>1 DEF Precedes
    <3>4. Precedes(stored', batch \o pending, unsure')
      BY <1>t, <3>2, <3>3, ConcatPrecedes
    <3>5. UpToRow(stored', added)
      BY <3>1, InsertOrder
    <3> QED BY <2>1, <2>2, <3>2, <3>4, <3>5 DEF OrderInv
  <2> QED BY <2>1, <2>3, <2>4
<1>6. CASE EnsureTimer \/ Fire \/ Callback \/ UNCHANGED vars
  BY <1>1, <1>6 DEF EnsureTimer, Fire, Callback, vars, queue, flush, db
<1>7. CASE BeginFlush \/ StopBeginsFlush \/ FindEmpty \/ Rearm
  BY <1>1, <1>7 DEF BeginFlush, StopBeginsFlush, FindEmpty, Rearm, Release, queue, db
<1>8. CASE Signal \/ Stop \/ NeedsRetry \/ Exit \/ ShutdownTimesOut
  BY <1>1, <1>8 DEF Signal, Stop, NeedsRetry, Exit, ShutdownTimesOut, queue, flush, db
<1> QED BY <1>2, <1>3, <1>4, <1>5, <1>6, <1>7, <1>8 DEF Next, Flush

(* The table holds the rows in the order in which they were handed over,     *)
(* and one twice only when an INSERT of it was reported failed and had       *)
(* committed. *)
THEOREM OrderCorrect == Spec => []OnlyUnsureRowsRepeat
<1>1. Init => BacklogInv /\ OrderInv
  <2> SUFFICES ASSUME Init PROVE BacklogInv /\ OrderInv
    OBVIOUS
  <2>1. /\ Len(pending) = 0 /\ Len(stored) = 0 /\ batch = <<>> /\ pending = <<>>
        /\ flusher = "free"
    BY EmptySeq DEF Init
  <2>2. BacklogInv
    BY <2>1, BufferAssumption DEF BacklogInv, BufferAssumption
  <2>3. Len(batch \o pending) = 0
    BY <2>1, EmptySeq, ConcatEmptySeq
  <2> QED BY <2>1, <2>2, <2>3 DEF OrderInv, Ascends, Precedes, UpToRow
<1>2. OrderInv => OnlyUnsureRowsRepeat
  BY DEF OrderInv, Ascends, OnlyUnsureRowsRepeat
<1> QED BY <1>1, <1>2, BacklogStep, OrderStep, TypeCorrect, PTL DEF Spec
=============================================================================
