----------------------------- MODULE WriteBuffer -----------------------------
(***************************************************************************)
(* The asynchronous writer of message_requests rows,                       *)
(* internal/repository/write_buffer.go, and its end in runGateway          *)
(* (cmd/omnihub/main.go).  Three mutexes: mu (the queue), timerMu (the     *)
(* timer) and flushMu, which a flush holds from start to end; one action   *)
(* is one critical section of mu or timerMu.                               *)
(*                                                                         *)
(* Flush runs on many goroutines: those spawned by Enqueue, timer          *)
(* callbacks, and Stop.  Only the one that holds flushMu has a place       *)
(* (flusher); the others differ in nothing and are counted.                *)
(***************************************************************************)
EXTENDS Naturals, Sequences, SequencesExt

CONSTANTS
    MaxRecords,   \* bound: rows handed over in one behaviour
    MaxPending,
    BatchSize,
    MaxFlushes,   \* bound: flush goroutines and callbacks outstanding
    Outages       \* the database may fail an INSERT

ASSUME BufferAssumption ==
    /\ MaxRecords \in Nat
    /\ MaxPending \in Nat \ {0}
    /\ BatchSize \in Nat \ {0}
    /\ MaxFlushes \in Nat \ {0}
    /\ Outages \in BOOLEAN

VARIABLES
    pending,    \* WriteBuffer.pending
    added,      \* rows handed to Enqueue so far, numbered 1..added
    arming,     \* Enqueue calls between mu.Unlock and ensureTimer
    timer,      \* WriteBuffer.timer: nil, armed, or fired but not yet reset
    strays,     \* armed timers that timer no longer points to
    callbacks,  \* timer callbacks that have not reset timer yet
    waiting,    \* flushes waiting for flushMu
    flusher,    \* where the flush that holds flushMu is
    batch,      \* the rows it has taken
    byStop,     \* it is one of Stop's
    phase,      \* how far runGateway has come
    stored,     \* the table message_requests, in order of insertion
    unsure,     \* observed: rows of INSERTs committed but reported failed
    failures    \* observed: INSERTs failed since Stop began, up to 2

queue == <<pending, added>>
timers == <<arming, timer, strays, callbacks>>
flush == <<waiting, flusher, batch, byStop>>
db == <<stored, unsure>>
vars == <<queue, timers, flush, phase, db, failures>>

Record == 1..MaxRecords
Serving == {"serving", "draining"}
Stopping == {"flush1", "check", "flush2"}
Phase == Serving \cup Stopping \cup {"stopped", "exited"}

TypeOK ==
    /\ pending \in Seq(Record)
    /\ added \in 0..MaxRecords
    /\ arming \in Nat
    /\ timer \in {"nil", "armed", "fired"}
    /\ strays \in Nat
    /\ callbacks \in Nat
    /\ waiting \in Nat
    /\ flusher \in {"free", "take", "insert", "rearm"}
    /\ batch \in Seq(Record)
    /\ byStop \in BOOLEAN
    /\ phase \in Phase
    /\ stored \in Seq(Record)
    /\ unsure \subseteq Record
    /\ failures \in 0..2

Init ==
    /\ pending = <<>> /\ added = 0
    /\ arming = 0 /\ timer = "nil" /\ strays = 0 /\ callbacks = 0
    /\ waiting = 0 /\ flusher = "free" /\ batch = <<>> /\ byStop = FALSE
    /\ phase = "serving"
    /\ stored = <<>> /\ unsure = {}
    /\ failures = 0

Running == phase # "exited"

-----------------------------------------------------------------------------
(* Enqueue.  Handlers call it until server.Shutdown has returned, so it     *)
(* never finds the buffer stopping.                                         *)

\* Mutant: room is made one row too late.
MakeRoomLate(q) == IF Len(q) > MaxPending THEN Tail(q) ELSE q

MakeRoom(q) == IF Len(q) >= MaxPending THEN Tail(q) ELSE q

Enqueue ==
    /\ phase \in Serving
    /\ added < MaxRecords
    /\ waiting < MaxFlushes
    /\ added' = added + 1
    /\ pending' = Append(MakeRoom(pending), added')
    /\ IF Len(pending') >= BatchSize
       THEN waiting' = waiting + 1 /\ UNCHANGED arming
       ELSE arming' = arming + 1 /\ UNCHANGED waiting
    /\ UNCHANGED <<timer, strays, callbacks, flusher, batch, byStop, phase, db, failures>>

-----------------------------------------------------------------------------
(* The timer.                                                               *)

Armed(t) == IF t = "nil" THEN "armed" ELSE t

EnsureTimer ==
    /\ Running
    /\ arming > 0
    /\ arming' = arming - 1
    /\ timer' = Armed(timer)
    /\ UNCHANGED <<queue, strays, callbacks, flush, phase, db, failures>>

Fire ==
    /\ Running
    /\ callbacks + waiting < MaxFlushes
    /\ \/ timer = "armed" /\ timer' = "fired" /\ UNCHANGED strays
       \/ strays > 0 /\ strays' = strays - 1 /\ UNCHANGED timer
    /\ callbacks' = callbacks + 1
    /\ UNCHANGED <<queue, arming, flush, phase, db, failures>>

(* The callback resets timer whatever it points to by then, and flushes.    *)
Callback ==
    /\ Running
    /\ callbacks > 0
    /\ callbacks' = callbacks - 1
    /\ strays' = IF timer = "armed" THEN strays + 1 ELSE strays
    /\ timer' = "nil"
    /\ waiting' = waiting + 1
    /\ UNCHANGED <<queue, arming, flusher, batch, byStop, phase, db, failures>>

ClearTimer == timer' = "nil" /\ UNCHANGED <<arming, strays, callbacks>>

-----------------------------------------------------------------------------
(* Flush.                                                                   *)

BeginFlush ==
    /\ Running /\ flusher = "free"
    /\ waiting > 0 /\ waiting' = waiting - 1
    /\ flusher' = "take" /\ byStop' = FALSE
    /\ ClearTimer
    /\ UNCHANGED <<queue, batch, phase, db, failures>>

StopBeginsFlush ==
    /\ phase \in {"flush1", "flush2"} /\ flusher = "free"
    /\ flusher' = "take" /\ byStop' = TRUE
    /\ ClearTimer
    /\ UNCHANGED <<queue, waiting, batch, phase, db, failures>>

(* flushMu is released; Stop goes on where it called Flush from.            *)
Release ==
    /\ flusher' = "free"
    /\ byStop' = FALSE
    /\ phase' = IF ~byStop THEN phase
                ELSE IF phase = "flush1" THEN "check" ELSE "stopped"

Take ==
    /\ Running /\ flusher = "take" /\ pending # <<>>
    /\ LET take == IF BatchSize > Len(pending) THEN Len(pending) ELSE BatchSize
       IN  /\ batch' = SubSeq(pending, 1, take)
           /\ pending' = SubSeq(pending, take + 1, Len(pending))
    /\ flusher' = "insert"
    /\ UNCHANGED <<added, timers, waiting, byStop, phase, db, failures>>

FindEmpty ==
    /\ Running /\ flusher = "take" /\ pending = <<>>
    /\ Release
    /\ UNCHANGED <<queue, timers, waiting, batch, db, failures>>

InsertSucceeds ==
    /\ Running /\ flusher = "insert"
    /\ stored' = stored \o batch
    /\ batch' = <<>>
    /\ flusher' = "take"
    /\ UNCHANGED <<queue, timers, waiting, byStop, phase, unsure, failures>>

(* An INSERT is one statement, but a lost connection or an expired context  *)
(* can hide that it was committed; bound: once for a row.                   *)
CommitsUnnoticed ==
    /\ Range(batch) \cap unsure = {}
    /\ stored' = stored \o batch
    /\ unsure' = unsure \cup Range(batch)

(* Mutant: the batch goes to the tail of the queue.                         *)
InsertFailsToTail ==
    /\ Outages
    /\ Running /\ flusher = "insert"
    /\ UNCHANGED db \/ CommitsUnnoticed
    /\ pending' = pending \o batch
    /\ batch' = <<>>
    /\ flusher' = "rearm"
    /\ failures' = IF phase \in Serving \/ failures = 2 THEN failures ELSE failures + 1
    /\ UNCHANGED <<added, timers, waiting, byStop, phase>>

(* Mutant: the batch is not put back.                                       *)
InsertFailsForGood ==
    /\ Outages
    /\ Running /\ flusher = "insert"
    /\ UNCHANGED db \/ CommitsUnnoticed
    /\ batch' = <<>>
    /\ flusher' = "rearm"
    /\ failures' = IF phase \in Serving \/ failures = 2 THEN failures ELSE failures + 1
    /\ UNCHANGED <<queue, timers, waiting, byStop, phase>>

(* On an error the batch goes back to the head of the queue.                *)
InsertFails ==
    /\ Outages
    /\ Running /\ flusher = "insert"
    /\ UNCHANGED db \/ CommitsUnnoticed
    /\ pending' = batch \o pending
    /\ batch' = <<>>
    /\ flusher' = "rearm"
    /\ failures' = IF phase \in Serving \/ failures = 2 THEN failures ELSE failures + 1
    /\ UNCHANGED <<added, timers, waiting, byStop, phase>>

(* Mutant: a failed flush just returns.                                     *)
RearmNothing ==
    /\ Running /\ flusher = "rearm"
    /\ Release
    /\ UNCHANGED <<queue, timers, waiting, batch, db, failures>>

Rearm ==
    /\ Running /\ flusher = "rearm"
    /\ timer' = Armed(timer)
    /\ Release
    /\ UNCHANGED <<queue, arming, strays, callbacks, waiting, batch, db, failures>>

-----------------------------------------------------------------------------
(* runGateway, from the shutdown signal on.                                 *)

Signal ==
    /\ phase = "serving" /\ phase' = "draining"
    /\ UNCHANGED <<queue, timers, flush, db, failures>>

(* Mutant: Stop flushes only if a timer says there is something to flush.   *)
StopTrustsTimer ==
    /\ phase = "draining" /\ arming = 0
    /\ phase' = IF timer = "nil" THEN "stopped" ELSE "flush1"
    /\ ClearTimer
    /\ UNCHANGED <<queue, flush, db, failures>>

(* server.Shutdown has seen every handler return; the deferred Stop runs.   *)
Stop ==
    /\ phase = "draining" /\ arming = 0
    /\ phase' = "flush1"
    /\ ClearTimer
    /\ UNCHANGED <<queue, flush, db, failures>>

NeedsRetry ==
    /\ phase = "check"
    /\ phase' = IF pending = <<>> THEN "stopped" ELSE "flush2"
    /\ UNCHANGED <<queue, timers, flush, db, failures>>

(* pool.Close and the end of main.                                          *)
Exit ==
    /\ phase = "stopped" /\ phase' = "exited"
    /\ UNCHANGED <<queue, timers, flush, db, failures>>

(* server.Shutdown gives up on a request that is still streaming, and       *)
(* os.Exit runs no deferred call.                                           *)
ShutdownTimesOut ==
    /\ phase = "draining" /\ phase' = "exited"
    /\ UNCHANGED <<queue, timers, flush, db, failures>>

Flush == BeginFlush \/ StopBeginsFlush \/ Take \/ FindEmpty \/ InsertSucceeds
             \/ InsertFails \/ Rearm

Next ==
    \/ Enqueue \/ EnsureTimer \/ Fire \/ Callback
    \/ Flush
    \/ Signal \/ Stop \/ NeedsRetry \/ Exit \/ ShutdownTimesOut

Spec == Init /\ [][Next]_vars

-----------------------------------------------------------------------------
(* What the buffer promises (LossyQueue): the rows a flush has taken and    *)
(* not yet stored are still in the queue, ahead of the pending ones.  So no *)
(* row is lost or overtaken, except that a handler that finds MaxPending    *)
(* rows waiting drops the oldest of them.                                   *)
LQ == INSTANCE LossyQueue WITH
          queue <- batch \o pending, table <- stored, ended <- phase = "exited",
          Capacity <- MaxPending, Batch <- BatchSize

ImplementsLossyQueue == LQ!Spec

(* Memory during an outage: the requeued batch comes on top of MaxPending,  *)
(* and no number of failed flushes adds more.                               *)
BacklogBounded == Len(batch) + Len(pending) <= MaxPending + BatchSize

(* Rows are inserted in the order they were handed over, and a row is       *)
(* inserted twice only if an INSERT that was reported failed had committed. *)
OnlyUnsureRowsRepeat ==
    \A i, j \in 1..Len(stored) :
        i < j => stored[i] < stored[j] \/ stored[j] \in unsure

(* While rows wait, something is under way that will flush them: a timer, a *)
(* callback, a flush, or a handler about to arm the timer.  The timer and   *)
(* the queue have different locks, and a callback may reset a timer that is *)
(* not its own.                                                             *)
NoRowForgotten ==
    Running /\ pending # <<>>
        => \/ timer = "armed" \/ strays > 0 \/ callbacks > 0 \/ arming > 0
           \/ waiting > 0 \/ flusher # "free" \/ phase \in Stopping

(* When Stop returns and no INSERT has failed since it was called, every    *)
(* row is in the table, whatever other flushes were going on.               *)
StopDrains ==
    phase = "stopped" /\ failures = 0 => pending = <<>> /\ batch = <<>>

-----------------------------------------------------------------------------
(* Liveness: timers fire, flush goroutines run, and the database does not   *)
(* fail for ever.                                                           *)
Fairness ==
    /\ WF_vars(EnsureTimer) /\ WF_vars(Fire) /\ WF_vars(Callback)
    /\ SF_vars(BeginFlush) /\ SF_vars(StopBeginsFlush)
    /\ WF_vars(Take \/ FindEmpty \/ InsertSucceeds \/ InsertFails \/ Rearm)
    /\ SF_vars(InsertSucceeds)
    /\ WF_vars(NeedsRetry)

LiveSpec == Spec /\ Fairness

(* Every row that waits is stored or dropped in the end, unless the process *)
(* ends first: however often its INSERT fails before, without another       *)
(* request to push it, and whether or not a shutdown has begun.  Rows leave *)
(* in order and a behaviour has MaxRecords of them, so this says that the   *)
(* buffer runs empty.                                                       *)
EveryRowSettles == []<>(batch \o pending = <<>> \/ ~Running)
=============================================================================
