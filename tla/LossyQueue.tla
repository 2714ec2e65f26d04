----------------------------- MODULE LossyQueue -----------------------------
(***************************************************************************)
(* What WriteBuffer (internal/repository/write_buffer.go) promises the     *)
(* gateway handlers about the rows they hand it: a queue that rows enter   *)
(* in order and leave, oldest first, only into the table; under pressure   *)
(* it may give up a row to take another; it ends with the process.         *)
(***************************************************************************)
EXTENDS Naturals, Sequences, SequencesExt

CONSTANTS
    Record,     \* the rows, numbered in the order they were handed over
    Capacity,   \* the backlog from which on a row may be given up
    Batch       \* the most rows one INSERT carries

VARIABLES queue, table, added, ended

vars == <<queue, table, added, ended>>

Init == queue = <<>> /\ table = <<>> /\ added = 0 /\ ended = FALSE

Add ==
    /\ added + 1 \in Record
    /\ \/ queue' = Append(queue, added + 1)
       \/ /\ Len(queue) >= Capacity
          /\ \E i \in 1..Len(queue) :
                queue' = Append(RemoveAt(queue, i), added + 1)
    /\ added' = added + 1
    /\ UNCHANGED <<table, ended>>

(* An INSERT whose outcome was reported ...                                 *)
Store ==
    /\ \E k \in 1..Len(queue) :
          /\ k <= Batch
          /\ table' = table \o SubSeq(queue, 1, k)
          /\ queue' = SubSeq(queue, k + 1, Len(queue))
    /\ UNCHANGED <<added, ended>>

(* ... and one that took effect although the caller saw an error: the rows  *)
(* stay queued and will be stored again.                                    *)
StoreUnnoticed ==
    /\ \E k \in 1..Len(queue) :
          k <= Batch /\ table' = table \o SubSeq(queue, 1, k)
    /\ UNCHANGED <<queue, added, ended>>

End == ended' = TRUE /\ UNCHANGED <<queue, table, added>>

Next == ~ended /\ (Add \/ Store \/ StoreUnnoticed \/ End)

Spec == Init /\ [][Next]_vars
=============================================================================
