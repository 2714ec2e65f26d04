------------------------------ MODULE Semaphore ------------------------------
(***************************************************************************)
(* What ConcurrencyGuard (internal/service/limits/concurrency.go) promises *)
(* the gateway: each account is a counting semaphore.  The guard itself    *)
(* keeps a number; it does not know who took a slot, nor whether a release *)
(* is due.                                                                 *)
(***************************************************************************)
EXTENDS Naturals, FiniteSets

CONSTANTS
    Account,
    Request,
    Slots       \* max_concurrency of each account, 0 for no cap

VARIABLE holders   \* who has a slot of each account

Init == holders = [a \in Account |-> {}]

(* A slot is taken by somebody who has none, while one is free.             *)
Take(r, a) ==
    /\ r \notin holders[a]
    /\ Slots[a] > 0 => Cardinality(holders[a]) < Slots[a]
    /\ holders' = [holders EXCEPT ![a] = @ \cup {r}]

(* A request gives back all its slots, and nobody else's.                   *)
GiveBack(r) == holders' = [a \in Account |-> holders[a] \ {r}]

Next == \E r \in Request : GiveBack(r) \/ \E a \in Account : Take(r, a)

Spec == Init /\ [][Next]_holders
=============================================================================
