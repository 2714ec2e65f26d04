------------------------------ MODULE Charging ------------------------------
(***************************************************************************)
(* What billing.Service and chargeBilling (handler/gateway/billing.go)     *)
(* promise a portal user: the price of a request that was served is settled*)
(* once.  It is paid from the wallet, or drawn from one plan grant with the*)
(* rest from the wallet where the plan allows that, or given up as a whole,*)
(* in which case what was drawn for it is lost.  A draw is off by rounding.*)
(* Nothing is said of queries, of how stale a balance may be, or of rows.  *)
(***************************************************************************)
EXTENDS Integers

CONSTANTS
    Request,
    Grant,
    Grain,        \* the step in which credit is counted
    Tolerance     \* what nobody asks for

VARIABLES
    price,      \* of each request, the same throughout
    planned,    \* the requests of plan keys
    overage,    \* the grants whose rest the wallet may pay
    credit,     \* what is left on each grant
    stage,      \* "open" until the request is served, "due", then "settled"
    charge      \* what each request took, and from where

terms == <<price, planned, overage>>
vars == <<terms, credit, stage, charge>>

Nothing == [grant |-> 0, plan |-> 0, wallet |-> 0]

Init ==
    /\ price \in [Request -> Nat \ {0}]
    /\ planned \in SUBSET Request
    /\ overage \in SUBSET Grant
    /\ credit \in [Grant -> Nat]
    /\ stage = [r \in Request |-> "open"]
    /\ charge = [r \in Request |-> Nothing]

Settle(r, c) ==
    /\ stage' = [stage EXCEPT ![r] = "settled"]
    /\ charge' = [charge EXCEPT ![r] = c]

(* The request is served, and its price is due.                             *)
Serve(r) ==
    /\ stage[r] = "open"
    /\ stage' = [stage EXCEPT ![r] = "due"]
    /\ UNCHANGED <<terms, credit, charge>>

(* It is refused, or served for nothing.                                    *)
Waive(r) ==
    /\ stage[r] = "open"
    /\ Settle(r, Nothing)
    /\ UNCHANGED <<terms, credit>>

(* What is drawn of a grant for a price is the price, rounded, or all there *)
(* is.                                                                      *)
IsDraw(g, usd, n) ==
    /\ 2 * (n - usd) <= Grain
    /\ n = credit[g] \/ 2 * (usd - n) <= Grain

Draw(r, g, n) ==
    /\ stage[r] = "due" /\ r \in planned /\ charge[r] = Nothing
    /\ n \in 0..credit[g] /\ IsDraw(g, price[r], n)
    /\ credit' = [credit EXCEPT ![g] = @ - n]
    /\ UNCHANGED terms

(* A grant that covers the price pays it.                                   *)
DrawPrice(r, g, n) ==
    /\ Draw(r, g, n)
    /\ price[r] - n <= Tolerance
    /\ Settle(r, [grant |-> g, plan |-> n, wallet |-> 0])

(* One that does not gives what it can, and where it has overage the rest   *)
(* remains due.                                                             *)
DrawRest(r, g, n) ==
    /\ Draw(r, g, n)
    /\ g \in overage /\ price[r] - n > Tolerance
    /\ charge' = [charge EXCEPT ![r] = [grant |-> g, plan |-> n, wallet |-> 0]]
    /\ UNCHANGED stage

(* What is drawn is lost when there is no overage for the rest, or when the *)
(* database draws it and reports that it failed.                            *)
DrawInVain(r, g, n) ==
    /\ Draw(r, g, n)
    /\ Settle(r, Nothing)

(* The wallet pays what is still due, for a plan key only beside a grant    *)
(* with overage that has nothing left or could not pay more exactly.        *)
MayPay(r) ==
    r \in planned =>
        \E g \in overage :
            /\ charge[r].grant \in {0, g}
            /\ \/ credit[g] = 0
               \/ charge[r].grant = g /\ 2 * (price[r] - charge[r].plan) <= Grain

Pay(r) ==
    /\ stage[r] = "due" /\ MayPay(r)
    /\ Settle(r, [charge[r] EXCEPT !.wallet = price[r] - charge[r].plan])
    /\ UNCHANGED <<terms, credit>>

(* A plan key is let off when something fails; what it drew is lost.        *)
GiveUp(r) ==
    /\ stage[r] = "due" /\ r \in planned
    /\ Settle(r, Nothing)
    /\ UNCHANGED <<terms, credit>>

Next ==
    \E r \in Request :
        \/ Serve(r) \/ Waive(r) \/ Pay(r) \/ GiveUp(r)
        \/ \E g \in Grant : \E n \in 0..credit[g] :
              DrawPrice(r, g, n) \/ DrawRest(r, g, n) \/ DrawInVain(r, g, n)

Spec == Init /\ [][Next]_vars
=============================================================================
