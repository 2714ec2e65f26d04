------------------------------- MODULE Billing -------------------------------
(***************************************************************************)
(* Prepaid billing of one portal user: admission on a cached balance       *)
(* (limits.Limiter.Check, limits.BalanceGuard), the charge once a request  *)
(* has been served (billing.Service.Charge, chargeBilling), and the        *)
(* database underneath (wallet_ledger, user_plan_grants, plan_usage_ledger,*)
(* message_requests), which the charges of wallet-paid requests reach only *)
(* when the write buffer flushes their rows.                               *)
(*                                                                         *)
(* Each query is a step of its own.  The balance a caller works with is    *)
(* put together from up to three of them, and the cache is assigned or     *)
(* adjusted after further steps of others.                                 *)
(*                                                                         *)
(* Money is counted in a unit finer than what the columns of the database  *)
(* hold: a charge is computed exactly, what it draws from a grant and what *)
(* its row says of the wallet are rounded to NUMERIC(14,6).                *)
(***************************************************************************)
EXTENDS Integers, FiniteSets

CONSTANTS
    Request,
    Grain,        \* units in 0.000001, the step of the money columns
    Tolerance,    \* units in the 1e-9 within which Charge calls sums equal
    Cost,         \* what its tokens cost upstream
    UserRatio,    \* Key.PriceRatio
    PlanRatio,    \* UserPlanGrant.PriceRatioSnapshot
    GrantCredit,  \* Plan.IncludedCreditUSD
    Funds,        \* wallet credits at the start
    TopUp,        \* the amount of one top-up or redemption
    Mixes,        \* bound: the modes of the keys that meet in a behaviour
    MaxTopUps,    \* bound: top-ups in a behaviour
    MaxGrants,    \* bound: plan grants in a behaviour
    MaxStored     \* bound: what hidden commits store for one request

Payg == "payg"
Plan == "plan"
allModes == {Payg, Plan}

ASSUME BillingAssumption ==
    /\ IsFiniteSet(Request)
    /\ Grain \in Nat \ {0} /\ Tolerance \in Nat
    /\ Cost \in [Request -> Nat \ {0}]
    /\ UserRatio \in Nat \ {0} /\ PlanRatio \in Nat \ {0}
    /\ GrantCredit \in Nat \ {0}
    /\ Funds \in Nat /\ TopUp \in Nat \ {0}
    /\ Mixes \subseteq [Request -> allModes]
    /\ MaxTopUps \in Nat /\ MaxGrants \in Nat /\ MaxStored \in Nat
    /\ Request \cap allModes = {}

ASSUME ColumnAssumption == \A usd \in {GrantCredit, Funds, TopUp} : usd % Grain = 0

VARIABLES
    mode,       \* the billing mode of the key each request came with
    overage,    \* AllowPaygOverageSnapshot of each grant to be
    credits,    \* sum of wallet_ledger
    grants,     \* how many user_plan_grants there are, the last one active
    remaining,  \* credit_remaining_usd of each
    usage,      \* sum of plan_usage_ledger for each
    rows,       \* the row of each: not there yet, queued, stored or dropped
    table,      \* what message_requests holds against the wallet for each
    cache,      \* BalanceGuard.entries
    pc,         \* where each request is
    bill,       \* billing.Result of each
    reading,    \* the balance query each request or refresh is in
    crediting,  \* top-ups in the ledger and not yet in the cache
    topUps      \* top-ups so far

topping == <<crediting, topUps>>
database == <<credits, grants, remaining, usage>>
fixed == <<mode, overage>>
records == <<rows, table>>
vars == <<fixed, database, records, cache, pc, bill, reading, topping>>

GrantId == 1..MaxGrants
Reader == Request \cup allModes   \* a mode stands for its background refresh
Cold == [known |-> FALSE, usd |-> 0, refreshing |-> FALSE]
NoRead == [stage |-> "off", usd |-> 0]
NoBill == [grant |-> 0, plan |-> 0, wallet |-> 0]

\* Stored in a column of the database, half a step rounded up.
Nearest(usd) ==
    usd - (usd % Grain) + (IF 2 * (usd % Grain) >= Grain THEN Grain ELSE 0)

Amount(r) == Cost[r] * (IF mode[r] = Plan THEN PlanRatio ELSE UserRatio)

TypeOK ==
    /\ mode \in [Request -> allModes]
    /\ overage \in [GrantId -> BOOLEAN]
    /\ credits \in Nat
    /\ grants \in 0..MaxGrants
    /\ remaining \in [GrantId -> 0..GrantCredit]
    /\ usage \in [GrantId -> Nat]
    /\ rows \in [Request -> {"none", "queued", "stored", "dropped"}]
    /\ table \in [Request -> Nat]
    /\ cache \in [allModes -> [known : BOOLEAN, usd : Int, refreshing : BOOLEAN]]
    /\ pc \in [Request -> {"arrive", "cold", "serve", "refused", "grant", "consume",
                           "wallet", "fold", "foldWallet", "enqueue", "done"}]
    /\ bill \in [Request -> [grant : 0..MaxGrants, plan : Nat, wallet : Nat]]
    /\ reading \in [Reader -> [stage : {"off", "spent", "got"},
                               usd : Int]]
    /\ crediting \in 0..MaxTopUps
    /\ topUps \in 0..MaxTopUps

Init ==
    /\ mode \in Mixes
    /\ overage \in [GrantId -> BOOLEAN]
    /\ credits = Funds
    /\ grants = 0
    /\ remaining = [g \in GrantId |-> GrantCredit]
    /\ usage = [g \in GrantId |-> 0]
    /\ rows = [r \in Request |-> "none"]
    /\ table = [r \in Request |-> 0]
    /\ cache = [m \in allModes |-> Cold]
    /\ pc = [r \in Request |-> "arrive"]
    /\ bill = [r \in Request |-> NoBill]
    /\ reading = [p \in Reader |-> NoRead]
    /\ crediting = 0 /\ topUps = 0

At(r, p) == pc[r] = p
Go(r, p) == pc' = [pc EXCEPT ![r] = p]

-----------------------------------------------------------------------------
(* Balance queries: billing.Service.AvailableBalance and, for the wallet    *)
(* alone, RepositoryStore.WalletBalance: credits first, then what is spent. *)

ActiveCredit == IF grants = 0 THEN 0 ELSE remaining[grants]

\* SQL's SUM: the amounts f of the rows in rs, counted unit by unit.
Sum(f, rs) == Cardinality(UNION {{r} \X (1..f[r]) : r \in rs})

\* SumBilledByUser sees the rows that have been flushed, each as often as it
\* has been.
Spent == Sum(table, Request)

Available(m, spent) ==
    IF m = Payg THEN credits - spent
    ELSE IF grants = 0 THEN 0
    ELSE ActiveCredit + (IF overage[grants] THEN credits - spent ELSE 0)

\* The first queries; the wallet of a plan without overage is not asked for.
\* No query moves money between the two, so they make one step.
StartReading(p, m) ==
    reading' = [reading EXCEPT ![p] =
        IF m = Payg THEN [stage |-> "spent", usd |-> credits]
        ELSE IF grants > 0 /\ overage[grants]
             THEN [stage |-> "spent", usd |-> ActiveCredit + credits]
             ELSE [stage |-> "got", usd |-> ActiveCredit]]

StartWalletRead(p) ==
    reading' = [reading EXCEPT ![p] = [stage |-> "spent", usd |-> credits]]

StopReading(p) == reading' = [reading EXCEPT ![p] = NoRead]

Balance(p) == reading[p].usd - Spent

\* The last query; what comes of it is only assigned later.
ReadSpent(p) ==
    /\ reading[p].stage = "spent"
    /\ p \in Request => At(p, "cold")
    /\ reading' = [reading EXCEPT ![p] = [stage |-> "got", usd |-> Balance(p)]]
    /\ UNCHANGED <<fixed, database, records, cache, pc, bill, topping>>

-----------------------------------------------------------------------------
(* BalanceGuard.                                                            *)

\* A known entry answers at once; one past its TTL starts one refresh in the
\* background.  Time is not modelled: any entry may be past its TTL.
StartRefresh(m) ==
    /\ cache[m].known /\ ~cache[m].refreshing
    /\ cache' = [cache EXCEPT ![m].refreshing = TRUE]
    /\ StartReading(m, m)

Consult(m) ==
    \/ StartRefresh(m)
    \/ /\ cache[m].known
       /\ UNCHANGED <<cache, reading>>

Verdict(usd) == IF usd > 0 THEN "serve" ELSE "refused"

Admit(r) ==
    /\ At(r, "arrive")
    /\ Consult(mode[r])
    /\ Go(r, Verdict(cache[mode[r]].usd))
    /\ UNCHANGED <<fixed, database, records, bill, topping>>

\* A request that will cost nothing, as when every upstream refuses it, comes
\* past a stale entry.
AdmitFree(m) ==
    /\ StartRefresh(m)
    /\ UNCHANGED <<fixed, database, records, pc, bill, topping>>

AdmitCold(r) ==
    /\ At(r, "arrive") /\ ~cache[mode[r]].known
    /\ StartReading(r, mode[r])
    /\ Go(r, "cold")
    /\ UNCHANGED <<fixed, database, records, cache, bill, topping>>

\* The first to come back seeds the entry, and all go by what it holds then.
Seed(r) ==
    LET m == mode[r]
        usd == IF cache[m].known THEN cache[m].usd ELSE reading[r].usd
    IN  /\ At(r, "cold") /\ reading[r].stage = "got"
        /\ cache' = IF cache[m].known THEN cache
                    ELSE [cache EXCEPT ![m] = [Cold EXCEPT !.known = TRUE, !.usd = usd]]
        /\ Go(r, Verdict(usd))
        /\ StopReading(r)
        /\ UNCHANGED <<fixed, database, records, bill, topping>>

\* Limiter.Check lets the request pass when the balance cannot be read.
\* Which of the queries it was that failed tells nobody anything.
SeedFails(r) ==
    /\ At(r, "cold") /\ reading[r].stage = "got"
    /\ Go(r, "serve")
    /\ StopReading(r)
    /\ UNCHANGED <<fixed, database, records, cache, bill, topping>>

Refresh(m) ==
    /\ reading[m].stage = "got"
    /\ cache' = [cache EXCEPT ![m] = [Cold EXCEPT !.known = TRUE, !.usd = reading[m].usd]]
    /\ StopReading(m)
    /\ UNCHANGED <<fixed, database, records, pc, bill, topping>>

(* Mutant: a failed refresh is not re-armed.                                *)
RefreshFailsForGood(m) ==
    /\ reading[m].stage = "got"
    /\ StopReading(m)
    /\ UNCHANGED <<fixed, database, records, cache, pc, bill, topping>>

RefreshFails(m) ==
    /\ reading[m].stage = "got"
    /\ cache' = [cache EXCEPT ![m].refreshing = FALSE]
    /\ StopReading(m)
    /\ UNCHANGED <<fixed, database, records, pc, bill, topping>>

\* Charges and credits adjust the entries that are known.
Adjust(m, usd) == [cache[m] EXCEPT !.usd = IF cache[m].known THEN @ + usd ELSE @]

-----------------------------------------------------------------------------
(* The charge, once the request has been served and its cost is known.      *)

ServeFree(r) ==
    /\ At(r, "serve")
    /\ Go(r, "done")
    /\ UNCHANGED <<fixed, database, records, cache, bill, reading, topping>>

Serve(r) ==
    /\ At(r, "serve")
    /\ IF mode[r] = Plan
       THEN Go(r, "grant") /\ UNCHANGED reading
       ELSE Go(r, "wallet") /\ StartWalletRead(r)
    /\ UNCHANGED <<fixed, database, records, cache, bill, topping>>

(* Mutant: no key falls back to the wallet.                                 *)
FallbackFree(r) == NoBill

\* chargeBilling's fallback when Charge returns an error.
Fallback(r) ==
    [NoBill EXCEPT !.wallet = IF mode[r] = Payg THEN Amount(r) ELSE 0]

ChargeFailed(r) ==
    /\ bill' = [bill EXCEPT ![r] = Fallback(r)]
    /\ Go(r, "fold")

\* Overage, or not: what the plan did not cover is asked of the wallet.
ChargeTheRest(r) ==
    IF overage[grants] THEN Go(r, "wallet") /\ StartWalletRead(r) /\ UNCHANGED bill
    ELSE ChargeFailed(r) /\ UNCHANGED reading

\* ActiveGrantForUser: which grant, and whether there seems to be credit.
ReadGrant(r) ==
    /\ At(r, "grant")
    /\ IF grants = 0 THEN ChargeFailed(r) /\ UNCHANGED reading
       ELSE IF ActiveCredit > 0
            THEN /\ bill' = [bill EXCEPT ![r].grant = grants]
                 /\ Go(r, "consume")
                 /\ UNCHANGED reading
            ELSE ChargeTheRest(r)
    /\ UNCHANGED <<fixed, database, records, cache, topping>>

\* What a deduction leaves of some credit, and so what it consumes of it: the
\* difference of two values of the column.
Left(usd, amount) == Nearest(IF usd > amount THEN usd - amount ELSE 0)
Consumed(usd, amount) ==
    IF Left(usd, amount) < usd THEN usd - Left(usd, amount) ELSE 0

Drawn(r) == Consumed(remaining[bill[r].grant], Amount(r))

Draw(r) ==
    /\ remaining' = [remaining EXCEPT ![bill[r].grant] = @ - Drawn(r)]
    /\ usage' = [usage EXCEPT ![bill[r].grant] = @ + Drawn(r)]
    /\ UNCHANGED <<credits, grants>>

(* Mutant: the credit is read, and deducted in a later statement.           *)
ConsumeUnlocked(r) ==
    LET g == bill[r].grant
    IN  /\ At(r, "consume")
        /\ \E seen \in remaining[g]..GrantCredit :
              remaining' = [remaining EXCEPT ![g] = seen - Consumed(seen, Amount(r))]
        /\ usage' = [usage EXCEPT ![g] = @ + Drawn(r)]
        /\ bill' = [bill EXCEPT ![r].plan = Drawn(r)]
        /\ Go(r, "fold")
        /\ UNCHANGED <<fixed, credits, grants, reading, records, cache, topping>>

(* Mutant: the overage rule of the plan is not asked.                       *)
ConsumeThenWallet(r) ==
    /\ At(r, "consume")
    /\ Draw(r)
    /\ bill' = [bill EXCEPT ![r].plan = Drawn(r)]
    /\ IF Amount(r) - Drawn(r) <= Tolerance
       THEN Go(r, "fold") /\ UNCHANGED reading
       ELSE Go(r, "wallet") /\ StartWalletRead(r)
    /\ UNCHANGED <<fixed, records, cache, topping>>

\* ConsumeGrantCredit, one transaction: another charge may have been faster
\* since ReadGrant, and this one gets what is left.  What rounding leaves
\* uncovered is due like any other rest.
Consume(r) ==
    LET owed == Amount(r) - Drawn(r)
    IN  /\ At(r, "consume")
        /\ Draw(r)
        /\ IF owed > Tolerance /\ ~overage[bill[r].grant]
           THEN ChargeFailed(r) /\ UNCHANGED reading
           ELSE /\ bill' = [bill EXCEPT ![r].plan = Drawn(r)]
                /\ IF owed <= Tolerance
                   THEN Go(r, "fold") /\ UNCHANGED reading
                   ELSE Go(r, "wallet") /\ StartWalletRead(r)
        /\ UNCHANGED <<fixed, records, cache, topping>>

\* The server commits and the client of the database is told of an error.
ConsumeUnseen(r) ==
    /\ At(r, "consume") /\ Drawn(r) > 0
    /\ Draw(r)
    /\ ChargeFailed(r)
    /\ UNCHANGED <<fixed, records, cache, reading, topping>>

(* Mutant: what the plan has covered is paid again.                         *)
OwedInFull(r) == Amount(r)

Owed(r) == Amount(r) - bill[r].plan

ChargeWallet(r) ==
    /\ At(r, "wallet")
    /\ Balance(r) + Tolerance >= Owed(r)
    /\ bill' = [bill EXCEPT ![r].wallet = Owed(r)]
    /\ Go(r, "fold")
    /\ StopReading(r)
    /\ UNCHANGED <<fixed, database, records, cache, topping>>

\* The wallet falls short, the query fails, or the client's context is over.
ChargeWalletFails(r) ==
    /\ At(r, "wallet")
    /\ ChargeFailed(r)
    /\ StopReading(r)
    /\ UNCHANGED <<fixed, database, records, cache, topping>>

\* The database fails on either query of the grant.
ChargePlanFails(r) ==
    /\ pc[r] \in {"grant", "consume"}
    /\ ChargeFailed(r)
    /\ UNCHANGED <<fixed, database, records, cache, reading, topping>>

(* Mutant: one entry per user, as before there were plans.                  *)
FoldedAlike(usd) == [m \in allModes |-> Adjust(m, - usd)]

\* RecordBillingSpend, in two critical sections: ChargePlan lowers the entry
\* of plan keys, ChargeWallet both.
PlanFolded(usd) == [cache EXCEPT ![Plan] = Adjust(Plan, - usd)]

FoldPlan(r) ==
    /\ At(r, "fold") /\ bill[r].plan > 0
    /\ cache' = PlanFolded(bill[r].plan)
    /\ Go(r, "foldWallet")
    /\ UNCHANGED <<fixed, database, records, bill, reading, topping>>

FoldWallet(r) ==
    /\ At(r, "foldWallet") \/ (At(r, "fold") /\ bill[r].plan = 0)
    /\ cache' = [m \in allModes |-> Adjust(m, - bill[r].wallet)]
    /\ Go(r, "enqueue")
    /\ UNCHANGED <<fixed, database, records, bill, reading, topping>>

\* The row goes to the write buffer, or is dropped when that is full.
Enqueue(r) ==
    /\ At(r, "enqueue")
    /\ \E fate \in {"queued", "dropped"} : rows' = [rows EXCEPT ![r] = fate]
    /\ Go(r, "done")
    /\ UNCHANGED <<fixed, database, table, cache, bill, reading, topping>>

Insert(r) == table' = [table EXCEPT ![r] = @ + Nearest(bill[r].wallet)]

Flush(r) ==
    /\ rows[r] = "queued"
    /\ rows' = [rows EXCEPT ![r] = "stored"]
    /\ Insert(r)
    /\ UNCHANGED <<fixed, database, cache, pc, bill, reading, topping>>

\* The insert is committed and reported as failed: the row is requeued, to be
\* inserted once more.
FlushUnnoticed(r) ==
    /\ rows[r] = "queued"
    /\ table[r] + Nearest(bill[r].wallet) <= MaxStored
    /\ Insert(r)
    /\ UNCHANGED <<fixed, database, rows, cache, pc, bill, reading, topping>>

-----------------------------------------------------------------------------
(* Money coming in.                                                         *)

\* Redeem, or AddEntry: the ledger, then the cache.
AddEntry ==
    /\ topUps < MaxTopUps
    /\ topUps' = topUps + 1
    /\ credits' = credits + TopUp
    /\ crediting' = crediting + 1
    /\ UNCHANGED <<fixed, grants, remaining, usage, records, cache, pc, bill, reading>>

Credit ==
    /\ crediting > 0
    /\ crediting' = crediting - 1
    /\ cache' = [m \in allModes |-> Adjust(m, TopUp)]
    /\ UNCHANGED <<fixed, database, records, pc, bill, reading, topUps>>

\* GrantPlanToUser; the latest grant is the active one, whatever is left on
\* the one before.  No cache entry is touched.
GrantPlan ==
    /\ grants < MaxGrants
    /\ grants' = grants + 1
    /\ UNCHANGED <<fixed, credits, remaining, usage, records, cache, pc, bill, reading, topping>>

-----------------------------------------------------------------------------
RequestStep(r) ==
    \/ Admit(r) \/ AdmitCold(r) \/ Seed(r) \/ SeedFails(r)
    \/ Serve(r) \/ ServeFree(r)
    \/ ReadGrant(r) \/ Consume(r) \/ ConsumeUnseen(r) \/ ChargePlanFails(r)
    \/ ChargeWallet(r) \/ ChargeWalletFails(r)
    \/ FoldPlan(r) \/ FoldWallet(r) \/ Enqueue(r)

Next ==
    \/ \E r \in Request : RequestStep(r) \/ Flush(r) \/ FlushUnnoticed(r)
    \/ \E p \in Reader : ReadSpent(p)
    \/ \E m \in allModes : AdmitFree(m) \/ Refresh(m) \/ RefreshFails(m)
    \/ AddEntry \/ Credit \/ GrantPlan

Spec == Init /\ [][Next]_vars

-----------------------------------------------------------------------------
(* What is billed.                                                          *)

\* What the requests have been told they take from grant g.
Booked(g) == Sum([r \in Request |-> bill[r].plan], {r \in Request : bill[r].grant = g})

(* However charges race, a grant is never overdrawn, its ledger always sums *)
(* to what is gone from it, and no two requests book the same credit.       *)
GrantAddsUp ==
    \A g \in GrantId : remaining[g] + usage[g] = GrantCredit /\ Booked(g) <= usage[g]

(* A wallet key never spends plan credit.  A plan key spends the wallet only *)
(* beside a grant that allows it, and only for what the grant it was charged *)
(* to could not cover: that grant has nothing left, or what the wallet pays  *)
(* is what rounding its credit left over, half a step of the column at most. *)
PlanFirst ==
    \A r \in Request :
        IF mode[r] = Payg THEN bill[r].grant = 0 /\ bill[r].plan = 0
        ELSE bill[r].wallet > 0 =>
                /\ bill[r].plan + bill[r].wallet = Amount(r)
                /\ IF bill[r].grant = 0
                   THEN \E g \in GrantId : overage[g] /\ remaining[g] = 0
                   ELSE /\ overage[bill[r].grant]
                        /\ remaining[bill[r].grant] = 0 \/ 2 * bill[r].wallet <= Grain

(* A request of a wallet key that was served is billed in full, also when   *)
(* the wallet falls short, the database fails or the client hangs up in the *)
(* middle of the charge.                                                    *)
PaygIsBilled ==
    \A r \in Request :
        mode[r] = Payg /\ pc[r] \in {"fold", "foldWallet", "enqueue"} => bill[r].wallet = Amount(r)

(* All of it together, seen from outside: a charge settles the price of a   *)
(* served request once, to the rounding of the database, or takes nothing   *)
(* more for it, whichever queries it takes and whatever fails in between;   *)
(* what a plan key has drawn is lost when its charge fails after that.  A   *)
(* request that has only chosen a grant has taken nothing yet.              *)
Stage(r) ==
    IF pc[r] \in {"arrive", "cold", "serve"} THEN "open"
    ELSE IF pc[r] \in {"grant", "consume", "wallet"} THEN "due"
    ELSE "settled"

Taken(r) == IF At(r, "consume") THEN NoBill ELSE bill[r]

price == [r \in Request |-> Amount(r)]
planned == {r \in Request : mode[r] = Plan}
allowing == {g \in GrantId : overage[g]}
stage == [r \in Request |-> Stage(r)]
charge == [r \in Request |-> Taken(r)]

Ch == INSTANCE Charging WITH
          Grant <- GrantId, overage <- allowing, credit <- remaining

ImplementsCharging == Ch!Spec

-----------------------------------------------------------------------------
(* What is admitted.                                                        *)

\* Wallet charges the cache has been told of, in the database or not.
Charged == {r \in Request : pc[r] = "enqueue" \/ rows[r] # "none"}

\* What one of them costs the balance: what was billed, unless rounding or a
\* row stored twice make more of it.
Larger(m, n) == IF m < n THEN n ELSE m
Charges(rs) == Sum([r \in Request |-> Larger(bill[r].wallet, table[r])], rs)

(* Short of top-ups the cached wallet is never below what the charges leave *)
(* of it, each counted once, however refreshes and charges overtake each    *)
(* other: no refresh counts a charge that the cache already holds a second  *)
(* time.  Only a row that the database holds twice weighs twice.            *)
WalletNotUnderstated ==
    cache[Payg].known /\ topUps = 0 => cache[Payg].usd >= credits - Charges(Charged)

-----------------------------------------------------------------------------
(* Liveness, under the assumptions that the goroutines of refreshes go on   *)
(* (refreshTimeout), that now and then one of them succeeds, that the write *)
(* buffer is flushed, and that clients keep asking.                         *)
Fairness ==
    /\ \A r \in Request : WF_vars(Flush(r))
    /\ \A m \in allModes :
          WF_vars(AdmitFree(m)) /\ WF_vars(ReadSpent(m)) /\ SF_vars(Refresh(m))

LiveSpec == Spec /\ Fairness

(* Whatever refreshes, charges, top-ups and plan grants overwrote each      *)
(* other, a cached balance comes back to what the database says.            *)
CacheSettles ==
    \A m \in allModes :
        []<>(cache[m].known => cache[m].usd = Available(m, Spent))

=============================================================================
