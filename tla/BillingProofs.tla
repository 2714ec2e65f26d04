---------------------------- MODULE BillingProofs ----------------------------
(***************************************************************************)
(* Theorems about Billing for any finite number of requests, any costs,    *)
(* ratios, grants and top-ups, with their proofs.                          *)
(***************************************************************************)
EXTENDS Billing, FiniteSetTheorems, TLAPS

-----------------------------------------------------------------------------
(* Sums.                                                                    *)

Cents(f, rs) == UNION {{r} \X (1..f[r]) : r \in rs}

(* A sum over finitely many rows is a number. *)
LEMMA SumType ==
    ASSUME NEW rs, IsFiniteSet(rs), NEW f, \A r \in rs : f[r] \in Nat
    PROVE  IsFiniteSet(Cents(f, rs)) /\ Sum(f, rs) \in Nat
<1> DEFINE parts == {{r} \X (1..f[r]) : r \in rs}
           part == [r \in rs |-> {r} \X (1..f[r])]
<1>1. IsFiniteSet(parts)
  <2>1. part \in [rs -> parts]
    OBVIOUS
  <2>2. \A p \in parts : \E r \in rs : part[r] = p
    OBVIOUS
  <2> HIDE DEF part, parts
  <2>3. part \in Surjection(rs, parts)
    BY <2>1, <2>2 DEF Surjection
  <2> QED BY <2>3, FS_Surjection
<1>2. \A p \in parts : IsFiniteSet(p)
  <2> SUFFICES ASSUME NEW r \in rs PROVE IsFiniteSet({r} \X (1..f[r]))
    OBVIOUS
  <2>1. 1 \in Int /\ f[r] \in Int
    OBVIOUS
  <2>2. IsFiniteSet({r})
    BY FS_Singleton
  <2>3. IsFiniteSet(1..f[r])
    BY <2>1, FS_Interval
  <2> QED BY <2>2, <2>3, FS_Product
<1>3. IsFiniteSet(Cents(f, rs))
  BY <1>1, <1>2, FS_UNION DEF Cents
<1> QED BY <1>3, FS_CardinalityType DEF Sum, Cents

(* The sum over no rows. *)
LEMMA SumEmpty == \A f : Sum(f, {}) = 0
<1> SUFFICES ASSUME NEW f PROVE Sum(f, {}) = 0
  OBVIOUS
<1>1. UNION {{r} \X (1..f[r]) : r \in {}} = {}
  OBVIOUS
<1> QED BY <1>1, FS_EmptySet DEF Sum

(* One row more. *)
LEMMA SumAdd ==
    ASSUME NEW rs, IsFiniteSet(rs), NEW f, NEW r, r \notin rs,
           \A x \in rs \cup {r} : f[x] \in Nat
    PROVE  Sum(f, rs \cup {r}) = Sum(f, rs) + f[r]
<1> DEFINE mine == {r} \X (1..f[r])
<1>1. Cents(f, rs \cup {r}) = Cents(f, rs) \cup mine
  BY DEF Cents
<1>2. Cents(f, rs) \cap mine = {}
  BY DEF Cents
<1>3. IsFiniteSet(Cents(f, rs)) /\ Sum(f, rs) \in Nat
  BY SumType
<1>4. IsFiniteSet(mine) /\ Cardinality(mine) = f[r]
  <2>1. f[r] \in Nat
    OBVIOUS
  <2>2. IsFiniteSet({r}) /\ Cardinality({r}) = 1
    BY FS_Singleton
  <2>3. IsFiniteSet(1..f[r]) /\ Cardinality(1..f[r]) = f[r]
    BY <2>1, FS_Interval
  <2>4. IsFiniteSet(mine) /\ Cardinality(mine) = 1 * f[r]
    BY <2>2, <2>3, FS_Product
  <2> QED BY <2>1, <2>4
<1> HIDE DEF mine
<1>5. Cardinality(Cents(f, rs) \cup mine)
         = Cardinality(Cents(f, rs)) + Cardinality(mine) - Cardinality(Cents(f, rs) \cap mine)
  BY <1>3, <1>4, FS_Union
<1>6. Cardinality(Cents(f, rs) \cap mine) = 0
  BY <1>2, FS_EmptySet
<1>7. /\ Sum(f, rs \cup {r}) = Cardinality(Cents(f, rs \cup {r}))
      /\ Sum(f, rs) = Cardinality(Cents(f, rs))
  BY DEF Sum, Cents
<1>8. f[r] \in Nat
  OBVIOUS
<1>9. Cardinality(Cents(f, rs) \cup mine) = Sum(f, rs) + f[r]
  <2> DEFINE n == Cardinality(Cents(f, rs))
             m == Cardinality(mine)
             c == Cardinality(Cents(f, rs) \cap mine)
  <2>1. n \in Nat /\ m \in Nat /\ c = 0 /\ m = f[r] /\ n = Sum(f, rs)
    BY <1>3, <1>4, <1>6, <1>7, <1>8
  <2>2. Cardinality(Cents(f, rs) \cup mine) = n + m - c
    BY <1>5
  <2> HIDE DEF n, m, c
  <2> QED BY <2>1, <2>2
<1> QED BY <1>1, <1>7, <1>9

(* Only the amounts of the rows in question matter. *)
LEMMA SumSame ==
    ASSUME NEW rs, NEW f, NEW h, \A r \in rs : f[r] = h[r]
    PROVE  Sum(f, rs) = Sum(h, rs)
<1>1. {{r} \X (1..f[r]) : r \in rs} = {{r} \X (1..h[r]) : r \in rs}
  OBVIOUS
<1> QED BY <1>1 DEF Sum

(* More rows and larger amounts do not sum to less; a row of no amount need  *)
(* not be counted. *)
LEMMA SumGrows ==
    ASSUME NEW some, NEW f, NEW rs, IsFiniteSet(rs), NEW h,
           \A r \in rs : h[r] \in Nat,
           \A r \in some : f[r] \in Nat /\ (f[r] # 0 => r \in rs /\ f[r] <= h[r])
    PROVE  Sum(f, some) <= Sum(h, rs)
<1>1. IsFiniteSet(Cents(h, rs))
  BY SumType
<1>2. Cents(f, some) \in SUBSET Cents(h, rs)
  <2> SUFFICES ASSUME NEW r \in some, NEW n \in 1..f[r]
               PROVE  r \in rs /\ n \in 1..h[r]
    BY DEF Cents
  <2>1. f[r] \in Nat /\ f[r] # 0
    OBVIOUS
  <2> QED BY <2>1
<1> QED BY <1>1, <1>2, FS_Subset DEF Sum, Cents

-----------------------------------------------------------------------------
(* Rounding.                                                                *)

(* What a column holds of an amount is off by half a step at most. *)
LEMMA NearestType ==
    ASSUME NEW usd \in Nat
    PROVE  /\ Nearest(usd) \in Nat
           /\ 2 * Nearest(usd) <= 2 * usd + Grain /\ 2 * usd <= 2 * Nearest(usd) + Grain
           /\ usd = 0 => Nearest(usd) = 0
<1> DEFINE m == usd % Grain
<1>1. Grain \in Nat \ {0}
  BY BillingAssumption DEF BillingAssumption
<1>2. m \in 0..(Grain - 1) /\ m <= usd
  BY <1>1
<1>3. Nearest(usd) = usd - m + (IF 2 * m >= Grain THEN Grain ELSE 0)
  BY DEF Nearest
<1> HIDE DEF m
<1> QED BY <1>1, <1>2, <1>3

(* What is consumed of a credit is there, and is the amount, to half a step,  *)
(* or less if it is all there is. *)
LEMMA ConsumedType ==
    ASSUME NEW usd \in Nat, NEW amount \in Nat
    PROVE  /\ Consumed(usd, amount) \in 0..usd
           /\ 2 * (Consumed(usd, amount) - amount) <= Grain
           /\ \/ Consumed(usd, amount) = usd
              \/ 2 * (amount - Consumed(usd, amount)) <= Grain
<1> DEFINE rest == IF usd > amount THEN usd - amount ELSE 0
           left == Nearest(rest)
<1>1. Grain \in Nat \ {0}
  BY BillingAssumption DEF BillingAssumption
<1>2. rest \in Nat /\ rest = IF usd > amount THEN usd - amount ELSE 0
  OBVIOUS
<1>3. Consumed(usd, amount) = IF left < usd THEN usd - left ELSE 0
  BY DEF Consumed, Left
<1> HIDE DEF rest
<1>4. /\ left \in Nat /\ 2 * left <= 2 * rest + Grain /\ 2 * rest <= 2 * left + Grain
      /\ rest = 0 => left = 0
  BY <1>2, NearestType
<1> HIDE DEF left
<1> QED BY <1>1, <1>2, <1>3, <1>4

-----------------------------------------------------------------------------
(* Type correctness.                                                        *)

(* Where a request is says what has been billed to it: nothing before the    *)
(* charge, a grant and no money before credit is consumed, and, when the     *)
(* wallet is asked, what the plan has covered, of a grant that allows it and *)
(* has no credit left, or what rounding left over.  Its row is written last. *)
MayAskWallet(r) ==
    IF bill[r].grant = 0
    THEN bill[r].plan = 0 /\ \E g \in GrantId : overage[g] /\ remaining[g] = 0
    ELSE /\ overage[bill[r].grant]
         /\ remaining[bill[r].grant] = 0 \/ 2 * (Amount(r) - bill[r].plan) <= Grain

Placed(r) ==
    /\ pc[r] \in {"arrive", "cold", "serve", "refused", "grant"} => bill[r] = NoBill
    /\ pc[r] \in {"grant", "consume"} => mode[r] = Plan
    /\ At(r, "consume") => bill[r].grant # 0 /\ bill[r].plan = 0 /\ bill[r].wallet = 0
    /\ At(r, "wallet") =>
          /\ bill[r].wallet = 0 /\ bill[r].plan <= Amount(r)
          /\ IF mode[r] = Payg THEN bill[r] = NoBill ELSE MayAskWallet(r)
    /\ pc[r] # "done" => rows[r] = "none"
    /\ rows[r] = "none" => table[r] = 0

(* What a request costs is a number. *)
LEMMA AmountType ==
    ASSUME NEW r \in Request
    PROVE  Amount(r) \in Nat
<1>1. Cost[r] \in Nat /\ UserRatio \in Nat /\ PlanRatio \in Nat
  BY BillingAssumption DEF BillingAssumption
<1>2. \A m, n \in Nat : m * n \in Nat
  OBVIOUS
<1> QED BY <1>1, <1>2 DEF Amount

(* What the database holds against the wallet is a number. *)
LEMMA SpentType ==
    ASSUME TypeOK PROVE Spent \in Nat
<1>1. IsFiniteSet(Request) /\ \A r \in Request : table[r] \in Nat
  BY BillingAssumption DEF BillingAssumption, TypeOK
<1> QED BY <1>1, SumType DEF Spent

(* A balance is a number. *)
LEMMA BalanceType ==
    ASSUME TypeOK, NEW p \in Reader PROVE Balance(p) \in Int
<1>1. Spent \in Nat
  BY SpentType
<1> QED BY <1>1 DEF Balance, TypeOK

(* Starting and ending a query leaves the readers well-typed. *)
LEMMA ReadingType ==
    ASSUME TypeOK, NEW p \in Reader, NEW m \in allModes,
           StartReading(p, m) \/ StartWalletRead(p) \/ StopReading(p) \/ UNCHANGED reading
    PROVE  reading' \in [Reader -> [stage : {"off", "spent", "got"}, usd : Int]]
<1>1. ActiveCredit \in Int /\ credits \in Int
  <2>1. CASE grants = 0
    BY <2>1 DEF ActiveCredit, TypeOK
  <2>2. CASE grants # 0
    <3>1. grants \in GrantId
      BY <2>2, BillingAssumption DEF TypeOK, GrantId, BillingAssumption
    <3>2. remaining[grants] \in 0..GrantCredit
      BY <3>1 DEF TypeOK
    <3> QED BY <2>2, <3>2, BillingAssumption DEF ActiveCredit, TypeOK, BillingAssumption
  <2> QED BY <2>1, <2>2
<1>2. CASE StartReading(p, m)
  <2> DEFINE new == IF m = Payg THEN [stage |-> "spent", usd |-> credits]
                    ELSE IF grants > 0 /\ overage[grants]
                         THEN [stage |-> "spent", usd |-> ActiveCredit + credits]
                         ELSE [stage |-> "got", usd |-> ActiveCredit]
  <2>1. new \in [stage : {"off", "spent", "got"}, usd : Int]
    BY <1>1
  <2>2. reading' = [reading EXCEPT ![p] = new]
    BY <1>2 DEF StartReading
  <2> HIDE DEF new
  <2> QED BY <2>1, <2>2 DEF TypeOK
<1>3. CASE StartWalletRead(p)
  BY <1>1, <1>3 DEF StartWalletRead, TypeOK
<1>4. CASE StopReading(p)
  BY <1>4 DEF StopReading, NoRead, TypeOK
<1>5. CASE UNCHANGED reading
  BY <1>5 DEF TypeOK
<1> QED BY <1>2, <1>3, <1>4, <1>5

(* So do consultations of the guard, and adjustments of its entries. *)
CacheType == [allModes -> [known : BOOLEAN, usd : Int, refreshing : BOOLEAN]]

LEMMA ConsultType ==
    ASSUME TypeOK, NEW m \in allModes, Consult(m)
    PROVE  /\ cache' \in CacheType
           /\ reading' \in [Reader -> [stage : {"off", "spent", "got"}, usd : Int]]
<1>1. m \in Reader
  BY DEF Reader
<1>2. StartReading(m, m) \/ UNCHANGED reading
  BY DEF Consult, StartRefresh
<1>3. cache' \in CacheType
  <2>1. CASE StartRefresh(m)
    BY <2>1 DEF StartRefresh, TypeOK, CacheType
  <2>2. CASE UNCHANGED cache
    BY <2>2 DEF TypeOK, CacheType
  <2> QED BY <2>1, <2>2 DEF Consult
<1> QED BY <1>1, <1>2, <1>3, ReadingType

LEMMA AdjustType ==
    ASSUME TypeOK, NEW m \in allModes, NEW usd \in Int
    PROVE  Adjust(m, usd) \in [known : BOOLEAN, usd : Int, refreshing : BOOLEAN]
BY DEF Adjust, TypeOK

(* Consuming credit takes no more than there is, so that a grant without     *)
(* credit stays so. *)
NoRefill == \A g \in GrantId : remaining[g] = 0 => remaining'[g] = 0

(* What a step of one request, or of the write buffer, leaves to the others. *)
OthersStay(r) ==
    \A x \in Request \ {r} :
        /\ pc'[x] = pc[x] /\ bill'[x] = bill[x]
        /\ rows'[x] = rows[x] /\ table'[x] = table[x]

(* A request that a step leaves alone stays well placed. *)
LEMMA PlacedStays ==
    ASSUME TypeOK, NEW x \in Request, Placed(x), UNCHANGED fixed, NoRefill,
           pc'[x] = pc[x], bill'[x] = bill[x], rows'[x] = rows[x], table'[x] = table[x]
    PROVE  Placed(x)'
<1>1. mode' = mode /\ overage' = overage /\ Amount(x)' = Amount(x)
  BY DEF fixed, Amount
<1>2. bill[x].grant # 0 => bill[x].grant \in GrantId
  BY BillingAssumption DEF TypeOK, GrantId, BillingAssumption
<1>3. MayAskWallet(x) => MayAskWallet(x)'
  BY <1>1, <1>2 DEF MayAskWallet, NoRefill
<1> QED BY <1>1, <1>3 DEF Placed, At

(* A step that only moves one request on, with whatever becomes of the cache *)
(* and of its query, keeps the types. *)
LEMMA MoveType ==
    ASSUME TypeOK, NEW r \in Request,
           NEW q \in {"arrive", "cold", "serve", "refused", "grant", "consume",
                      "wallet", "fold", "foldWallet", "enqueue", "done"},
           Go(r, q), UNCHANGED <<fixed, database, records, bill, topping>>,
           cache' \in CacheType,
           reading' \in [Reader -> [stage : {"off", "spent", "got"}, usd : Int]]
    PROVE  TypeOK' /\ OthersStay(r) /\ NoRefill
<1>1. /\ mode' = mode /\ overage' = overage
      /\ credits' = credits /\ grants' = grants /\ remaining' = remaining /\ usage' = usage
      /\ rows' = rows /\ table' = table /\ bill' = bill
      /\ crediting' = crediting /\ topUps' = topUps
  BY DEF fixed, database, records, topping
<1>2. /\ pc' \in [Request -> {"arrive", "cold", "serve", "refused", "grant", "consume",
                              "wallet", "fold", "foldWallet", "enqueue", "done"}]
      /\ \A x \in Request \ {r} : pc'[x] = pc[x]
  BY DEF Go, TypeOK
<1>3. TypeOK'
  BY <1>1, <1>2 DEF TypeOK, CacheType
<1>4. OthersStay(r) /\ NoRefill
  BY <1>1, <1>2 DEF OthersStay, NoRefill
<1> QED BY <1>3, <1>4

(* Where a request stands after such a step. *)
LEMMA MovePlaced ==
    ASSUME TypeOK, NEW r \in Request, Placed(r), NEW q,
           Go(r, q), UNCHANGED <<fixed, database, records, bill, topping>>,
           /\ q \in {"arrive", "cold", "serve", "refused", "grant"} => bill[r] = NoBill
           /\ q = "grant" => mode[r] = Plan
           /\ q = "wallet" => mode[r] = Payg /\ bill[r] = NoBill
           /\ q # "consume" /\ pc[r] # "done"
    PROVE  Placed(r)'
<1>1. /\ mode' = mode /\ rows' = rows /\ table' = table /\ bill' = bill
      /\ Amount(r)' = Amount(r)
  BY DEF fixed, records, Amount
<1>2. pc'[r] = q
  BY DEF Go, TypeOK
<1>3. Amount(r) \in Nat
  BY AmountType
<1>4. q = "wallet" => bill[r].wallet = 0 /\ bill[r].plan <= Amount(r)
  BY <1>3 DEF NoBill
<1>5. rows[r] = "none" /\ table[r] = 0
  BY DEF Placed
<1> QED BY <1>1, <1>2, <1>4, <1>5 DEF Placed, At

(* What every step of a request does to its own place and to the others. *)
WellMoved(r) == TypeOK' /\ Placed(r)' /\ OthersStay(r) /\ NoRefill

(* Admission keeps the types and the places. *)
LEMMA AdmissionKeeps ==
    ASSUME TypeOK, NEW r \in Request, Placed(r),
           Admit(r) \/ AdmitCold(r) \/ Seed(r) \/ SeedFails(r)
    PROVE  WellMoved(r)
<1>1. r \in Reader /\ mode[r] \in allModes
  BY DEF Reader, TypeOK
<1> DEFINE m == mode[r]
<1>2. CASE Admit(r)
  <2>1. Consult(m) /\ Go(r, Verdict(cache[m].usd)) /\ pc[r] = "arrive"
        /\ UNCHANGED <<fixed, database, records, bill, topping>>
    BY <1>2 DEF Admit, At
  <2>2. Verdict(cache[m].usd) \in {"serve", "refused"}
    BY DEF Verdict
  <2>3. bill[r] = NoBill
    BY <2>1 DEF Placed
  <2> HIDE DEF m
  <2>4. cache' \in CacheType
        /\ reading' \in [Reader -> [stage : {"off", "spent", "got"}, usd : Int]]
    BY <1>1, <2>1, ConsultType DEF m
  <2>5. TypeOK' /\ OthersStay(r) /\ NoRefill
    BY <2>1, <2>2, <2>4, MoveType
  <2>6. Placed(r)'
    BY <2>1, <2>2, <2>3, MovePlaced
  <2> QED BY <2>5, <2>6 DEF WellMoved
<1>3. CASE AdmitCold(r)
  <2>1. StartReading(r, m) /\ Go(r, "cold") /\ pc[r] = "arrive" /\ cache' = cache
        /\ UNCHANGED <<fixed, database, records, bill, topping>>
    BY <1>3 DEF AdmitCold, At
  <2>2. bill[r] = NoBill
    BY <2>1 DEF Placed
  <2> HIDE DEF m
  <2>3. cache' \in CacheType
    BY <2>1 DEF TypeOK, CacheType
  <2>4. reading' \in [Reader -> [stage : {"off", "spent", "got"}, usd : Int]]
    BY <1>1, <2>1, ReadingType DEF m
  <2>5. TypeOK' /\ OthersStay(r) /\ NoRefill
    BY <2>1, <2>3, <2>4, MoveType
  <2>6. Placed(r)'
    BY <2>1, <2>2, MovePlaced
  <2> QED BY <2>5, <2>6 DEF WellMoved
<1>4. CASE Seed(r)
  <2> DEFINE usd == IF cache[m].known THEN cache[m].usd ELSE reading[r].usd
  <2>1. /\ StopReading(r) /\ Go(r, Verdict(usd)) /\ pc[r] = "cold"
        /\ cache' = IF cache[m].known THEN cache
                    ELSE [cache EXCEPT ![m] = [Cold EXCEPT !.known = TRUE, !.usd = usd]]
        /\ UNCHANGED <<fixed, database, records, bill, topping>>
    BY <1>4 DEF Seed, At
  <2>2. usd \in Int
    BY <1>1 DEF TypeOK
  <2> HIDE DEF usd, m
  <2>3. Verdict(usd) \in {"serve", "refused"}
    BY DEF Verdict
  <2>4. bill[r] = NoBill
    BY <2>1 DEF Placed
  <2>5. cache' \in CacheType
    <3>1. CASE cache[m].known
      BY <2>1, <3>1 DEF TypeOK, CacheType
    <3>2. CASE ~cache[m].known
      <4>1. [Cold EXCEPT !.known = TRUE, !.usd = usd]
               \in [known : BOOLEAN, usd : Int, refreshing : BOOLEAN]
        BY <2>2 DEF Cold
      <4> QED BY <2>1, <3>2, <4>1 DEF TypeOK, CacheType
    <3> QED BY <3>1, <3>2
  <2>6. reading' \in [Reader -> [stage : {"off", "spent", "got"}, usd : Int]]
    BY <1>1, <2>1, ReadingType DEF m
  <2>7. TypeOK' /\ OthersStay(r) /\ NoRefill
    BY <2>1, <2>3, <2>5, <2>6, MoveType
  <2>8. Placed(r)'
    BY <2>1, <2>3, <2>4, MovePlaced
  <2> QED BY <2>7, <2>8 DEF WellMoved
<1>5. CASE SeedFails(r)
  <2>1. StopReading(r) /\ Go(r, "serve") /\ pc[r] = "cold" /\ cache' = cache
        /\ UNCHANGED <<fixed, database, records, bill, topping>>
    BY <1>5 DEF SeedFails, At
  <2>2. bill[r] = NoBill
    BY <2>1 DEF Placed
  <2>3. cache' \in CacheType
    BY <2>1 DEF TypeOK, CacheType
  <2>4. reading' \in [Reader -> [stage : {"off", "spent", "got"}, usd : Int]]
    BY <1>1, <2>1, ReadingType
  <2>5. TypeOK' /\ OthersStay(r) /\ NoRefill
    BY <2>1, <2>3, <2>4, MoveType
  <2>6. Placed(r)'
    BY <2>1, <2>2, MovePlaced
  <2> QED BY <2>5, <2>6 DEF WellMoved
<1> QED BY <1>2, <1>3, <1>4, <1>5

-----------------------------------------------------------------------------
(* The charge.                                                              *)

Bill == [grant : 0..MaxGrants, plan : Nat, wallet : Nat]

(* The promises about one request: it is not billed more than it costs, to   *)
(* half a step of the column, PaygIsBilled, and PlanFirst. *)
RightlyBilled(r) ==
    /\ 2 * (bill[r].plan + bill[r].wallet - Amount(r)) <= Grain
    /\ mode[r] = Payg => bill[r].grant = 0 /\ bill[r].plan = 0
    /\ mode[r] = Payg /\ pc[r] \in {"fold", "foldWallet", "enqueue"} =>
          bill[r].wallet = Amount(r)
    /\ mode[r] = Plan /\ bill[r].wallet > 0 =>
          /\ bill[r].plan + bill[r].wallet = Amount(r)
          /\ IF bill[r].grant = 0
             THEN \E g \in GrantId : overage[g] /\ remaining[g] = 0
             ELSE /\ overage[bill[r].grant]
                  /\ remaining[bill[r].grant] = 0 \/ 2 * bill[r].wallet <= Grain

WellCharged(r) == WellMoved(r) /\ RightlyBilled(r)'

(* The promises about a request survive the steps of others. *)
LEMMA RightlyStays ==
    ASSUME TypeOK, NEW x \in Request, RightlyBilled(x), UNCHANGED fixed, NoRefill,
           pc'[x] = pc[x], bill'[x] = bill[x]
    PROVE  RightlyBilled(x)'
<1>1. mode' = mode /\ overage' = overage /\ Amount(x)' = Amount(x)
  BY DEF fixed, Amount
<1>2. bill[x].grant # 0 => bill[x].grant \in GrantId
  BY BillingAssumption DEF TypeOK, GrantId, BillingAssumption
<1> QED BY <1>1, <1>2 DEF RightlyBilled, NoRefill

(* And steps of its own that bill nothing. *)
LEMMA MoveRightly ==
    ASSUME TypeOK, NEW r \in Request, RightlyBilled(r), NEW q, Go(r, q),
           UNCHANGED <<fixed, database, bill>>,
           q # "fold", q \in {"foldWallet", "enqueue"} => pc[r] \in {"fold", "foldWallet"}
    PROVE  RightlyBilled(r)'
<1>1. /\ mode' = mode /\ overage' = overage /\ Amount(r)' = Amount(r)
      /\ bill' = bill /\ remaining' = remaining
  BY DEF fixed, database, Amount
<1>2. pc'[r] = q
  BY DEF Go, TypeOK
<1> QED BY <1>1, <1>2 DEF RightlyBilled

(* A step of the charge bills one request something, and may draw on a grant. *)
LEMMA ChargeType ==
    ASSUME TypeOK, NEW r \in Request,
           NEW q \in {"arrive", "cold", "serve", "refused", "grant", "consume",
                      "wallet", "fold", "foldWallet", "enqueue", "done"},
           Go(r, q), NEW b \in Bill, bill' = [bill EXCEPT ![r] = b],
           UNCHANGED <<fixed, credits, grants, records, cache, topping>>,
           remaining' \in [GrantId -> 0..GrantCredit], usage' \in [GrantId -> Nat],
           reading' \in [Reader -> [stage : {"off", "spent", "got"}, usd : Int]]
    PROVE  TypeOK' /\ OthersStay(r) /\ pc'[r] = q /\ bill'[r] = b
<1>1. /\ mode' = mode /\ overage' = overage
      /\ credits' = credits /\ grants' = grants
      /\ rows' = rows /\ table' = table /\ cache' = cache
      /\ crediting' = crediting /\ topUps' = topUps
  BY DEF fixed, records, topping
<1>2. /\ pc' \in [Request -> {"arrive", "cold", "serve", "refused", "grant", "consume",
                              "wallet", "fold", "foldWallet", "enqueue", "done"}]
      /\ pc'[r] = q
      /\ \A x \in Request \ {r} : pc'[x] = pc[x]
  BY DEF Go, TypeOK
<1>3. /\ bill' \in [Request -> Bill]
      /\ bill'[r] = b
      /\ \A x \in Request \ {r} : bill'[x] = bill[x]
  BY DEF TypeOK, Bill
<1>4. TypeOK'
  BY <1>1, <1>2, <1>3 DEF TypeOK, Bill
<1> QED BY <1>1, <1>2, <1>3, <1>4 DEF OthersStay

(* When the charge fails, a wallet key is billed in full and a plan key      *)
(* nothing. *)
LEMMA FailedKeeps ==
    ASSUME TypeOK, NEW r \in Request, Placed(r), pc[r] \in {"grant", "consume", "wallet"},
           ChargeFailed(r), UNCHANGED <<fixed, credits, grants, records, cache, topping>>,
           remaining' \in [GrantId -> 0..GrantCredit], usage' \in [GrantId -> Nat],
           NoRefill,
           reading' \in [Reader -> [stage : {"off", "spent", "got"}, usd : Int]]
    PROVE  WellCharged(r)
<1> DEFINE b == Fallback(r)
<1>1. Amount(r) \in Nat
  BY AmountType
<1>2. /\ b \in Bill /\ b.grant = 0 /\ b.plan = 0
      /\ b.wallet = IF mode[r] = Payg THEN Amount(r) ELSE 0
  BY <1>1, BillingAssumption DEF Fallback, NoBill, Bill, BillingAssumption
<1>3. Go(r, "fold") /\ bill' = [bill EXCEPT ![r] = b]
  BY DEF ChargeFailed
<1> HIDE DEF b
<1>4. TypeOK' /\ OthersStay(r) /\ pc'[r] = "fold" /\ bill'[r] = b
  BY <1>2, <1>3, ChargeType
<1>5. /\ mode' = mode /\ overage' = overage /\ Amount(r)' = Amount(r)
      /\ rows'[r] = rows[r] /\ table'[r] = table[r]
  BY DEF fixed, records, Amount
<1>6. mode[r] \in allModes /\ rows[r] = "none" /\ table[r] = 0
  BY DEF TypeOK, Placed
<1>7. Placed(r)'
  BY <1>4, <1>5, <1>6 DEF Placed, At
<1>8. RightlyBilled(r)'
  <2>1. Grain \in Nat
    BY BillingAssumption DEF BillingAssumption
  <2> QED BY <1>1, <1>2, <1>4, <1>5, <1>6, <2>1 DEF RightlyBilled, Payg, Plan, allModes
<1> QED BY <1>4, <1>7, <1>8 DEF WellCharged, WellMoved

(* Steps of the charge that draw on no grant. *)
LEMMA NoDraw ==
    ASSUME TypeOK, UNCHANGED database
    PROVE  /\ remaining' \in [GrantId -> 0..GrantCredit] /\ usage' \in [GrantId -> Nat]
           /\ NoRefill /\ credits' = credits /\ grants' = grants
BY DEF TypeOK, database, NoRefill

(* The grant that is active. *)
LEMMA ActiveGrant ==
    ASSUME TypeOK, grants # 0
    PROVE  grants \in GrantId /\ ActiveCredit = remaining[grants] /\ ActiveCredit \in Nat
<1>1. grants \in GrantId
  BY BillingAssumption DEF TypeOK, GrantId, BillingAssumption
<1>2. remaining[grants] \in 0..GrantCredit
  BY <1>1 DEF TypeOK
<1> QED BY <1>1, <1>2, BillingAssumption DEF ActiveCredit, BillingAssumption

(* The choice of a grant leaves a request where it should be: to consume     *)
(* credit, to ask the wallet if the plan allows it, or billed. *)
LEMMA ReadGrantKeeps ==
    ASSUME TypeOK, NEW r \in Request, Placed(r), ReadGrant(r)
    PROVE  WellCharged(r)
<1>1. /\ pc[r] = "grant"
      /\ IF grants = 0 THEN ChargeFailed(r) /\ UNCHANGED reading
         ELSE IF ActiveCredit > 0
              THEN /\ bill' = [bill EXCEPT ![r].grant = grants]
                   /\ Go(r, "consume")
                   /\ UNCHANGED reading
              ELSE ChargeTheRest(r)
      /\ UNCHANGED <<fixed, database, records, cache, topping>>
  BY DEF ReadGrant, At
<1>2. /\ remaining' \in [GrantId -> 0..GrantCredit] /\ usage' \in [GrantId -> Nat]
      /\ NoRefill /\ credits' = credits /\ grants' = grants /\ remaining' = remaining
  BY <1>1, NoDraw DEF database
<1>3. r \in Reader /\ mode[r] = Plan /\ bill[r] = NoBill /\ rows[r] = "none"
      /\ table[r] = 0 /\ bill \in [Request -> Bill] /\ Grain \in Nat /\ Amount(r) \in Nat
  BY <1>1, AmountType, BillingAssumption DEF Reader, Placed, TypeOK, Bill, BillingAssumption
<1>4. UNCHANGED reading => reading' \in [Reader -> [stage : {"off", "spent", "got"}, usd : Int]]
  BY DEF TypeOK
<1>5. ASSUME ChargeFailed(r), UNCHANGED reading
      PROVE  WellCharged(r)
  BY <1>1, <1>2, <1>4, <1>5, FailedKeeps
<1>6. /\ mode' = mode /\ overage' = overage /\ Amount(r)' = Amount(r)
      /\ rows'[r] = rows[r] /\ table'[r] = table[r]
  BY <1>1 DEF fixed, records, Amount
<1>7. ASSUME grants # 0, ActiveCredit > 0
      PROVE  WellCharged(r)
  <2> DEFINE b == [NoBill EXCEPT !.grant = grants]
  <2>1. b \in Bill /\ b.grant = grants /\ b.plan = 0 /\ b.wallet = 0
    BY DEF Bill, NoBill, TypeOK
  <2>2. bill' = [bill EXCEPT ![r] = b] /\ Go(r, "consume") /\ UNCHANGED reading
    BY <1>1, <1>3, <1>7
  <2> HIDE DEF b
  <2>3. TypeOK' /\ OthersStay(r) /\ pc'[r] = "consume" /\ bill'[r] = b
    BY <1>1, <1>2, <1>4, <2>1, <2>2, ChargeType
  <2>4. Placed(r)'
    BY <1>3, <1>6, <1>7, <2>1, <2>3 DEF Placed, At
  <2>5. RightlyBilled(r)'
    BY <1>3, <1>6, <2>1, <2>3 DEF RightlyBilled, Payg, Plan
  <2> QED BY <1>2, <2>3, <2>4, <2>5 DEF WellCharged, WellMoved
<1>8. ASSUME grants # 0, ~(ActiveCredit > 0), overage[grants]
      PROVE  WellCharged(r)
  <2>1. Go(r, "wallet") /\ StartWalletRead(r) /\ bill' = bill
    BY <1>1, <1>8 DEF ChargeTheRest
  <2>2. reading' \in [Reader -> [stage : {"off", "spent", "got"}, usd : Int]]
    <3>1. Payg \in allModes
      BY DEF allModes
    <3> QED BY <1>3, <2>1, <3>1, ReadingType
  <2>3. bill' = [bill EXCEPT ![r] = NoBill] /\ NoBill \in Bill
    BY <1>3, <2>1
  <2>4. TypeOK' /\ OthersStay(r) /\ pc'[r] = "wallet" /\ bill'[r] = NoBill
    BY <1>1, <1>2, <2>1, <2>2, <2>3, ChargeType
  <2>5. /\ grants \in GrantId /\ Amount(r) \in Nat
        /\ ActiveCredit = remaining[grants] /\ ActiveCredit \in Nat
    BY <1>8, ActiveGrant, AmountType
  <2>6. MayAskWallet(r)'
    <3>1. remaining'[grants] = 0 /\ overage'[grants]
      BY <1>2, <1>6, <1>8, <2>5
    <3>2. bill'[r].grant = 0 /\ bill'[r].plan = 0
      BY <2>4 DEF NoBill
    <3> QED BY <2>5, <3>1, <3>2 DEF MayAskWallet, GrantId
  <2>7. Placed(r)'
    BY <1>3, <1>6, <2>4, <2>5, <2>6 DEF Placed, At, NoBill, Payg, Plan
  <2>8. RightlyBilled(r)'
    BY <1>3, <1>6, <2>4, <2>5 DEF RightlyBilled, Payg, Plan, NoBill
  <2> QED BY <1>2, <2>4, <2>7, <2>8 DEF WellCharged, WellMoved
<1> QED BY <1>1, <1>5, <1>7, <1>8 DEF ChargeTheRest

(* What a request draws is there on its grant, and is its price, to half a   *)
(* step, or all there is. *)
LEMMA DrawnType ==
    ASSUME TypeOK, NEW r \in Request, bill[r].grant # 0
    PROVE  /\ bill[r].grant \in GrantId
           /\ remaining[bill[r].grant] \in Nat /\ remaining[bill[r].grant] <= GrantCredit
           /\ Drawn(r) \in Nat /\ Drawn(r) <= remaining[bill[r].grant]
           /\ 2 * (Drawn(r) - Amount(r)) <= Grain
           /\ \/ Drawn(r) = remaining[bill[r].grant]
              \/ 2 * (Amount(r) - Drawn(r)) <= Grain
<1> DEFINE has == remaining[bill[r].grant]
<1>1. bill[r].grant \in GrantId
  BY BillingAssumption DEF TypeOK, GrantId, BillingAssumption
<1>2. has \in 0..GrantCredit
  BY <1>1 DEF TypeOK
<1>3. Amount(r) \in Nat /\ GrantCredit \in Nat
  BY AmountType, BillingAssumption DEF BillingAssumption
<1>4. Drawn(r) = Consumed(has, Amount(r))
  BY DEF Drawn
<1> HIDE DEF has
<1>5. has \in Nat /\ has <= GrantCredit
  BY <1>2, <1>3
<1>6. /\ Consumed(has, Amount(r)) \in 0..has
      /\ 2 * (Consumed(has, Amount(r)) - Amount(r)) <= Grain
      /\ \/ Consumed(has, Amount(r)) = has
         \/ 2 * (Amount(r) - Consumed(has, Amount(r))) <= Grain
  BY <1>3, <1>5, ConsumedType
<1>7. Drawn(r) \in Nat /\ Drawn(r) <= has
  BY <1>4, <1>5, <1>6
<1> QED BY <1>1, <1>4, <1>5, <1>6, <1>7 DEF has

(* A draw takes from one grant what it adds to the ledger. *)
LEMMA DrawTakes ==
    ASSUME TypeOK, NEW r \in Request, bill[r].grant # 0, Draw(r)
    PROVE  /\ remaining' \in [GrantId -> 0..GrantCredit] /\ usage' \in [GrantId -> Nat]
           /\ NoRefill
           /\ remaining'[bill[r].grant] = remaining[bill[r].grant] - Drawn(r)
           /\ usage'[bill[r].grant] = usage[bill[r].grant] + Drawn(r)
           /\ \A g \in GrantId \ {bill[r].grant} :
                 remaining'[g] = remaining[g] /\ usage'[g] = usage[g]
<1> DEFINE g == bill[r].grant
           used == Drawn(r)
<1>1. /\ remaining' = [remaining EXCEPT ![g] = @ - used]
      /\ usage' = [usage EXCEPT ![g] = @ + used]
  BY DEF Draw
<1>2. /\ g \in GrantId /\ used \in Nat /\ used <= remaining[g]
      /\ remaining[g] \in Nat /\ remaining[g] <= GrantCredit
  BY DrawnType
<1> HIDE DEF g, used
<1>3. remaining[g] - used \in 0..GrantCredit /\ usage[g] + used \in Nat
  <2>1. usage[g] \in Nat /\ GrantCredit \in Nat
    BY <1>2, BillingAssumption DEF TypeOK, BillingAssumption
  <2> QED BY <1>2, <2>1
<1>4. remaining' \in [GrantId -> 0..GrantCredit] /\ usage' \in [GrantId -> Nat]
  BY <1>1, <1>2, <1>3 DEF TypeOK
<1>5. /\ remaining'[g] = remaining[g] - used /\ usage'[g] = usage[g] + used
      /\ \A h \in GrantId \ {g} : remaining'[h] = remaining[h] /\ usage'[h] = usage[h]
  BY <1>1, <1>2 DEF TypeOK
<1>6. NoRefill
  BY <1>2, <1>5 DEF NoRefill
<1> QED BY <1>4, <1>5, <1>6 DEF g, used

(* Consuming credit leaves a request billed, or asking the wallet for what   *)
(* the grant, now empty, could not cover, or for what rounding left over. *)
LEMMA ConsumeKeeps ==
    ASSUME TypeOK, NEW r \in Request, Placed(r), Consume(r)
    PROVE  WellCharged(r)
<1> DEFINE g == bill[r].grant
           used == Drawn(r)
           owed == Amount(r) - used
<1>1. /\ pc[r] = "consume" /\ Draw(r)
      /\ IF owed > Tolerance /\ ~overage[g]
         THEN ChargeFailed(r) /\ UNCHANGED reading
         ELSE /\ bill' = [bill EXCEPT ![r].plan = used]
              /\ IF owed <= Tolerance
                 THEN Go(r, "fold") /\ UNCHANGED reading
                 ELSE Go(r, "wallet") /\ StartWalletRead(r)
      /\ UNCHANGED <<fixed, records, cache, topping>>
  BY DEF Consume, At
<1>2. /\ r \in Reader /\ mode[r] = Plan /\ rows[r] = "none" /\ table[r] = 0 /\ g # 0
      /\ bill[r].plan = 0 /\ bill[r].wallet = 0
      /\ bill \in [Request -> Bill]
  BY <1>1 DEF Reader, Placed, TypeOK, Bill, At
<1>3. /\ remaining' \in [GrantId -> 0..GrantCredit] /\ usage' \in [GrantId -> Nat]
      /\ NoRefill /\ remaining'[g] = remaining[g] - used
      /\ UNCHANGED <<fixed, credits, grants, records, cache, topping>>
  BY <1>1, <1>2, DrawTakes DEF Draw
<1>4. /\ g \in GrantId /\ used \in Nat /\ Amount(r) \in Nat /\ remaining[g] \in Nat
      /\ 2 * (used - Amount(r)) <= Grain
      /\ used = remaining[g] \/ 2 * (Amount(r) - used) <= Grain
      /\ Grain \in Nat /\ Tolerance \in Nat
  BY <1>2, DrawnType, AmountType, BillingAssumption DEF BillingAssumption
<1>5. /\ mode' = mode /\ overage' = overage /\ Amount(r)' = Amount(r)
      /\ rows'[r] = rows[r] /\ table'[r] = table[r]
  BY <1>1 DEF fixed, records, Amount
<1>6. UNCHANGED reading => reading' \in [Reader -> [stage : {"off", "spent", "got"}, usd : Int]]
  BY DEF TypeOK
<1>7. ASSUME ChargeFailed(r), UNCHANGED reading
      PROVE  WellCharged(r)
  BY <1>1, <1>3, <1>6, <1>7, FailedKeeps
<1> DEFINE b == [bill[r] EXCEPT !.plan = used]
<1>8. b \in Bill /\ b.grant = g /\ b.plan = used /\ b.wallet = 0
  BY <1>2, <1>4 DEF Bill
<1>9. bill' = [bill EXCEPT ![r].plan = used] => bill' = [bill EXCEPT ![r] = b]
  BY <1>2
<1>10. ASSUME bill' = [bill EXCEPT ![r] = b], Go(r, "fold"), UNCHANGED reading
       PROVE  WellCharged(r)
  <2> HIDE DEF b, g, used
  <2>1. TypeOK' /\ OthersStay(r) /\ pc'[r] = "fold" /\ bill'[r] = b
    BY <1>3, <1>6, <1>8, <1>10, ChargeType
  <2>2. Placed(r)'
    BY <1>2, <1>5, <2>1 DEF Placed, At
  <2>3. RightlyBilled(r)'
    BY <1>2, <1>4, <1>5, <1>8, <2>1 DEF RightlyBilled, Payg, Plan
  <2> QED BY <1>3, <2>1, <2>2, <2>3 DEF WellCharged, WellMoved
<1>11. ASSUME owed > Tolerance, overage[g], bill' = [bill EXCEPT ![r] = b],
              Go(r, "wallet"), StartWalletRead(r)
       PROVE  WellCharged(r)
  <2>1. reading' \in [Reader -> [stage : {"off", "spent", "got"}, usd : Int]]
    <3>1. Payg \in allModes
      BY DEF allModes
    <3> QED BY <1>2, <1>11, <3>1, ReadingType
  <2>2. used <= Amount(r)
    BY <1>4, <1>11
  <2> HIDE DEF b, g, used
  <2>3. TypeOK' /\ OthersStay(r) /\ pc'[r] = "wallet" /\ bill'[r] = b
    BY <1>3, <1>8, <1>11, <2>1, ChargeType
  <2>4. remaining'[g] = 0 \/ 2 * (Amount(r) - used) <= Grain
    BY <1>3, <1>4
  <2>5. MayAskWallet(r)'
    BY <1>2, <1>5, <1>8, <1>11, <2>3, <2>4 DEF MayAskWallet
  <2>6. Placed(r)'
    BY <1>2, <1>4, <1>5, <1>8, <2>2, <2>3, <2>5 DEF Placed, At, Payg, Plan
  <2>7. RightlyBilled(r)'
    BY <1>2, <1>4, <1>5, <1>8, <2>3 DEF RightlyBilled, Payg, Plan
  <2> QED BY <1>3, <2>3, <2>6, <2>7 DEF WellCharged, WellMoved
<1>12. owed \in Int
  BY <1>4
<1> HIDE DEF b, g, used, owed
<1>13. owed <= Tolerance \/ owed > Tolerance
  BY <1>4, <1>12
<1> QED BY <1>1, <1>7, <1>9, <1>10, <1>11, <1>13

(* A draw that is reported as failed leaves nothing billed. *)
LEMMA ConsumeUnseenKeeps ==
    ASSUME TypeOK, NEW r \in Request, Placed(r), ConsumeUnseen(r)
    PROVE  WellCharged(r)
<1>1. /\ pc[r] = "consume" /\ Draw(r) /\ ChargeFailed(r)
      /\ UNCHANGED <<fixed, records, cache, reading, topping>>
  BY DEF ConsumeUnseen, At
<1>2. bill[r].grant # 0
  BY <1>1 DEF Placed, At
<1>3. /\ remaining' \in [GrantId -> 0..GrantCredit] /\ usage' \in [GrantId -> Nat]
      /\ NoRefill /\ UNCHANGED <<fixed, credits, grants, records, cache, topping>>
  BY <1>1, <1>2, DrawTakes DEF Draw
<1>4. reading' \in [Reader -> [stage : {"off", "spent", "got"}, usd : Int]]
  BY <1>1 DEF TypeOK
<1> QED BY <1>1, <1>3, <1>4, FailedKeeps

(* The wallet pays what the plan did not cover, and a wallet key in full. *)
LEMMA ChargeWalletKeeps ==
    ASSUME TypeOK, NEW r \in Request, Placed(r), ChargeWallet(r)
    PROVE  WellCharged(r)
<1>1. /\ pc[r] = "wallet" /\ bill' = [bill EXCEPT ![r].wallet = Owed(r)]
      /\ Go(r, "fold") /\ StopReading(r)
      /\ UNCHANGED <<fixed, database, records, cache, topping>>
  BY DEF ChargeWallet, At
<1>2. /\ remaining' \in [GrantId -> 0..GrantCredit] /\ usage' \in [GrantId -> Nat]
      /\ NoRefill /\ credits' = credits /\ grants' = grants /\ remaining' = remaining
  BY <1>1, NoDraw DEF database
<1>3. /\ r \in Reader /\ rows[r] = "none" /\ table[r] = 0 /\ bill \in [Request -> Bill]
      /\ mode[r] \in allModes /\ Payg \in allModes
  BY <1>1 DEF Reader, Placed, TypeOK, Bill, allModes
<1>4. /\ bill[r].plan <= Amount(r)
      /\ mode[r] = Payg => bill[r] = NoBill
      /\ mode[r] # Payg => MayAskWallet(r)
  BY <1>1 DEF Placed, At
<1>5. Amount(r) \in Nat /\ bill[r] \in Bill /\ bill[r].plan \in Nat /\ Grain \in Nat
  BY <1>3, AmountType, BillingAssumption DEF Bill, BillingAssumption
<1>6. Owed(r) \in Nat /\ bill[r].plan + Owed(r) = Amount(r)
  BY <1>4, <1>5 DEF Owed
<1> DEFINE b == [bill[r] EXCEPT !.wallet = Owed(r)]
<1>7. b \in Bill /\ b.grant = bill[r].grant /\ b.plan = bill[r].plan /\ b.wallet = Owed(r)
  BY <1>5, <1>6 DEF Bill
<1>8. bill' = [bill EXCEPT ![r] = b]
  BY <1>1, <1>3
<1>9. reading' \in [Reader -> [stage : {"off", "spent", "got"}, usd : Int]]
  BY <1>1, <1>3, ReadingType
<1> HIDE DEF b
<1>10. TypeOK' /\ OthersStay(r) /\ pc'[r] = "fold" /\ bill'[r] = b
  BY <1>1, <1>2, <1>7, <1>8, <1>9, ChargeType
<1>11. /\ mode' = mode /\ overage' = overage /\ Amount(r)' = Amount(r)
       /\ rows'[r] = rows[r] /\ table'[r] = table[r]
  BY <1>1 DEF fixed, records, Amount
<1>12. Placed(r)'
  BY <1>3, <1>10, <1>11 DEF Placed, At
<1>13. RightlyBilled(r)'
  <2>1. CASE mode[r] = Payg
    <3>1. bill[r].grant = 0 /\ bill[r].plan = 0
      BY <1>4, <2>1 DEF NoBill
    <3>2. Owed(r) = Amount(r)
      BY <1>5, <1>6, <3>1
    <3> QED BY <1>5, <1>6, <1>7, <1>10, <1>11, <2>1, <3>1, <3>2 DEF RightlyBilled, Payg, Plan
  <2>2. CASE mode[r] # Payg
    <3>1. IF bill[r].grant = 0
          THEN \E h \in GrantId : overage[h] /\ remaining[h] = 0
          ELSE /\ overage[bill[r].grant]
               /\ remaining[bill[r].grant] = 0 \/ 2 * Owed(r) <= Grain
      BY <1>4, <2>2 DEF MayAskWallet, Owed
    <3> QED BY <1>2, <1>5, <1>6, <1>7, <1>10, <1>11, <2>2, <3>1 DEF RightlyBilled
  <2> QED BY <2>1, <2>2
<1> QED BY <1>2, <1>10, <1>12, <1>13 DEF WellCharged, WellMoved

(* Every step of a request. *)
LEMMA RequestKeeps ==
    ASSUME TypeOK, NEW r \in Request, Placed(r), RightlyBilled(r), RequestStep(r)
    PROVE  WellCharged(r) /\ UNCHANGED <<mode, overage, crediting, topUps>>
<1>1. r \in Reader /\ Payg \in allModes /\ mode[r] \in allModes
  BY DEF Reader, allModes, TypeOK
<1>2. UNCHANGED reading => reading' \in [Reader -> [stage : {"off", "spent", "got"}, usd : Int]]
  BY DEF TypeOK
<1>3. UNCHANGED cache => cache' \in CacheType
  BY DEF TypeOK, CacheType
<1>4. CASE Admit(r) \/ AdmitCold(r) \/ Seed(r) \/ SeedFails(r)
  <2>1. WellMoved(r) /\ UNCHANGED <<mode, overage, crediting, topUps>>
    BY <1>4, AdmissionKeeps DEF Admit, AdmitCold, Seed, SeedFails, fixed, topping
  <2>2. \E q : Go(r, q) /\ q \notin {"fold", "foldWallet", "enqueue"}
    BY <1>4 DEF Admit, AdmitCold, Seed, SeedFails, Verdict
  <2>3. UNCHANGED <<fixed, database, bill>>
    BY <1>4 DEF Admit, AdmitCold, Seed, SeedFails
  <2>4. RightlyBilled(r)'
    BY <2>2, <2>3, MoveRightly
  <2> QED BY <2>1, <2>4 DEF WellCharged
<1>5. CASE Serve(r)
  <2>1. pc[r] = "serve" /\ UNCHANGED <<fixed, database, records, cache, bill, topping>>
    BY <1>5 DEF Serve, At
  <2>2. bill[r] = NoBill
    BY <2>1 DEF Placed
  <2>3. CASE mode[r] = Plan
    <3>1. Go(r, "grant") /\ UNCHANGED reading
      BY <1>5, <2>3 DEF Serve
    <3>2. TypeOK' /\ OthersStay(r) /\ NoRefill
      BY <1>2, <1>3, <2>1, <3>1, MoveType
    <3>3. Placed(r)'
      BY <2>1, <2>2, <2>3, <3>1, MovePlaced
    <3>4. RightlyBilled(r)'
      BY <2>1, <3>1, MoveRightly
    <3> QED BY <2>1, <3>2, <3>3, <3>4 DEF WellCharged, WellMoved, fixed, topping
  <2>4. CASE mode[r] # Plan
    <3>1. Go(r, "wallet") /\ StartWalletRead(r) /\ mode[r] = Payg
      BY <1>1, <1>5, <2>4 DEF Serve, allModes
    <3>2. TypeOK' /\ OthersStay(r) /\ NoRefill
      BY <1>1, <1>3, <2>1, <3>1, MoveType, ReadingType
    <3>3. Placed(r)'
      BY <2>1, <2>2, <3>1, MovePlaced
    <3>4. RightlyBilled(r)'
      BY <2>1, <3>1, MoveRightly
    <3> QED BY <2>1, <3>2, <3>3, <3>4 DEF WellCharged, WellMoved, fixed, topping
  <2> QED BY <2>3, <2>4
<1>6. CASE ServeFree(r)
  <2>1. pc[r] = "serve" /\ Go(r, "done") /\ UNCHANGED reading
        /\ UNCHANGED <<fixed, database, records, cache, bill, topping>>
    BY <1>6 DEF ServeFree, At
  <2>2. TypeOK' /\ OthersStay(r) /\ NoRefill
    BY <1>2, <1>3, <2>1, MoveType
  <2>3. Placed(r)'
    BY <2>1, MovePlaced
  <2>4. RightlyBilled(r)'
    BY <2>1, MoveRightly
  <2> QED BY <2>1, <2>2, <2>3, <2>4 DEF WellCharged, WellMoved, fixed, topping
<1>7. CASE ReadGrant(r)
  BY <1>7, ReadGrantKeeps DEF ReadGrant, fixed, topping
<1>8. CASE Consume(r) \/ ConsumeUnseen(r)
  BY <1>8, ConsumeKeeps, ConsumeUnseenKeeps DEF Consume, ConsumeUnseen, fixed, topping
<1>9. CASE ChargePlanFails(r)
  <2>1. pc[r] \in {"grant", "consume"} /\ ChargeFailed(r)
        /\ UNCHANGED <<fixed, database, records, cache, reading, topping>>
    BY <1>9 DEF ChargePlanFails
  <2>2. /\ remaining' \in [GrantId -> 0..GrantCredit] /\ usage' \in [GrantId -> Nat]
        /\ NoRefill /\ credits' = credits /\ grants' = grants
    BY <2>1, NoDraw
  <2>3. WellCharged(r)
    BY <1>2, <2>1, <2>2, FailedKeeps
  <2> QED BY <2>1, <2>3 DEF fixed, topping
<1>10. CASE ChargeWallet(r)
  BY <1>10, ChargeWalletKeeps DEF ChargeWallet, fixed, topping
<1>11. CASE ChargeWalletFails(r)
  <2>1. pc[r] = "wallet" /\ ChargeFailed(r) /\ StopReading(r)
        /\ UNCHANGED <<fixed, database, records, cache, topping>>
    BY <1>11 DEF ChargeWalletFails, At
  <2>2. /\ remaining' \in [GrantId -> 0..GrantCredit] /\ usage' \in [GrantId -> Nat]
        /\ NoRefill /\ credits' = credits /\ grants' = grants
    BY <2>1, NoDraw
  <2>3. reading' \in [Reader -> [stage : {"off", "spent", "got"}, usd : Int]]
    BY <1>1, <2>1, ReadingType
  <2>4. WellCharged(r)
    BY <2>1, <2>2, <2>3, FailedKeeps
  <2> QED BY <2>1, <2>4 DEF fixed, topping
<1>12. CASE FoldPlan(r) \/ FoldWallet(r)
  <2>1. PICK q \in {"foldWallet", "enqueue"} :
           /\ pc[r] \in {"fold", "foldWallet"} /\ Go(r, q) /\ UNCHANGED reading
           /\ UNCHANGED <<fixed, database, records, bill, topping>>
    BY <1>12 DEF FoldPlan, FoldWallet, At
  <2>2. cache' \in CacheType
    <3>1. - bill[r].wallet \in Int /\ - bill[r].plan \in Int /\ Plan \in allModes
      BY DEF TypeOK, allModes
    <3>2. \A m \in allModes :
             /\ Adjust(m, - bill[r].wallet) \in [known : BOOLEAN, usd : Int, refreshing : BOOLEAN]
             /\ Adjust(m, - bill[r].plan) \in [known : BOOLEAN, usd : Int, refreshing : BOOLEAN]
      BY <3>1, AdjustType
    <3>3. CASE FoldPlan(r)
      BY <3>1, <3>2, <3>3 DEF FoldPlan, PlanFolded, CacheType, TypeOK
    <3>4. CASE FoldWallet(r)
      BY <3>2, <3>4 DEF FoldWallet, CacheType
    <3> QED BY <1>12, <3>3, <3>4
  <2>3. TypeOK' /\ OthersStay(r) /\ NoRefill
    BY <1>2, <2>1, <2>2, MoveType
  <2>4. Placed(r)'
    BY <2>1, MovePlaced
  <2>5. RightlyBilled(r)'
    BY <2>1, MoveRightly
  <2> QED BY <2>1, <2>3, <2>4, <2>5 DEF WellCharged, WellMoved, fixed, topping
<1>13. CASE Enqueue(r)
  <2>1. /\ pc[r] = "enqueue" /\ Go(r, "done")
        /\ \E fate \in {"queued", "dropped"} : rows' = [rows EXCEPT ![r] = fate]
        /\ UNCHANGED <<fixed, database, table, cache, bill, reading, topping>>
    BY <1>13 DEF Enqueue, At
  <2>2. /\ mode' = mode /\ overage' = overage /\ credits' = credits /\ grants' = grants
        /\ remaining' = remaining /\ usage' = usage /\ cache' = cache /\ bill' = bill
        /\ reading' = reading /\ crediting' = crediting /\ topUps' = topUps
        /\ table' = table
    BY <2>1 DEF fixed, database, topping
  <2>3. /\ pc' \in [Request -> {"arrive", "cold", "serve", "refused", "grant", "consume",
                                "wallet", "fold", "foldWallet", "enqueue", "done"}]
        /\ pc'[r] = "done"
        /\ \A x \in Request \ {r} : pc'[x] = pc[x]
    BY <2>1 DEF Go, TypeOK
  <2>4. /\ rows' \in [Request -> {"none", "queued", "stored", "dropped"}]
        /\ rows'[r] # "none" /\ \A x \in Request \ {r} : rows'[x] = rows[x]
    BY <2>1 DEF TypeOK
  <2>5. TypeOK'
    BY <2>2, <2>3, <2>4 DEF TypeOK
  <2>6. OthersStay(r) /\ NoRefill
    BY <2>2, <2>3, <2>4 DEF OthersStay, NoRefill
  <2>7. Placed(r)'
    BY <2>3, <2>4 DEF Placed, At
  <2>8. RightlyBilled(r)'
    BY <2>1, MoveRightly
  <2> QED BY <2>2, <2>5, <2>6, <2>7, <2>8 DEF WellCharged, WellMoved
<1> QED BY <1>4, <1>5, <1>6, <1>7, <1>8, <1>9, <1>10, <1>11, <1>12, <1>13 DEF RequestStep

(* Steps that change only the cache, the queries of the guard, what is in    *)
(* the database of the wallet and of the plans, and what the write buffer    *)
(* has stored. *)
OtherStep ==
    \/ \E r \in Request : Flush(r) \/ FlushUnnoticed(r)
    \/ \E p \in Reader : ReadSpent(p)
    \/ \E m \in allModes : AdmitFree(m) \/ Refresh(m) \/ RefreshFails(m)
    \/ AddEntry \/ Credit \/ GrantPlan

(* They move no request and bill nothing. *)
LEMMA OtherMovesNone ==
    ASSUME TypeOK, OtherStep
    PROVE  /\ pc' = pc /\ bill' = bill /\ remaining' = remaining /\ usage' = usage
           /\ UNCHANGED fixed /\ NoRefill
<1>1. /\ pc' = pc /\ bill' = bill /\ remaining' = remaining /\ usage' = usage
      /\ UNCHANGED fixed
  BY DEF OtherStep, Flush, FlushUnnoticed, ReadSpent, AdmitFree, Refresh, RefreshFails,
         AddEntry, Credit, GrantPlan, database
<1> QED BY <1>1 DEF NoRefill

(* And touch only rows that are there. *)
LEMMA OtherRows ==
    ASSUME TypeOK, OtherStep, NEW r \in Request
    PROVE  /\ rows[r] = "none" => rows'[r] = "none" /\ table'[r] = table[r]
           /\ rows[r] # "none" => rows'[r] # "none"
           /\ table'[r] \in Nat /\ table[r] <= table'[r]
<1>1. ASSUME NEW x \in Request, Flush(x) \/ FlushUnnoticed(x)
      PROVE  /\ rows[r] = "none" => rows'[r] = "none" /\ table'[r] = table[r]
             /\ rows[r] # "none" => rows'[r] # "none"
             /\ table'[r] \in Nat /\ table[r] <= table'[r]
  <2> DEFINE held == Nearest(bill[x].wallet)
  <2>1. /\ rows[x] = "queued" /\ table' = [table EXCEPT ![x] = @ + held]
        /\ rows' = [rows EXCEPT ![x] = "stored"] \/ rows' = rows
    BY <1>1 DEF Flush, FlushUnnoticed, Insert
  <2>2. held \in Nat
    <3>1. bill[x].wallet \in Nat
      BY DEF TypeOK
    <3> QED BY <3>1, NearestType
  <2> HIDE DEF held
  <2>3. table \in [Request -> Nat] /\ rows \in [Request -> {"none", "queued", "stored", "dropped"}]
    BY DEF TypeOK
  <2>4. CASE r = x
    BY <2>1, <2>2, <2>3, <2>4
  <2>5. CASE r # x
    BY <2>1, <2>3, <2>5
  <2> QED BY <2>4, <2>5
<1>2. ASSUME UNCHANGED records
      PROVE  rows' = rows /\ table' = table
  BY <1>2 DEF records
<1>3. (\E x \in Request : Flush(x) \/ FlushUnnoticed(x)) \/ UNCHANGED records
  BY DEF OtherStep, ReadSpent, AdmitFree, Refresh, RefreshFails, AddEntry, Credit, GrantPlan
<1> QED BY <1>1, <1>2, <1>3 DEF TypeOK

(* And keep the types. *)
LEMMA OtherType ==
    ASSUME TypeOK, crediting <= topUps, OtherStep
    PROVE  TypeOK' /\ crediting' <= topUps'
<1>1. /\ pc' = pc /\ bill' = bill /\ remaining' = remaining /\ usage' = usage
      /\ mode' = mode /\ overage' = overage
  BY OtherMovesNone DEF fixed
<1>2. allModes \subseteq Reader
  BY DEF Reader
<1>3. CASE \E r \in Request : Flush(r) \/ FlushUnnoticed(r)
  <2>1. /\ credits' = credits /\ grants' = grants /\ cache' = cache /\ reading' = reading
        /\ crediting' = crediting /\ topUps' = topUps
        /\ rows' \in [Request -> {"none", "queued", "stored", "dropped"}]
    BY <1>3 DEF Flush, FlushUnnoticed, database, topping, TypeOK
  <2>2. table' \in [Request -> Nat]
    <3>1. \A r \in Request : table'[r] \in Nat
      BY OtherRows
    <3>2. \E n : \E x \in Request : table' = [table EXCEPT ![x] = n]
      BY <1>3 DEF Flush, FlushUnnoticed, Insert
    <3> QED BY <3>1, <3>2 DEF TypeOK
  <2> QED BY <1>1, <2>1, <2>2 DEF TypeOK
<1>4. CASE \E p \in Reader : ReadSpent(p)
  <2> PICK p \in Reader : ReadSpent(p)
    BY <1>4
  <2>1. /\ credits' = credits /\ grants' = grants /\ cache' = cache /\ UNCHANGED <<rows, table>>
        /\ crediting' = crediting /\ topUps' = topUps
        /\ reading' = [reading EXCEPT ![p] = [stage |-> "got", usd |-> Balance(p)]]
    BY DEF ReadSpent, database, records, topping
  <2>2. Balance(p) \in Int
    BY BalanceType
  <2>3. reading' \in [Reader -> [stage : {"off", "spent", "got"}, usd : Int]]
    BY <2>1, <2>2 DEF TypeOK
  <2> QED BY <1>1, <2>1, <2>3 DEF TypeOK
<1>5. CASE \E m \in allModes : AdmitFree(m) \/ Refresh(m) \/ RefreshFails(m)
  <2> PICK m \in allModes : AdmitFree(m) \/ Refresh(m) \/ RefreshFails(m)
    BY <1>5
  <2>1. /\ credits' = credits /\ grants' = grants /\ UNCHANGED <<rows, table>>
        /\ crediting' = crediting /\ topUps' = topUps
    BY DEF AdmitFree, Refresh, RefreshFails, database, records, topping
  <2>2. /\ cache' \in CacheType
        /\ reading' \in [Reader -> [stage : {"off", "spent", "got"}, usd : Int]]
    <3>1. CASE AdmitFree(m)
      BY <3>1, ConsultType DEF AdmitFree, Consult
    <3>2. CASE Refresh(m)
      <4>1. [Cold EXCEPT !.known = TRUE, !.usd = reading[m].usd]
               \in [known : BOOLEAN, usd : Int, refreshing : BOOLEAN]
        BY <1>2 DEF Cold, TypeOK
      <4>2. cache' \in CacheType
        BY <3>2, <4>1 DEF Refresh, TypeOK, CacheType
      <4> QED BY <1>2, <3>2, <4>2, ReadingType DEF Refresh
    <3>3. CASE RefreshFails(m)
      <4>1. cache' \in CacheType
        BY <3>3 DEF RefreshFails, TypeOK, CacheType
      <4> QED BY <1>2, <3>3, <4>1, ReadingType DEF RefreshFails
    <3> QED BY <3>1, <3>2, <3>3
  <2> QED BY <1>1, <2>1, <2>2 DEF TypeOK, CacheType
<1>6. CASE AddEntry
  <2>1. /\ grants' = grants /\ UNCHANGED <<rows, table>> /\ cache' = cache /\ reading' = reading
        /\ topUps < MaxTopUps /\ topUps' = topUps + 1 /\ crediting' = crediting + 1
        /\ credits' = credits + TopUp
    BY <1>6 DEF AddEntry, records
  <2>2. credits' \in Nat /\ topUps' \in 0..MaxTopUps /\ crediting' \in 0..MaxTopUps
        /\ crediting' <= topUps'
    BY <2>1, BillingAssumption DEF TypeOK, BillingAssumption
  <2> QED BY <1>1, <2>1, <2>2 DEF TypeOK
<1>7. CASE Credit
  <2>1. /\ credits' = credits /\ grants' = grants /\ UNCHANGED <<rows, table>> /\ reading' = reading
        /\ topUps' = topUps /\ crediting > 0 /\ crediting' = crediting - 1
        /\ cache' = [m \in allModes |-> Adjust(m, TopUp)]
    BY <1>7 DEF Credit, database, records
  <2>2. crediting' \in 0..MaxTopUps /\ crediting' <= topUps'
    BY <2>1, BillingAssumption DEF TypeOK, BillingAssumption
  <2>3. TopUp \in Int
    BY BillingAssumption DEF BillingAssumption
  <2>4. cache' \in CacheType
    BY <2>1, <2>3, AdjustType DEF CacheType
  <2> QED BY <1>1, <2>1, <2>2, <2>4 DEF TypeOK, CacheType
<1>8. CASE GrantPlan
  <2>1. /\ credits' = credits /\ UNCHANGED <<rows, table>> /\ cache' = cache /\ reading' = reading
        /\ crediting' = crediting /\ topUps' = topUps
        /\ grants < MaxGrants /\ grants' = grants + 1
    BY <1>8 DEF GrantPlan, records, topping
  <2>2. grants' \in 0..MaxGrants
    BY <2>1, BillingAssumption DEF TypeOK, BillingAssumption
  <2> QED BY <1>1, <2>1, <2>2 DEF TypeOK
<1> QED BY <1>3, <1>4, <1>5, <1>6, <1>7, <1>8 DEF OtherStep

-----------------------------------------------------------------------------
(* The invariant of every behaviour.                                        *)

(* A top-up is in the ledger before it is in the cache. *)
BillingInv ==
    /\ TypeOK
    /\ \A r \in Request : Placed(r) /\ RightlyBilled(r)
    /\ crediting <= topUps

(* A behaviour starts with nothing granted, asked or billed. *)
LEMMA BillingInit == Init => BillingInv
<1> SUFFICES ASSUME Init PROVE BillingInv
  OBVIOUS
<1> USE DEF Init
<1>1. TypeOK
  <2>1. credits \in Nat /\ grants \in 0..MaxGrants /\ topUps \in 0..MaxTopUps
        /\ crediting \in 0..MaxTopUps
    BY BillingAssumption DEF BillingAssumption
  <2>2. remaining \in [GrantId -> 0..GrantCredit] /\ usage \in [GrantId -> Nat]
    BY BillingAssumption DEF BillingAssumption
  <2>3. cache \in CacheType
    BY DEF Cold, CacheType
  <2>4. bill \in [Request -> Bill]
    BY BillingAssumption DEF NoBill, Bill, BillingAssumption
  <2>5. reading \in [Reader -> [stage : {"off", "spent", "got"}, usd : Int]]
    BY DEF NoRead
  <2>6. mode \in [Request -> allModes]
    BY BillingAssumption DEF BillingAssumption
  <2> QED BY <2>1, <2>2, <2>3, <2>4, <2>5, <2>6 DEF TypeOK, CacheType, Bill
<1>2. ASSUME NEW r \in Request
      PROVE  Placed(r) /\ RightlyBilled(r)
  <2>1. pc[r] = "arrive" /\ bill[r] = NoBill /\ rows[r] = "none" /\ table[r] = 0
    OBVIOUS
  <2>2. NoBill.grant = 0 /\ NoBill.plan = 0 /\ NoBill.wallet = 0
    BY DEF NoBill
  <2>3. Amount(r) \in Nat /\ Grain \in Nat
    BY AmountType, BillingAssumption DEF BillingAssumption
  <2> QED BY <2>1, <2>2, <2>3 DEF Placed, RightlyBilled, At
<1>3. crediting <= topUps
  OBVIOUS
<1> QED BY <1>1, <1>2, <1>3 DEF BillingInv

(* Every step is one of a request or another. *)
LEMMA StepCases == Next => OtherStep \/ \E r \in Request : RequestStep(r)
BY DEF Next, OtherStep

(* Every step keeps the invariant. *)
LEMMA BillingStep == BillingInv /\ [Next]_vars => BillingInv'
<1> SUFFICES ASSUME BillingInv, [Next]_vars PROVE BillingInv'
  OBVIOUS
<1>0. TypeOK /\ crediting <= topUps
      /\ \A r \in Request : Placed(r) /\ RightlyBilled(r)
  BY DEF BillingInv
<1>1. ASSUME NEW r \in Request, RequestStep(r)
      PROVE  BillingInv'
  <2>1. WellCharged(r) /\ UNCHANGED <<mode, overage, crediting, topUps>>
    BY <1>0, <1>1, RequestKeeps
  <2>2. UNCHANGED fixed
    BY <2>1 DEF fixed
  <2>3. ASSUME NEW x \in Request PROVE Placed(x)' /\ RightlyBilled(x)'
    <3>1. CASE x = r
      BY <2>1, <3>1 DEF WellCharged, WellMoved
    <3>2. CASE x # r
      <4>1. /\ pc'[x] = pc[x] /\ bill'[x] = bill[x] /\ NoRefill
            /\ rows'[x] = rows[x] /\ table'[x] = table[x]
        BY <2>1, <3>2 DEF WellCharged, WellMoved, OthersStay
      <4> QED BY <1>0, <2>2, <4>1, PlacedStays, RightlyStays
    <3> QED BY <3>1, <3>2
  <2> QED BY <1>0, <2>1, <2>3 DEF BillingInv, WellCharged, WellMoved
<1>2. ASSUME OtherStep
      PROVE  BillingInv'
  <2>1. TypeOK' /\ crediting' <= topUps'
    BY <1>0, <1>2, OtherType
  <2>2. pc' = pc /\ bill' = bill /\ UNCHANGED fixed /\ NoRefill
    BY <1>0, <1>2, OtherMovesNone
  <2>3. ASSUME NEW x \in Request PROVE Placed(x)' /\ RightlyBilled(x)'
    <3>1. RightlyBilled(x)'
      BY <1>0, <2>2, RightlyStays
    <3>2. CASE rows[x] = "none"
      <4>1. rows'[x] = rows[x] /\ table'[x] = table[x]
        BY <1>0, <1>2, <3>2, OtherRows
      <4> QED BY <1>0, <2>2, <3>1, <4>1, PlacedStays
    <3>3. CASE rows[x] # "none"
      <4>1. pc'[x] = "done" /\ rows'[x] # "none"
        BY <1>0, <1>2, <2>2, <3>3, OtherRows DEF Placed
      <4> QED BY <3>1, <4>1 DEF Placed, At
    <3> QED BY <3>2, <3>3
  <2> QED BY <2>1, <2>3 DEF BillingInv
<1>3. CASE UNCHANGED vars
  <2>1. /\ mode' = mode /\ overage' = overage /\ credits' = credits /\ grants' = grants
        /\ remaining' = remaining /\ usage' = usage /\ rows' = rows /\ table' = table
        /\ cache' = cache /\ pc' = pc /\ bill' = bill /\ reading' = reading
        /\ crediting' = crediting /\ topUps' = topUps
    BY <1>3 DEF vars, fixed, database, records, topping
  <2>2. NoRefill /\ UNCHANGED fixed
    BY <2>1 DEF NoRefill, fixed
  <2>3. TypeOK'
    BY <1>0, <2>1 DEF TypeOK
  <2>4. \A x \in Request : Placed(x)' /\ RightlyBilled(x)'
    BY <1>0, <2>1, <2>2, PlacedStays, RightlyStays
  <2> QED BY <1>0, <2>1, <2>3, <2>4 DEF BillingInv
<1> QED BY <1>1, <1>2, <1>3, StepCases

(* The invariant holds of every behaviour. *)
LEMMA BillingInvariant == Spec => []BillingInv
<1>1. Init => BillingInv
  BY BillingInit
<1>2. BillingInv /\ [Next]_vars => BillingInv'
  BY BillingStep
<1> QED BY <1>1, <1>2, PTL DEF Spec

(* Grants hold between nothing and their full credit, ledgers and bills are   *)
(* never negative. *)
THEOREM TypeCorrect == Spec => []TypeOK
<1>1. BillingInv => TypeOK
  BY DEF BillingInv
<1> QED BY <1>1, BillingInvariant, PTL

(* A request of a wallet key that was served is billed in full, whatever     *)
(* fails on the way (chargeBilling). *)
THEOREM PaygBilledCorrect == Spec => []PaygIsBilled
<1>1. BillingInv => PaygIsBilled
  BY DEF BillingInv, PaygIsBilled, RightlyBilled
<1> QED BY <1>1, BillingInvariant, PTL

(* A plan key pays from the wallet only what its grant could not cover: one   *)
(* that has overage, and has nothing left or only what rounding left between *)
(* credit and price.  A wallet key spends no plan credit (Service.Charge).   *)
THEOREM PlanFirstCorrect == Spec => []PlanFirst
<1>1. BillingInv => PlanFirst
  <2> SUFFICES ASSUME BillingInv, NEW r \in Request
               PROVE  IF mode[r] = Payg THEN bill[r].grant = 0 /\ bill[r].plan = 0
                      ELSE bill[r].wallet > 0 =>
                              /\ bill[r].plan + bill[r].wallet = Amount(r)
                              /\ IF bill[r].grant = 0
                                 THEN \E g \in GrantId : overage[g] /\ remaining[g] = 0
                                 ELSE /\ overage[bill[r].grant]
                                      /\ \/ remaining[bill[r].grant] = 0
                                         \/ 2 * bill[r].wallet <= Grain
    BY DEF PlanFirst
  <2>1. mode[r] \in allModes /\ RightlyBilled(r)
    BY DEF BillingInv, TypeOK
  <2> QED BY <2>1 DEF RightlyBilled, allModes
<1> QED BY <1>1, BillingInvariant, PTL

(* Nobody is ever charged more than the request costs and half a step of the *)
(* column in which credit is counted, however the plan, the wallet and the   *)
(* fallback of a failed charge share it out (ConsumeGrantCredit, Charge).    *)
THEOREM NeverOvercharged ==
    Spec => [](\A r \in Request : 2 * (bill[r].plan + bill[r].wallet - Amount(r)) <= Grain)
<1>1. BillingInv => \A r \in Request : 2 * (bill[r].plan + bill[r].wallet - Amount(r)) <= Grain
  BY DEF BillingInv, RightlyBilled
<1> QED BY <1>1, BillingInvariant, PTL

(* A charge is made once: when it is over, its bill stays as it is.          *)
THEOREM BillsAreFinal ==
    Spec => [][\A r \in Request : pc[r] \in {"fold", "foldWallet", "enqueue", "done"} => bill'[r] = bill[r]]_vars
<1> DEFINE Final == \A r \in Request : pc[r] \in {"fold", "foldWallet", "enqueue", "done"} => bill'[r] = bill[r]
<1>1. BillingInv /\ [Next]_vars => Final
  <2> SUFFICES ASSUME BillingInv, [Next]_vars, NEW r \in Request,
                      pc[r] \in {"fold", "foldWallet", "enqueue", "done"}
               PROVE  bill'[r] = bill[r]
    OBVIOUS
  <2>1. TypeOK /\ \A x \in Request : Placed(x) /\ RightlyBilled(x)
    BY DEF BillingInv
  <2>2. ASSUME NEW x \in Request, RequestStep(x)
        PROVE  bill'[r] = bill[r]
    <3>1. CASE x # r
      <4>1. OthersStay(x)
        BY <2>1, <2>2, RequestKeeps DEF WellCharged, WellMoved
      <4> QED BY <3>1, <4>1 DEF OthersStay
    <3>2. CASE x = r
      BY <2>2, <3>2 DEF RequestStep, Admit, AdmitCold, Seed, SeedFails, Serve, ServeFree,
         ReadGrant, Consume, ConsumeUnseen, ChargePlanFails, ChargeWallet, ChargeWalletFails,
         FoldPlan, FoldWallet, Enqueue, At
    <3> QED BY <3>1, <3>2
  <2>3. OtherStep => bill' = bill
    BY <2>1, OtherMovesNone
  <2>4. UNCHANGED vars => bill' = bill
    BY DEF vars
  <2> QED BY <2>2, <2>3, <2>4, StepCases
<1> QED BY <1>1, BillingInvariant, PTL DEF Spec

-----------------------------------------------------------------------------
(* Grants add up.                                                           *)

Takers(b, g) == {x \in Request : b[x].grant = g}
Plans(b) == [x \in Request |-> b[x].plan]
Own(b, r, g) == IF b[r].grant = g THEN b[r].plan ELSE 0

(* What is booked on a grant is what others book, and one's own. *)
LEMMA BookedSplit ==
    ASSUME NEW b \in [Request -> Bill], NEW r \in Request, NEW g \in GrantId
    PROVE  /\ Sum(Plans(b), Takers(b, g) \ {r}) \in Nat
           /\ Sum(Plans(b), Takers(b, g)) = Sum(Plans(b), Takers(b, g) \ {r}) + Own(b, r, g)
<1> DEFINE rest == Takers(b, g) \ {r}
<1>1. IsFiniteSet(rest)
  <2>1. rest \in SUBSET Request
    BY DEF Takers
  <2> QED BY <2>1, BillingAssumption, FS_Subset DEF BillingAssumption
<1>2. \A x \in Request : Plans(b)[x] \in Nat /\ Plans(b)[x] = b[x].plan
  BY DEF Plans, Bill
<1>3. rest \subseteq Request
  BY DEF Takers
<1>4. Sum(Plans(b), rest) \in Nat
  BY <1>1, <1>2, <1>3, SumType
<1>5. CASE r \in Takers(b, g)
  <2>1. Takers(b, g) = rest \cup {r} /\ r \notin rest
    BY <1>5
  <2>2. \A x \in rest \cup {r} : Plans(b)[x] \in Nat
    BY <1>2, <1>3
  <2> HIDE DEF rest
  <2>3. Sum(Plans(b), rest \cup {r}) = Sum(Plans(b), rest) + Plans(b)[r]
    BY <1>1, <2>1, <2>2, SumAdd
  <2>4. Own(b, r, g) = Plans(b)[r]
    BY <1>2, <1>5 DEF Own, Takers
  <2> QED BY <1>4, <2>1, <2>3, <2>4 DEF rest
<1>6. CASE r \notin Takers(b, g)
  <2>1. rest = Takers(b, g)
    BY <1>6
  <2>2. Own(b, r, g) = 0
    BY <1>6 DEF Own, Takers
  <2> QED BY <1>4, <2>1, <2>2
<1> QED BY <1>5, <1>6

(* A step that rebills one request changes what is booked by its own part. *)
LEMMA BookedChange ==
    ASSUME TypeOK, TypeOK', NEW r \in Request, OthersStay(r), NEW g \in GrantId
    PROVE  \E n \in Nat : /\ Booked(g) = n + Own(bill, r, g)
                          /\ Booked(g)' = n + Own(bill', r, g)
<1> DEFINE n == Sum(Plans(bill), Takers(bill, g) \ {r})
<1>1. bill \in [Request -> Bill] /\ bill' \in [Request -> Bill]
  BY DEF TypeOK, Bill
<1>2. n \in Nat /\ Sum(Plans(bill), Takers(bill, g)) = n + Own(bill, r, g)
  BY <1>1, BookedSplit
<1>3. Sum(Plans(bill'), Takers(bill', g))
         = Sum(Plans(bill'), Takers(bill', g) \ {r}) + Own(bill', r, g)
  BY <1>1, BookedSplit
<1>4. Takers(bill', g) \ {r} = Takers(bill, g) \ {r}
  BY DEF Takers, OthersStay
<1>5. \A x \in Takers(bill, g) \ {r} : Plans(bill)[x] = Plans(bill')[x]
  BY DEF Takers, Plans, OthersStay
<1>6. Sum(Plans(bill'), Takers(bill, g) \ {r}) = n
  BY <1>5, SumSame
<1>7. Booked(g) = Sum(Plans(bill), Takers(bill, g))
  BY DEF Booked, Plans, Takers
<1>8. Booked(g)' = Sum(Plans(bill'), Takers(bill', g))
  BY DEF Booked, Plans, Takers
<1> HIDE DEF n
<1>9. Booked(g) = n + Own(bill, r, g) /\ Booked(g)' = n + Own(bill', r, g)
  BY <1>2, <1>3, <1>4, <1>6, <1>7, <1>8
<1> QED BY <1>2, <1>9

(* A request books no more than it draws, and what it draws is in the ledger. *)
LEMMA BooksWhatItDraws ==
    ASSUME TypeOK, TypeOK', NEW r \in Request, Placed(r), RequestStep(r), NEW g \in GrantId
    PROVE  /\ remaining'[g] + usage'[g] = remaining[g] + usage[g]
           /\ Own(bill', r, g) + usage[g] <= Own(bill, r, g) + usage'[g]
<1>1. /\ bill[r].plan \in Nat /\ bill'[r].plan \in Nat
      /\ remaining[g] \in Int /\ usage[g] \in Nat /\ usage'[g] \in Nat
      /\ bill \in [Request -> Bill] /\ g # 0
  <2>1. remaining[g] \in 0..GrantCredit /\ GrantCredit \in Nat
    BY BillingAssumption DEF TypeOK, BillingAssumption
  <2>2. g # 0
    BY BillingAssumption DEF GrantId, BillingAssumption
  <2>3. usage[g] \in Nat /\ usage'[g] \in Nat
    BY DEF TypeOK
  <2>4. bill \in [Request -> Bill] /\ bill' \in [Request -> Bill]
    BY DEF TypeOK, Bill
  <2> QED BY <2>1, <2>2, <2>3, <2>4 DEF Bill
<1>2. Own(bill, r, g) \in Nat /\ Own(bill', r, g) \in Nat
  BY <1>1 DEF Own
<1>3. ChargeFailed(r) => Own(bill', r, g) = 0
  BY <1>1 DEF ChargeFailed, Fallback, NoBill, Own
<1>4. CASE Consume(r) \/ ConsumeUnseen(r)
  <2> DEFINE taken == bill[r].grant
             used == Drawn(r)
  <2>1. taken # 0 /\ bill[r].plan = 0 /\ Draw(r)
    BY <1>4 DEF Consume, ConsumeUnseen, Placed, At
  <2>2. /\ remaining'[taken] = remaining[taken] - used
        /\ usage'[taken] = usage[taken] + used
        /\ \A h \in GrantId \ {taken} : remaining'[h] = remaining[h] /\ usage'[h] = usage[h]
    BY <2>1, DrawTakes
  <2>3. used \in Nat
    BY <2>1, DrawnType
  <2>4. ChargeFailed(r) \/ bill' = [bill EXCEPT ![r].plan = used]
    BY <1>4 DEF Consume, ConsumeUnseen
  <2>5. bill' = [bill EXCEPT ![r].plan = used]
           => Own(bill', r, g) = IF taken = g THEN used ELSE 0
    BY <1>1 DEF Own, Bill
  <2>6. Own(bill, r, g) = 0
    BY <2>1 DEF Own
  <2> HIDE DEF taken, used
  <2>7. CASE taken = g
    <3>1. Own(bill', r, g) <= used
      BY <1>3, <2>3, <2>4, <2>5, <2>7
    <3> QED BY <1>1, <1>2, <2>2, <2>3, <2>6, <2>7, <3>1
  <2>8. CASE taken # g
    <3>1. Own(bill', r, g) = 0 /\ remaining'[g] = remaining[g] /\ usage'[g] = usage[g]
      BY <1>3, <2>2, <2>4, <2>5, <2>8
    <3> QED BY <1>1, <2>6, <3>1
  <2> QED BY <2>7, <2>8
<1>5. CASE ~Consume(r) /\ ~ConsumeUnseen(r)
  <2>1. UNCHANGED database
    BY <1>5 DEF RequestStep, Admit, AdmitCold, Seed, SeedFails, Serve, ServeFree, ReadGrant,
       ChargePlanFails, ChargeWallet, ChargeWalletFails, FoldPlan, FoldWallet, Enqueue
  <2>2. Own(bill', r, g) <= Own(bill, r, g)
    <3>1. bill' = bill => Own(bill', r, g) <= Own(bill, r, g)
      BY <1>2
    <3>2. ReadGrant(r) => Own(bill', r, g) <= Own(bill, r, g)
      <4> SUFFICES ASSUME ReadGrant(r) PROVE Own(bill', r, g) <= Own(bill, r, g)
        OBVIOUS
      <4>1. bill[r].plan = 0
        BY DEF ReadGrant, Placed, At, NoBill
      <4>2. ChargeFailed(r) \/ bill' = bill \/ bill' = [bill EXCEPT ![r].grant = grants]
        BY DEF ReadGrant, ChargeTheRest
      <4>3. bill' = [bill EXCEPT ![r].grant = grants] => bill'[r].plan = 0
        BY <1>1, <4>1 DEF Bill
      <4> QED BY <1>2, <1>3, <3>1, <4>2, <4>3 DEF Own
    <3>3. ChargeWallet(r) => Own(bill', r, g) <= Own(bill, r, g)
      <4> SUFFICES ASSUME ChargeWallet(r) PROVE Own(bill', r, g) <= Own(bill, r, g)
        OBVIOUS
      <4>1. bill'[r].grant = bill[r].grant /\ bill'[r].plan = bill[r].plan
        BY <1>1 DEF ChargeWallet, Bill
      <4> QED BY <1>2, <4>1 DEF Own
    <3>4. bill' = bill \/ ReadGrant(r) \/ ChargeWallet(r) \/ ChargeFailed(r)
      BY <1>5 DEF RequestStep, Admit, AdmitCold, Seed, SeedFails, Serve, ServeFree,
         ChargePlanFails, ChargeWalletFails, FoldPlan, FoldWallet, Enqueue
    <3> QED BY <1>2, <1>3, <3>1, <3>2, <3>3, <3>4
  <2> QED BY <1>1, <1>2, <2>1, <2>2 DEF database
<1> QED BY <1>4, <1>5

(* However charges race, a grant is never overdrawn, its ledger sums to what *)
(* is gone from it, and no two requests book the same credit                 *)
(* (ConsumeGrantCredit). *)
THEOREM GrantCorrect == Spec => []GrantAddsUp
<1>1. Init => GrantAddsUp
  <2> SUFFICES ASSUME Init, NEW g \in GrantId
               PROVE  remaining[g] + usage[g] = GrantCredit /\ Booked(g) <= usage[g]
    BY DEF GrantAddsUp
  <2>1. remaining[g] = GrantCredit /\ usage[g] = 0 /\ GrantCredit \in Nat
    BY BillingAssumption DEF Init, BillingAssumption
  <2>2. {r \in Request : bill[r].grant = g} = {}
    BY DEF Init, NoBill, GrantId
  <2>3. Booked(g) = 0
    BY <2>2, SumEmpty DEF Booked
  <2> QED BY <2>1, <2>3
<1>2. BillingInv /\ BillingInv' /\ GrantAddsUp /\ [Next]_vars => GrantAddsUp'
  <2> SUFFICES ASSUME BillingInv, BillingInv', GrantAddsUp, [Next]_vars, NEW g \in GrantId
               PROVE  remaining'[g] + usage'[g] = GrantCredit /\ Booked(g)' <= usage'[g]
    BY DEF GrantAddsUp
  <2>1. /\ TypeOK /\ TypeOK' /\ \A r \in Request : Placed(r)
        /\ remaining[g] + usage[g] = GrantCredit /\ Booked(g) <= usage[g]
        /\ \A r \in Request : RightlyBilled(r)
    BY DEF BillingInv, GrantAddsUp
  <2>2. ASSUME NEW r \in Request, RequestStep(r)
        PROVE  remaining'[g] + usage'[g] = GrantCredit /\ Booked(g)' <= usage'[g]
    <3>1. OthersStay(r)
      BY <2>1, <2>2, RequestKeeps DEF WellCharged, WellMoved
    <3>2. PICK n \in Nat : /\ Booked(g) = n + Own(bill, r, g)
                           /\ Booked(g)' = n + Own(bill', r, g)
      BY <2>1, <3>1, BookedChange
    <3>3. /\ remaining'[g] + usage'[g] = remaining[g] + usage[g]
          /\ Own(bill', r, g) + usage[g] <= Own(bill, r, g) + usage'[g]
      BY <2>1, <2>2, BooksWhatItDraws
    <3>4. Own(bill, r, g) \in Nat /\ Own(bill', r, g) \in Nat
          /\ usage[g] \in Nat /\ usage'[g] \in Nat
      BY <2>1 DEF Own, TypeOK
    <3> QED BY <2>1, <3>2, <3>3, <3>4
  <2>3. ASSUME bill' = bill, remaining' = remaining, usage' = usage
        PROVE  remaining'[g] + usage'[g] = GrantCredit /\ Booked(g)' <= usage'[g]
    BY <2>1, <2>3 DEF Booked
  <2>4. OtherStep => bill' = bill /\ remaining' = remaining /\ usage' = usage
    BY <2>1, OtherMovesNone
  <2>5. UNCHANGED vars => bill' = bill /\ remaining' = remaining /\ usage' = usage
    BY DEF vars, database
  <2> QED BY <2>2, <2>3, <2>4, <2>5, StepCases
<1> QED BY <1>1, <1>2, BillingInvariant, PTL DEF Spec

-----------------------------------------------------------------------------
(* The charge as a whole.                                                   *)

Settled(r, c) ==
    /\ stage' = [stage EXCEPT ![r] = "settled"]
    /\ charge' = [charge EXCEPT ![r] = c]

(* A step of one request shows in its own part of the charges alone. *)
LEMMA OneIsCharged ==
    ASSUME NEW r \in Request, OthersStay(r), UNCHANGED <<mode, overage>>
    PROVE  /\ stage' = [stage EXCEPT ![r] = Stage(r)']
           /\ charge' = [charge EXCEPT ![r] = Taken(r)']
           /\ UNCHANGED <<price, planned, allowing>>
           /\ stage[r] = Stage(r) /\ charge[r] = Taken(r)
           /\ price[r] = Amount(r) /\ (r \in planned <=> mode[r] = Plan)
<1>1. \A x \in Request \ {r} : Stage(x)' = Stage(x) /\ Taken(x)' = Taken(x)
  BY DEF OthersStay, Stage, Taken, At
<1>2. stage' = [stage EXCEPT ![r] = Stage(r)']
  BY <1>1 DEF stage
<1>3. charge' = [charge EXCEPT ![r] = Taken(r)']
  BY <1>1 DEF charge
<1>4. UNCHANGED <<price, planned, allowing>>
  BY DEF price, planned, allowing, Amount
<1>5. /\ stage[r] = Stage(r) /\ charge[r] = Taken(r)
      /\ price[r] = Amount(r) /\ (r \in planned <=> mode[r] = Plan)
  BY DEF stage, charge, price, planned
<1> QED BY <1>2, <1>3, <1>4, <1>5

(* A step that shows nothing of the charge. *)
LEMMA ChargeStutters ==
    ASSUME NEW r \in Request, OthersStay(r), UNCHANGED <<mode, overage, remaining>>,
           Stage(r)' = Stage(r), Taken(r)' = Taken(r)
    PROVE  UNCHANGED Ch!vars
<1>1. stage' = [stage EXCEPT ![r] = stage[r]] /\ charge' = [charge EXCEPT ![r] = charge[r]]
      /\ UNCHANGED <<price, planned, allowing>>
  BY OneIsCharged
<1>2. stage' = stage /\ charge' = charge
  BY <1>1 DEF stage, charge
<1> QED BY <1>1, <1>2 DEF Ch!vars, Ch!terms

(* The charge that fails is waived for a plan key, and for a wallet key is   *)
(* still paid in full. *)
LEMMA FailureIsACharge ==
    ASSUME TypeOK, TypeOK', NEW r \in Request, Placed(r), OthersStay(r),
           UNCHANGED <<mode, overage, remaining>>,
           pc[r] \in {"grant", "consume", "wallet"}, ChargeFailed(r)
    PROVE  Ch!GiveUp(r) \/ Ch!Pay(r)
<1>1. /\ mode[r] \in allModes /\ bill \in [Request -> Bill]
      /\ pc'[r] = "fold" /\ bill'[r] = Fallback(r)
  BY DEF TypeOK, ChargeFailed, Go, Bill
<1>2. Stage(r) = "due" /\ Stage(r)' = "settled" /\ Taken(r)' = Fallback(r)
  BY <1>1 DEF Stage, Taken, At
<1>3. Settled(r, Fallback(r)) /\ UNCHANGED <<price, planned, allowing, remaining>>
      /\ stage[r] = "due" /\ charge[r] = Taken(r)
      /\ price[r] = Amount(r) /\ (r \in planned <=> mode[r] = Plan)
  BY <1>2, OneIsCharged DEF Settled
<1>4. CASE mode[r] = Plan
  <2>1. Fallback(r) = Ch!Nothing
    BY <1>4 DEF Fallback, NoBill, Ch!Nothing, Plan, Payg
  <2> QED BY <1>3, <1>4, <2>1 DEF Settled, Ch!GiveUp, Ch!Settle, Ch!terms
<1>5. CASE mode[r] = Payg
  <2>1. Taken(r) = NoBill /\ r \notin planned
    BY <1>3, <1>5 DEF Taken, Placed, At, Payg, Plan
  <2>2. Amount(r) \in Nat
    BY AmountType
  <2>3. price[r] - charge[r].plan = Amount(r)
    BY <1>3, <2>1, <2>2 DEF NoBill
  <2>4. Fallback(r) = [charge[r] EXCEPT !.wallet = price[r] - charge[r].plan]
    <3>1. Fallback(r) = [NoBill EXCEPT !.wallet = Amount(r)]
      BY <1>5 DEF Fallback
    <3> QED BY <1>3, <2>1, <2>3, <3>1
  <2> QED BY <1>3, <2>1, <2>4 DEF Settled, Ch!Pay, Ch!MayPay, Ch!Settle, Ch!terms
<1> QED BY <1>1, <1>4, <1>5 DEF allModes

(* Consuming credit draws the price, or what a grant has of it: in vain if   *)
(* the plan has no overage for the rest, or if the draw is not reported. *)
DrawStep(r) ==
    \E g \in GrantId : \E n \in 0..remaining[g] :
        Ch!DrawPrice(r, g, n) \/ Ch!DrawRest(r, g, n) \/ Ch!DrawInVain(r, g, n)

LEMMA ConsumeIsADraw ==
    ASSUME TypeOK, TypeOK', NEW r \in Request, Placed(r), OthersStay(r),
           UNCHANGED <<mode, overage>>, Consume(r) \/ ConsumeUnseen(r)
    PROVE  DrawStep(r)
<1> DEFINE g == bill[r].grant
           used == Drawn(r)
<1>1. /\ pc[r] = "consume"
      /\ remaining' = [remaining EXCEPT ![g] = @ - used]
      /\ \/ ChargeFailed(r)
         \/ /\ bill' = [bill EXCEPT ![r].plan = used]
            /\ \/ Amount(r) - used <= Tolerance /\ Go(r, "fold")
               \/ Amount(r) - used > Tolerance /\ overage[g] /\ Go(r, "wallet")
  <2>1. pc[r] = "consume" /\ Draw(r)
    BY DEF Consume, ConsumeUnseen, At
  <2>2. \/ ChargeFailed(r)
        \/ /\ bill' = [bill EXCEPT ![r].plan = used]
           /\ ~(Amount(r) - used > Tolerance /\ ~overage[g])
           /\ IF Amount(r) - used <= Tolerance THEN Go(r, "fold") ELSE Go(r, "wallet")
    BY DEF Consume, ConsumeUnseen
  <2>3. Amount(r) - used <= Tolerance \/ Amount(r) - used > Tolerance
    <3>1. used \in Nat /\ Amount(r) \in Nat /\ Tolerance \in Nat
      BY <2>1, DrawnType, AmountType, BillingAssumption DEF Placed, At, BillingAssumption
    <3> HIDE DEF used
    <3> QED BY <3>1
  <2>4. remaining' = [remaining EXCEPT ![g] = @ - used]
    BY <2>1 DEF Draw
  <2> HIDE DEF g, used
  <2> QED BY <2>1, <2>2, <2>3, <2>4
<1>2. /\ mode[r] = Plan /\ g # 0 /\ bill[r].plan = 0 /\ bill[r].wallet = 0
      /\ bill \in [Request -> Bill] /\ bill[r] \in Bill
  BY <1>1 DEF Placed, At, TypeOK, Bill
<1>3. /\ g \in GrantId /\ used \in Nat /\ remaining[g] \in Nat /\ used <= remaining[g]
      /\ 2 * (used - Amount(r)) <= Grain
      /\ used = remaining[g] \/ 2 * (Amount(r) - used) <= Grain
  BY <1>2, DrawnType
<1>4. Stage(r) = "due" /\ Taken(r) = Ch!Nothing
  BY <1>1 DEF Stage, Taken, At, NoBill, Ch!Nothing
<1>5. /\ stage' = [stage EXCEPT ![r] = Stage(r)']
      /\ charge' = [charge EXCEPT ![r] = Taken(r)']
      /\ UNCHANGED <<price, planned, allowing>>
      /\ stage[r] = "due" /\ charge[r] = Ch!Nothing
      /\ price[r] = Amount(r) /\ r \in planned
  BY <1>2, <1>4, OneIsCharged
<1> DEFINE b == [grant |-> g, plan |-> used, wallet |-> 0]
<1>6. bill' = [bill EXCEPT ![r].plan = used] => bill'[r] = b
  <2>1. [bill[r] EXCEPT !.plan = used] = b
    <3>1. bill[r] = [grant |-> g, plan |-> 0, wallet |-> 0]
      BY <1>2 DEF Bill
    <3> HIDE DEF g, used
    <3>2. [[grant |-> g, plan |-> 0, wallet |-> 0] EXCEPT !.plan = used] = b
      OBVIOUS
    <3> QED BY <3>1, <3>2
  <2> QED BY <1>2, <2>1
<1>7. g \in allowing <=> overage[g]
  BY <1>3 DEF allowing
<1> HIDE DEF g, used, b
<1>8. Ch!Draw(r, g, used) /\ used \in 0..remaining[g]
  <2>1. used \in 0..remaining[g]
    BY <1>3
  <2>2. Ch!IsDraw(g, price[r], used)
    BY <1>3, <1>5 DEF Ch!IsDraw
  <2> QED BY <1>1, <1>5, <2>1, <2>2 DEF Ch!Draw, Ch!terms
<1>9. CASE ChargeFailed(r)
  <2>1. pc'[r] = "fold" /\ bill'[r] = Ch!Nothing
    BY <1>2, <1>9 DEF ChargeFailed, Go, Fallback, NoBill, Ch!Nothing, TypeOK, Plan, Payg
  <2>2. Stage(r)' = "settled" /\ Taken(r)' = Ch!Nothing
    BY <2>1 DEF Stage, Taken, At
  <2>3. Ch!DrawInVain(r, g, used)
    BY <1>5, <1>8, <2>2 DEF Ch!DrawInVain, Ch!Settle
  <2> QED BY <1>3, <1>8, <2>3 DEF DrawStep
<1>10. CASE /\ bill' = [bill EXCEPT ![r].plan = used]
            /\ Amount(r) - used <= Tolerance /\ Go(r, "fold")
  <2>1. pc'[r] = "fold" /\ bill'[r] = b
    BY <1>6, <1>10 DEF Go, TypeOK
  <2>2. Stage(r)' = "settled" /\ Taken(r)' = b
    BY <2>1 DEF Stage, Taken, At
  <2>3. Ch!DrawPrice(r, g, used)
    BY <1>5, <1>8, <1>10, <2>2 DEF Ch!DrawPrice, Ch!Settle, b
  <2> QED BY <1>3, <1>8, <2>3 DEF DrawStep
<1>11. CASE /\ bill' = [bill EXCEPT ![r].plan = used]
            /\ Amount(r) - used > Tolerance /\ overage[g] /\ Go(r, "wallet")
  <2>1. pc'[r] = "wallet" /\ bill'[r] = b
    BY <1>6, <1>11 DEF Go, TypeOK
  <2>2. Stage(r)' = "due" /\ Taken(r)' = b
    BY <2>1 DEF Stage, Taken, At
  <2>3. stage' = stage
    BY <1>5, <2>2 DEF stage
  <2>4. Ch!DrawRest(r, g, used)
    BY <1>5, <1>7, <1>8, <1>11, <2>2, <2>3 DEF Ch!DrawRest, b
  <2> QED BY <1>3, <1>8, <2>4 DEF DrawStep
<1> QED BY <1>1, <1>9, <1>10, <1>11

(* The wallet pays what is due, where it may be asked. *)
LEMMA WalletPays ==
    ASSUME TypeOK, TypeOK', NEW r \in Request, Placed(r), OthersStay(r),
           UNCHANGED <<mode, overage>>, ChargeWallet(r)
    PROVE  Ch!Pay(r)
<1>1. /\ pc[r] = "wallet" /\ bill' = [bill EXCEPT ![r].wallet = Owed(r)] /\ Go(r, "fold")
      /\ remaining' = remaining
  BY DEF ChargeWallet, At, database
<1>2. bill \in [Request -> Bill] /\ bill[r] \in Bill /\ mode[r] \in allModes
  BY DEF TypeOK, Bill
<1>3. pc'[r] = "fold" /\ bill'[r] = [bill[r] EXCEPT !.wallet = Owed(r)]
  BY <1>1, <1>2 DEF Go, TypeOK
<1>4. /\ Stage(r) = "due" /\ Stage(r)' = "settled"
      /\ Taken(r) = bill[r] /\ Taken(r)' = [bill[r] EXCEPT !.wallet = Owed(r)]
  BY <1>1, <1>3 DEF Stage, Taken, At
<1>5. /\ Settled(r, [bill[r] EXCEPT !.wallet = Owed(r)])
      /\ UNCHANGED <<price, planned, allowing>>
      /\ stage[r] = "due" /\ charge[r] = bill[r]
      /\ price[r] = Amount(r) /\ (r \in planned <=> mode[r] = Plan)
  BY <1>4, OneIsCharged DEF Settled
<1>6. Owed(r) = price[r] - charge[r].plan
  BY <1>5 DEF Owed
<1>7. Ch!MayPay(r)
  <2> SUFFICES ASSUME mode[r] = Plan
               PROVE  \E g \in allowing :
                         /\ charge[r].grant \in {0, g}
                         /\ \/ remaining[g] = 0
                            \/ /\ charge[r].grant = g
                               /\ 2 * (price[r] - charge[r].plan) <= Grain
    BY <1>5 DEF Ch!MayPay
  <2>1. MayAskWallet(r)
    BY <1>1 DEF Placed, At, Payg, Plan
  <2>2. CASE bill[r].grant = 0
    <3>1. PICK g \in GrantId : overage[g] /\ remaining[g] = 0
      BY <2>1, <2>2 DEF MayAskWallet
    <3> QED BY <1>5, <2>2, <3>1 DEF allowing
  <2>3. CASE bill[r].grant # 0
    <3>1. bill[r].grant \in GrantId
      BY <2>3, DrawnType
    <3> QED BY <1>5, <2>1, <2>3, <3>1 DEF MayAskWallet, allowing
  <2> QED BY <2>2, <2>3
<1> QED BY <1>1, <1>5, <1>6, <1>7 DEF Settled, Ch!Pay, Ch!Settle, Ch!terms

(* Before the charge there is only to say whether something will be due. *)
LEMMA BeforeTheCharge ==
    ASSUME TypeOK, TypeOK', NEW r \in Request, Placed(r), OthersStay(r),
           UNCHANGED <<mode, overage, remaining, bill>>,
           pc[r] \in {"arrive", "cold", "serve"}
    PROVE  /\ pc'[r] \in {"arrive", "cold", "serve"} => UNCHANGED Ch!vars
           /\ pc'[r] \in {"grant", "wallet"} => Ch!Serve(r)
           /\ pc'[r] \in {"refused", "done"} => Ch!Waive(r)
<1>1. bill[r] = NoBill /\ bill'[r] = NoBill
  BY DEF Placed
<1>2. Stage(r) = "open" /\ Taken(r) = NoBill
  BY <1>1 DEF Stage, Taken, At
<1>3. Taken(r)' = NoBill
  BY <1>1 DEF Taken, At
<1>4. /\ stage' = [stage EXCEPT ![r] = Stage(r)']
      /\ charge' = [charge EXCEPT ![r] = NoBill]
      /\ UNCHANGED <<price, planned, allowing>>
      /\ stage[r] = "open" /\ charge[r] = NoBill
  BY <1>2, <1>3, OneIsCharged
<1>5. charge' = charge
  BY <1>4 DEF charge
<1>6. pc'[r] \in {"arrive", "cold", "serve"} => UNCHANGED Ch!vars
  <2> SUFFICES ASSUME pc'[r] \in {"arrive", "cold", "serve"} PROVE UNCHANGED Ch!vars
    OBVIOUS
  <2>1. Stage(r)' = Stage(r)
    BY <1>2 DEF Stage
  <2> QED BY <1>2, <1>3, <2>1, ChargeStutters
<1>7. pc'[r] \in {"grant", "wallet"} => Ch!Serve(r)
  <2> SUFFICES ASSUME pc'[r] \in {"grant", "wallet"} PROVE Ch!Serve(r)
    OBVIOUS
  <2>1. Stage(r)' = "due"
    BY DEF Stage
  <2> QED BY <1>4, <1>5, <2>1 DEF Ch!Serve, Ch!terms
<1>8. pc'[r] \in {"refused", "done"} => Ch!Waive(r)
  <2> SUFFICES ASSUME pc'[r] \in {"refused", "done"} PROVE Ch!Waive(r)
    OBVIOUS
  <2>1. Stage(r)' = "settled"
    BY DEF Stage
  <2>2. NoBill = Ch!Nothing
    BY DEF NoBill, Ch!Nothing
  <2> QED BY <1>4, <2>1, <2>2 DEF Ch!Waive, Ch!Settle, Ch!terms
<1> QED BY <1>6, <1>7, <1>8

ChargeStep(r) ==
    \/ UNCHANGED Ch!vars
    \/ Ch!Serve(r) \/ Ch!Waive(r) \/ Ch!Pay(r) \/ Ch!GiveUp(r)
    \/ DrawStep(r)

(* Every step of a request is one of the charge, or none. *)
LEMMA RequestCharges ==
    ASSUME BillingInv, BillingInv', NEW r \in Request, RequestStep(r)
    PROVE  ChargeStep(r)
<1>1. TypeOK /\ TypeOK' /\ Placed(r) /\ RightlyBilled(r)
  BY DEF BillingInv
<1>2. OthersStay(r) /\ UNCHANGED <<mode, overage>>
  BY <1>1, RequestKeeps DEF WellCharged, WellMoved
<1>3. CASE Admit(r) \/ AdmitCold(r) \/ Seed(r) \/ SeedFails(r) \/ Serve(r) \/ ServeFree(r)
  <2>1. /\ pc[r] \in {"arrive", "cold", "serve"}
        /\ UNCHANGED <<remaining, bill>>
        /\ pc'[r] \in {"cold", "serve", "refused", "grant", "wallet", "done"}
    BY <1>1, <1>3 DEF Admit, AdmitCold, Seed, SeedFails, Serve, ServeFree, At, Go, Verdict,
       database, TypeOK
  <2> QED BY <1>1, <1>2, <2>1, BeforeTheCharge DEF ChargeStep
<1>4. CASE ReadGrant(r)
  <2>1. /\ pc[r] = "grant" /\ UNCHANGED remaining
        /\ \/ ChargeFailed(r)
           \/ bill' = [bill EXCEPT ![r].grant = grants] /\ Go(r, "consume")
           \/ bill' = bill /\ Go(r, "wallet")
    BY <1>4 DEF ReadGrant, ChargeTheRest, At, database
  <2>2. bill[r] = NoBill
    BY <1>1, <2>1 DEF Placed
  <2>3. CASE ChargeFailed(r)
    BY <1>1, <1>2, <2>1, <2>3, FailureIsACharge DEF ChargeStep
  <2>4. CASE ~ChargeFailed(r)
    <3>1. pc'[r] \in {"consume", "wallet"} /\ (pc'[r] = "wallet" => bill' = bill)
      BY <1>1, <2>1, <2>4 DEF Go, TypeOK
    <3>2. Stage(r)' = Stage(r) /\ Taken(r)' = Taken(r)
      BY <2>1, <2>2, <3>1 DEF Stage, Taken, At
    <3> QED BY <1>2, <2>1, <3>2, ChargeStutters DEF ChargeStep
  <2> QED BY <2>3, <2>4
<1>5. CASE Consume(r) \/ ConsumeUnseen(r)
  BY <1>1, <1>2, <1>5, ConsumeIsADraw DEF ChargeStep
<1>6. CASE ChargePlanFails(r) \/ ChargeWalletFails(r)
  <2>1. pc[r] \in {"grant", "consume", "wallet"} /\ ChargeFailed(r) /\ UNCHANGED remaining
    BY <1>6 DEF ChargePlanFails, ChargeWalletFails, At, database
  <2> QED BY <1>1, <1>2, <2>1, FailureIsACharge DEF ChargeStep
<1>7. CASE ChargeWallet(r)
  BY <1>1, <1>2, <1>7, WalletPays DEF ChargeStep
<1>8. CASE FoldPlan(r) \/ FoldWallet(r) \/ Enqueue(r)
  <2>1. /\ pc[r] \in {"fold", "foldWallet", "enqueue"}
        /\ pc'[r] \in {"foldWallet", "enqueue", "done"}
        /\ UNCHANGED <<remaining, bill>>
    BY <1>1, <1>8 DEF FoldPlan, FoldWallet, Enqueue, At, Go, database, TypeOK
  <2>2. Stage(r)' = Stage(r) /\ Taken(r)' = Taken(r)
    BY <2>1 DEF Stage, Taken, At
  <2> QED BY <1>2, <2>1, <2>2, ChargeStutters DEF ChargeStep
<1> QED BY <1>3, <1>4, <1>5, <1>6, <1>7, <1>8 DEF RequestStep

(* Whichever queries a charge takes, whoever is charged at the same time and *)
(* whatever fails in between, an unreported commit included, Charge settles  *)
(* the price of a served request once, to the rounding of the database: from *)
(* the wallet, from a grant, or from a grant and the wallet where the plan   *)
(* has overage and the grant cannot give more.  Or it gives the price up, in *)
(* which case what it drew from a grant is lost to the user. *)
THEOREM ChargingCorrect == Spec => ImplementsCharging
<1>1. Init => Ch!Init
  <2> SUFFICES ASSUME Init PROVE Ch!Init
    OBVIOUS
  <2>1. price \in [Request -> Nat \ {0}]
    <3> SUFFICES ASSUME NEW r \in Request PROVE Amount(r) \in Nat \ {0}
      BY DEF price
    <3>1. Cost[r] \in Nat \ {0} /\ UserRatio \in Nat \ {0} /\ PlanRatio \in Nat \ {0}
      BY BillingAssumption DEF BillingAssumption
    <3>2. \A m, n \in Nat \ {0} : m * n \in Nat \ {0}
      OBVIOUS
    <3> QED BY <3>1, <3>2 DEF Amount
  <2>2. remaining \in [GrantId -> Nat]
    BY BillingAssumption DEF Init, BillingAssumption
  <2>3. stage = [r \in Request |-> "open"] /\ charge = [r \in Request |-> Ch!Nothing]
    BY DEF Init, stage, charge, Stage, Taken, At, NoBill, Ch!Nothing
  <2>4. planned \in SUBSET Request /\ allowing \in SUBSET GrantId
    BY DEF planned, allowing
  <2> QED BY <2>1, <2>2, <2>3, <2>4 DEF Ch!Init
<1>2. BillingInv /\ BillingInv' /\ [Next]_vars => [Ch!Next]_(Ch!vars)
  <2> SUFFICES ASSUME BillingInv, BillingInv', [Next]_vars PROVE [Ch!Next]_(Ch!vars)
    OBVIOUS
  <2>1. ASSUME NEW r \in Request, RequestStep(r)
        PROVE  [Ch!Next]_(Ch!vars)
    BY <2>1, RequestCharges DEF ChargeStep, DrawStep, Ch!Next
  <2>2. ASSUME UNCHANGED <<mode, overage, remaining, pc, bill>>
        PROVE  UNCHANGED Ch!vars
    BY <2>2 DEF Ch!vars, Ch!terms, price, planned, allowing, stage, charge, Stage, Taken,
       Amount, At
  <2>3. OtherStep \/ UNCHANGED vars => UNCHANGED <<mode, overage, remaining, pc, bill>>
    BY OtherMovesNone DEF BillingInv, vars, fixed, database
  <2> QED BY <2>1, <2>2, <2>3, StepCases
<1> QED BY <1>1, <1>2, BillingInvariant, PTL DEF Spec, ImplementsCharging, Ch!Spec

(* What Charging promises of any system that implements it: what is settled  *)
(* is settled whole, to the tolerance and the rounding, and what is not is   *)
(* at most drawn from a grant. *)
Money == [grant : GrantId \cup {0}, plan : Nat, wallet : Nat]
WholePrice(usd, p) == p - usd <= Tolerance /\ 2 * (usd - p) <= Grain
Whole(s, c, p) ==
    /\ s # "settled" => c.wallet = 0 /\ c.plan <= p
    /\ s = "settled" => c.plan + c.wallet = 0 \/ WholePrice(c.plan + c.wallet, p)

ChargesAreWhole ==
    /\ price \in [Request -> Nat \ {0}] /\ remaining \in [GrantId -> Nat]
    /\ stage \in [Request -> {"open", "due", "settled"}] /\ charge \in [Request -> Money]
    /\ \A r \in Request : Whole(stage[r], charge[r], price[r])

(* A step that changes one request's part keeps the others'. *)
LEMMA OneStaysWhole ==
    ASSUME ChargesAreWhole, UNCHANGED price, remaining' \in [GrantId -> Nat],
           NEW r \in Request, NEW s \in {"open", "due", "settled"}, NEW c \in Money,
           stage' = [stage EXCEPT ![r] = s], charge' = [charge EXCEPT ![r] = c],
           Whole(s, c, price[r])
    PROVE  ChargesAreWhole'
<1>1. /\ stage' \in [Request -> {"open", "due", "settled"}] /\ charge' \in [Request -> Money]
      /\ stage'[r] = s /\ charge'[r] = c
      /\ \A x \in Request \ {r} : stage'[x] = stage[x] /\ charge'[x] = charge[x]
  BY DEF ChargesAreWhole
<1>2. ASSUME NEW x \in Request PROVE Whole(stage'[x], charge'[x], price'[x])
  <2>1. CASE x = r
    BY <1>1, <2>1
  <2>2. CASE x # r
    BY <1>1, <2>2 DEF ChargesAreWhole
  <2> QED BY <2>1, <2>2
<1> QED BY <1>1, <1>2 DEF ChargesAreWhole, Whole

LEMMA ChargingIsWhole == Ch!Spec => []ChargesAreWhole
<1>0. /\ Ch!Nothing \in Money
      /\ Ch!Nothing.plan = 0 /\ Ch!Nothing.wallet = 0
      /\ Grain \in Nat /\ Tolerance \in Nat
  BY BillingAssumption DEF Ch!Nothing, Money, BillingAssumption
<1>1. Ch!Init => ChargesAreWhole
  <2> SUFFICES ASSUME Ch!Init PROVE ChargesAreWhole
    OBVIOUS
  <2>1. /\ price \in [Request -> Nat \ {0}] /\ remaining \in [GrantId -> Nat]
        /\ stage = [r \in Request |-> "open"] /\ charge = [r \in Request |-> Ch!Nothing]
    BY DEF Ch!Init
  <2>2. \A r \in Request : Whole("open", Ch!Nothing, price[r])
    BY <1>0, <2>1 DEF Whole
  <2> QED BY <1>0, <2>1, <2>2 DEF ChargesAreWhole
<1>2. ChargesAreWhole /\ [Ch!Next]_(Ch!vars) => ChargesAreWhole'
  <2> SUFFICES ASSUME ChargesAreWhole, [Ch!Next]_(Ch!vars) PROVE ChargesAreWhole'
    OBVIOUS
  <2>1. /\ price \in [Request -> Nat \ {0}] /\ remaining \in [GrantId -> Nat]
        /\ stage \in [Request -> {"open", "due", "settled"}] /\ charge \in [Request -> Money]
        /\ \A r \in Request : Whole(stage[r], charge[r], price[r])
    BY DEF ChargesAreWhole
  <2>2. ASSUME NEW r \in Request, Ch!Serve(r)
        PROVE  ChargesAreWhole'
    <3>1. /\ stage[r] = "open" /\ stage' = [stage EXCEPT ![r] = "due"]
          /\ UNCHANGED <<price, remaining, charge>>
      BY <2>2 DEF Ch!Serve, Ch!terms
    <3>2. charge' = [charge EXCEPT ![r] = charge[r]] /\ charge[r] \in Money
      BY <2>1, <3>1
    <3>3. Whole("due", charge[r], price[r])
      BY <2>1, <3>1 DEF Whole
    <3> QED BY <2>1, <3>1, <3>2, <3>3, OneStaysWhole
  <2>3. ASSUME NEW r \in Request, Ch!Waive(r) \/ Ch!GiveUp(r)
        PROVE  ChargesAreWhole'
    <3>1. /\ stage' = [stage EXCEPT ![r] = "settled"]
          /\ charge' = [charge EXCEPT ![r] = Ch!Nothing]
          /\ UNCHANGED <<price, remaining>>
      BY <2>3 DEF Ch!Waive, Ch!GiveUp, Ch!Settle, Ch!terms
    <3>2. Whole("settled", Ch!Nothing, price[r])
      BY <1>0 DEF Whole
    <3> QED BY <1>0, <2>1, <3>1, <3>2, OneStaysWhole
  <2>4. ASSUME NEW r \in Request, Ch!Pay(r)
        PROVE  ChargesAreWhole'
    <3> DEFINE c == [charge[r] EXCEPT !.wallet = price[r] - charge[r].plan]
    <3>1. /\ stage[r] = "due" /\ stage' = [stage EXCEPT ![r] = "settled"]
          /\ charge' = [charge EXCEPT ![r] = c]
          /\ UNCHANGED <<price, remaining>>
      BY <2>4 DEF Ch!Pay, Ch!Settle, Ch!terms
    <3>2. charge[r] \in Money /\ price[r] \in Nat /\ charge[r].plan <= price[r]
      BY <2>1, <3>1 DEF Whole
    <3>3. c \in Money /\ c.plan = charge[r].plan /\ c.wallet = price[r] - charge[r].plan
      BY <3>2 DEF Money
    <3> HIDE DEF c
    <3>4. Whole("settled", c, price[r])
      <4>1. charge[r].plan \in Nat
        BY <3>2 DEF Money
      <4>2. c.plan + c.wallet = price[r]
        BY <3>2, <3>3, <4>1
      <4>3. WholePrice(price[r], price[r])
        BY <1>0, <3>2 DEF WholePrice
      <4> QED BY <4>2, <4>3 DEF Whole
    <3> QED BY <2>1, <3>1, <3>3, <3>4, OneStaysWhole
  <2>5. ASSUME NEW r \in Request, NEW g \in GrantId, NEW n \in 0..remaining[g],
               Ch!Draw(r, g, n)
        PROVE  /\ stage[r] = "due" /\ UNCHANGED price /\ remaining' \in [GrantId -> Nat]
               /\ n \in Nat /\ price[r] \in Nat
               /\ [grant |-> g, plan |-> n, wallet |-> 0] \in Money
               /\ 2 * (n - price[r]) <= Grain
    <3>1. /\ stage[r] = "due" /\ UNCHANGED price
          /\ remaining' = [remaining EXCEPT ![g] = @ - n]
          /\ 2 * (n - price[r]) <= Grain
      BY <2>5 DEF Ch!Draw, Ch!IsDraw, Ch!terms
    <3>2. remaining[g] \in Nat /\ price[r] \in Nat
      BY <2>1
    <3>3. n \in Nat /\ remaining[g] - n \in Nat
      BY <3>2
    <3>4. remaining' \in [GrantId -> Nat]
      BY <2>1, <3>1, <3>3
    <3> QED BY <3>1, <3>2, <3>3, <3>4 DEF Money
  <2>6. ASSUME NEW r \in Request, NEW g \in GrantId, NEW n \in 0..remaining[g],
               Ch!DrawPrice(r, g, n) \/ Ch!DrawRest(r, g, n) \/ Ch!DrawInVain(r, g, n)
        PROVE  ChargesAreWhole'
    <3> DEFINE c == [grant |-> g, plan |-> n, wallet |-> 0]
    <3>1. Ch!Draw(r, g, n)
      BY <2>6 DEF Ch!DrawPrice, Ch!DrawRest, Ch!DrawInVain
    <3>2. /\ stage[r] = "due" /\ UNCHANGED price /\ remaining' \in [GrantId -> Nat]
          /\ n \in Nat /\ price[r] \in Nat /\ c \in Money /\ 2 * (n - price[r]) <= Grain
      BY <2>5, <3>1
    <3>3. CASE Ch!DrawPrice(r, g, n)
      <4>1. /\ price[r] - n <= Tolerance
            /\ stage' = [stage EXCEPT ![r] = "settled"]
            /\ charge' = [charge EXCEPT ![r] = c]
        BY <3>3 DEF Ch!DrawPrice, Ch!Settle
      <4>2. c.plan + c.wallet = n
        BY <3>2
      <4>3. Whole("settled", c, price[r])
        BY <3>2, <4>1, <4>2 DEF Whole, WholePrice
      <4> HIDE DEF c
      <4> QED BY <3>2, <4>1, <4>3, OneStaysWhole
    <3>4. CASE Ch!DrawRest(r, g, n)
      <4>1. /\ price[r] - n > Tolerance /\ stage' = stage
            /\ charge' = [charge EXCEPT ![r] = c]
        BY <3>4 DEF Ch!DrawRest
      <4>2. stage' = [stage EXCEPT ![r] = "due"]
        BY <2>1, <3>2, <4>1
      <4>3. n <= price[r]
        BY <1>0, <3>2, <4>1
      <4>4. Whole("due", c, price[r])
        BY <4>3 DEF Whole
      <4> HIDE DEF c
      <4> QED BY <3>2, <4>1, <4>2, <4>4, OneStaysWhole
    <3>5. CASE Ch!DrawInVain(r, g, n)
      <4>1. /\ stage' = [stage EXCEPT ![r] = "settled"]
            /\ charge' = [charge EXCEPT ![r] = Ch!Nothing]
        BY <3>5 DEF Ch!DrawInVain, Ch!Settle
      <4>2. Whole("settled", Ch!Nothing, price[r])
        BY <1>0 DEF Whole
      <4> QED BY <1>0, <3>2, <4>1, <4>2, OneStaysWhole
    <3> QED BY <2>6, <3>3, <3>4, <3>5
  <2>7. CASE UNCHANGED Ch!vars
    BY <2>7 DEF Ch!vars, Ch!terms, ChargesAreWhole, Whole
  <2> QED BY <2>2, <2>3, <2>4, <2>6, <2>7 DEF Ch!Next
<1> QED BY <1>1, <1>2, PTL DEF Ch!Spec

(* Nobody ends up with part of a price: a charge that is over has billed a    *)
(* request what it costs, short of the tolerance and rounded up at most by   *)
(* half a step, or nothing, also when the wallet fails after the plan has    *)
(* paid its share.  It follows from Charging alone. *)
THEOREM AllOrNothing ==
    Spec => [](\A r \in Request :
                  pc[r] \in {"fold", "foldWallet", "enqueue", "done"} =>
                     \/ bill[r].plan + bill[r].wallet = 0
                     \/ WholePrice(bill[r].plan + bill[r].wallet, Amount(r)))
<1>1. ChargesAreWhole =>
         \A r \in Request :
            pc[r] \in {"fold", "foldWallet", "enqueue", "done"} =>
               \/ bill[r].plan + bill[r].wallet = 0
               \/ WholePrice(bill[r].plan + bill[r].wallet, Amount(r))
  <2> SUFFICES ASSUME ChargesAreWhole, NEW r \in Request,
                      pc[r] \in {"fold", "foldWallet", "enqueue", "done"}
               PROVE  \/ bill[r].plan + bill[r].wallet = 0
                      \/ WholePrice(bill[r].plan + bill[r].wallet, Amount(r))
    OBVIOUS
  <2>1. stage[r] = "settled" /\ charge[r] = bill[r] /\ price[r] = Amount(r)
    BY DEF stage, charge, price, Stage, Taken, At
  <2> QED BY <2>1 DEF ChargesAreWhole, Whole
<1> QED BY <1>1, ChargingCorrect, ChargingIsWhole, PTL DEF ImplementsCharging

-----------------------------------------------------------------------------
(* The cached wallet.                                                       *)

(* The queries whose result may become the cached wallet. *)
ForWallet(p) == p = Payg \/ (p \in Request /\ mode[p] = Payg /\ At(p, "cold"))

(* Short of top-ups the entry, and every result that may become the entry,   *)
(* count no charge that the cache has not been told of. *)
WalletInv ==
    topUps = 0 =>
        /\ cache[Payg].known => cache[Payg].usd >= credits - Charges(Charged)
        /\ \A p \in Reader : ForWallet(p) =>
              /\ reading[p].stage = "spent" => reading[p].usd >= credits
              /\ reading[p].stage = "got" =>
                    reading[p].usd >= credits - Charges(Charged)

(* What a charge costs the balance is a number. *)
Larges(b, t) == [r \in Request |-> Larger(b[r].wallet, t[r])]

LEMMA LargesType ==
    ASSUME TypeOK
    PROVE  /\ IsFiniteSet(Charged) /\ Charged \in SUBSET Request
           /\ \A r \in Request : /\ Larges(bill, table)[r] \in Nat
                                /\ bill[r].wallet <= Larges(bill, table)[r]
                                /\ table[r] <= Larges(bill, table)[r]
           /\ Charges(Charged) = Sum(Larges(bill, table), Charged)
           /\ Charges(Charged) \in Nat
<1>1. IsFiniteSet(Charged) /\ Charged \in SUBSET Request
  <2>1. Charged \in SUBSET Request
    BY DEF Charged
  <2> QED BY <2>1, BillingAssumption, FS_Subset DEF BillingAssumption
<1>2. ASSUME NEW r \in Request
      PROVE  /\ Larges(bill, table)[r] \in Nat
             /\ bill[r].wallet <= Larges(bill, table)[r]
             /\ table[r] <= Larges(bill, table)[r]
  <2>1. bill[r].wallet \in Nat /\ table[r] \in Nat
    BY DEF TypeOK
  <2> QED BY <2>1 DEF Larges, Larger
<1>3. Charges(Charged) = Sum(Larges(bill, table), Charged)
  BY DEF Charges, Larges
<1>4. Sum(Larges(bill, table), Charged) \in Nat
  BY <1>1, <1>2, SumType
<1> QED BY <1>1, <1>2, <1>3, <1>4

(* The database holds no charge that the cache has not been told of, and what *)
(* it holds is counted in full. *)
LEMMA StoredIsCharged ==
    ASSUME TypeOK, \A r \in Request : Placed(r)
    PROVE  Spent \in Nat /\ Spent <= Charges(Charged)
<1>1. \A r \in Request : table[r] \in Nat /\ (table[r] # 0 => r \in Charged)
  BY DEF TypeOK, Placed, Charged
<1> DEFINE h == Larges(bill, table)
<1>2. \A r \in Request : h[r] \in Nat /\ table[r] <= h[r]
  BY LargesType
<1>3. IsFiniteSet(Charged) /\ Charged \in SUBSET Request /\ Charges(Charged) = Sum(h, Charged)
  BY LargesType
<1> HIDE DEF h
<1>4. Sum(table, Request) <= Sum(h, Charged)
  BY <1>1, <1>2, <1>3, SumGrows
<1> QED BY <1>3, <1>4, SpentType DEF Spent

(* What the cache has been told of stays charged, at the same price, and the  *)
(* database forgets nothing of it. *)
ChargesStay ==
    /\ Charged \subseteq Charged'
    /\ \A r \in Charged' : bill'[r].wallet = bill[r].wallet
    /\ \A r \in Request : table[r] <= table'[r]

LEMMA SpentGrows ==
    ASSUME TypeOK, TypeOK', ChargesStay
    PROVE  /\ Charges(Charged)' \in Nat /\ Charges(Charged) \in Nat
           /\ Charges(Charged) <= Charges(Charged)'
<1> DEFINE f == Larges(bill, table)
           h == Larges(bill', table')
<1>1. /\ IsFiniteSet(Charged) /\ Charged \in SUBSET Request
      /\ \A r \in Request : f[r] \in Nat
      /\ Charges(Charged) = Sum(f, Charged) /\ Charges(Charged) \in Nat
  BY LargesType
<1>2. /\ IsFiniteSet(Charged') /\ Charged' \in SUBSET Request
  <2>1. Charged' \in SUBSET Request
    BY DEF Charged
  <2> QED BY <2>1, BillingAssumption, FS_Subset DEF BillingAssumption
<1>3. ASSUME NEW r \in Request
      PROVE  /\ h[r] \in Nat
             /\ bill'[r].wallet = bill[r].wallet /\ table[r] <= table'[r] => f[r] <= h[r]
  <2>1. /\ bill[r].wallet \in Nat /\ table[r] \in Nat
        /\ bill'[r].wallet \in Nat /\ table'[r] \in Nat
    BY DEF TypeOK
  <2> QED BY <2>1 DEF Larges, Larger
<1>4. Charges(Charged)' = Sum(h, Charged')
  BY DEF Charges, Larges, Larger
<1> HIDE DEF f, h
<1>5. \A r \in Charged : f[r] \in Nat /\ r \in Charged' /\ f[r] <= h[r]
  BY <1>1, <1>3 DEF ChargesStay
<1>6. \A r \in Charged' : h[r] \in Nat
  BY <1>2, <1>3
<1>7. Sum(f, Charged) <= Sum(h, Charged')
  BY <1>2, <1>5, <1>6, SumGrows
<1>8. Sum(h, Charged') \in Nat
  BY <1>2, <1>6, SumType
<1> QED BY <1>1, <1>4, <1>7, <1>8

(* No step bills anew what the cache has been told of. *)
LEMMA NoRebilling ==
    ASSUME BillingInv, BillingInv', Next
    PROVE  ChargesStay
<1>1. TypeOK /\ TypeOK' /\ \A r \in Request : Placed(r) /\ RightlyBilled(r)
  BY DEF BillingInv
<1>2. ASSUME NEW r \in Request, RequestStep(r)
      PROVE  ChargesStay
  <2>1. OthersStay(r)
    BY <1>1, <1>2, RequestKeeps DEF WellCharged, WellMoved
  <2>0. table' = table
    BY <1>2 DEF RequestStep, Admit, AdmitCold, Seed, SeedFails, Serve, ServeFree, ReadGrant,
       Consume, ConsumeUnseen, ChargePlanFails, ChargeWallet, ChargeWalletFails, FoldPlan,
       FoldWallet, Enqueue, records
  <2>4. \A x \in Request : table[x] <= table'[x]
    BY <1>1, <2>0 DEF TypeOK
  <2>2. CASE ReadGrant(r) \/ Consume(r) \/ ConsumeUnseen(r) \/ ChargePlanFails(r)
             \/ ChargeWallet(r) \/ ChargeWalletFails(r)
    <3>1. pc[r] \in {"grant", "consume", "wallet"} /\ rows' = rows
          /\ pc'[r] # "enqueue"
      BY <1>1, <2>2 DEF ReadGrant, Consume, ConsumeUnseen, ChargePlanFails, ChargeWallet,
         ChargeWalletFails, At, ChargeFailed, ChargeTheRest, Go, TypeOK, records
    <3>2. r \notin Charged /\ r \notin Charged'
      BY <1>1, <3>1 DEF Charged, Placed
    <3>3. \A x \in Request \ {r} : (x \in Charged <=> x \in Charged') /\ bill'[x] = bill[x]
      BY <2>1 DEF Charged, OthersStay
    <3> QED BY <2>4, <3>2, <3>3 DEF ChargesStay, Charged
  <2>3. CASE Admit(r) \/ AdmitCold(r) \/ Seed(r) \/ SeedFails(r) \/ Serve(r) \/ ServeFree(r)
             \/ FoldPlan(r) \/ FoldWallet(r) \/ Enqueue(r)
    <3>1. bill' = bill
      BY <2>3 DEF Admit, AdmitCold, Seed, SeedFails, Serve, ServeFree, FoldPlan, FoldWallet,
         Enqueue
    <3>2. r \in Charged => r \in Charged'
      BY <1>1, <2>3 DEF Charged, Admit, AdmitCold, Seed, SeedFails, Serve, ServeFree, FoldPlan,
         FoldWallet, Enqueue, At, TypeOK, records
    <3>3. \A x \in Request \ {r} : x \in Charged <=> x \in Charged'
      BY <2>1 DEF Charged, OthersStay
    <3> QED BY <2>4, <3>1, <3>2, <3>3 DEF ChargesStay, Charged
  <2> QED BY <1>2, <2>2, <2>3 DEF RequestStep
<1>3. ASSUME OtherStep
      PROVE  ChargesStay
  <2>1. pc' = pc /\ bill' = bill
    BY <1>1, <1>3, OtherMovesNone
  <2>2. \A x \in Request : (rows[x] # "none" => rows'[x] # "none") /\ table[x] <= table'[x]
    BY <1>1, <1>3, OtherRows
  <2> QED BY <2>1, <2>2 DEF ChargesStay, Charged
<1> QED BY <1>2, <1>3, StepCases

(* Telling the cache of a charge counts it once. *)
LEMMA FoldSpends ==
    ASSUME BillingInv, NEW r \in Request, FoldWallet(r)
    PROVE  /\ bill[r].wallet \in Nat
           /\ Charges(Charged)' = Charges(Charged) + bill[r].wallet
<1>1. TypeOK /\ Placed(r)
  BY DEF BillingInv
<1>2. /\ pc[r] \in {"fold", "foldWallet"} /\ pc' = [pc EXCEPT ![r] = "enqueue"]
      /\ bill' = bill /\ rows' = rows /\ table' = table
  BY DEF FoldWallet, Go, At, records
<1>3. r \notin Charged /\ Charged' = Charged \cup {r}
  BY <1>1, <1>2 DEF Charged, Placed, TypeOK
<1> DEFINE f == Larges(bill, table)
<1>4. /\ IsFiniteSet(Charged) /\ Charged \in SUBSET Request
      /\ \A x \in Request : f[x] \in Nat
      /\ Charges(Charged) = Sum(f, Charged)
  BY <1>1, LargesType
<1>5. Charges(Charged)' = Sum(f, Charged \cup {r})
  BY <1>2, <1>3 DEF Charges, Larges
<1>6. bill[r].wallet \in Nat /\ f[r] = bill[r].wallet
  <2>1. bill[r].wallet \in Nat /\ table[r] = 0
    BY <1>1, <1>2 DEF TypeOK, Placed
  <2> QED BY <2>1 DEF Larges, Larger
<1> HIDE DEF f
<1>7. \A x \in Charged \cup {r} : f[x] \in Nat
  BY <1>4
<1>8. Sum(f, Charged \cup {r}) = Sum(f, Charged) + f[r]
  BY <1>3, <1>4, <1>7, SumAdd
<1> QED BY <1>4, <1>5, <1>6, <1>8

(* What a query of one reader leaves to the others. *)
LEMMA QueryOf ==
    ASSUME TypeOK, NEW q \in Reader
    PROVE  /\ \A m \in allModes : StartReading(q, m) =>
                 /\ \A p \in Reader \ {q} : reading'[p] = reading[p]
                 /\ m = Payg => reading'[q] = [stage |-> "spent", usd |-> credits]
           /\ StartWalletRead(q) =>
                 /\ \A p \in Reader \ {q} : reading'[p] = reading[p]
                 /\ reading'[q] = [stage |-> "spent", usd |-> credits]
           /\ StopReading(q) =>
                 /\ \A p \in Reader \ {q} : reading'[p] = reading[p]
                 /\ reading'[q].stage = "off"
<1>1. ASSUME NEW m \in allModes, StartReading(q, m)
      PROVE  /\ \A p \in Reader \ {q} : reading'[p] = reading[p]
             /\ m = Payg => reading'[q] = [stage |-> "spent", usd |-> credits]
  <2>1. \A p \in Reader \ {q} : reading'[p] = reading[p]
    BY <1>1 DEF StartReading, TypeOK
  <2>2. m = Payg => reading' = [reading EXCEPT ![q] = [stage |-> "spent", usd |-> credits]]
    BY <1>1 DEF StartReading
  <2>3. m = Payg => reading'[q] = [stage |-> "spent", usd |-> credits]
    BY <2>2 DEF TypeOK
  <2> QED BY <2>1, <2>3
<1>2. StartWalletRead(q) =>
         /\ \A p \in Reader \ {q} : reading'[p] = reading[p]
         /\ reading'[q] = [stage |-> "spent", usd |-> credits]
  BY DEF StartWalletRead, TypeOK
<1>3. StopReading(q) =>
         /\ \A p \in Reader \ {q} : reading'[p] = reading[p]
         /\ reading'[q].stage = "off"
  BY DEF StopReading, NoRead, TypeOK
<1> QED BY <1>1, <1>2, <1>3

(* What may become of a query whose result may be cached: nothing, a start   *)
(* from the credits, an end, or a result that deducts what is stored. *)
QueryStep(p) ==
    \/ ForWallet(p) /\ reading'[p] = reading[p]
    \/ reading'[p] = [stage |-> "spent", usd |-> credits]
    \/ reading'[p].stage = "off"
    \/ /\ ForWallet(p) /\ reading[p].stage = "spent"
       /\ reading'[p] = [stage |-> "got", usd |-> Balance(p)]

LEMMA QuerySteps ==
    ASSUME BillingInv, Next, NEW p \in Reader, ForWallet(p)'
    PROVE  QueryStep(p)
<1>1. TypeOK /\ \A r \in Request : Placed(r) /\ RightlyBilled(r)
  BY DEF BillingInv
<1>2. Payg \in Reader /\ Plan \notin Request /\ Payg \notin Request /\ allModes \subseteq Reader
      /\ Request \subseteq Reader /\ Payg # Plan /\ \A m \in allModes : m \notin Request
  BY BillingAssumption DEF Reader, allModes, BillingAssumption, Payg, Plan
<1>3. mode' = mode
  BY DEF Next, RequestStep, Admit, AdmitCold, Seed, SeedFails, Serve, ServeFree, ReadGrant,
     Consume, ConsumeUnseen, ChargePlanFails, ChargeWallet, ChargeWalletFails, FoldPlan,
     FoldWallet, Enqueue, Flush, FlushUnnoticed, ReadSpent, AdmitFree, Refresh, RefreshFails, AddEntry, Credit, GrantPlan, fixed
<1>4. p # Payg => p \in Request /\ mode[p] = Payg /\ pc'[p] = "cold"
  BY <1>3 DEF ForWallet, At
<1>5. ASSUME p \in Request => pc'[p] = pc[p]
      PROVE  ForWallet(p)
  BY <1>4, <1>5 DEF ForWallet, At
<1>6. ASSUME NEW r \in Request, RequestStep(r)
      PROVE  QueryStep(p)
  <2>1. OthersStay(r)
    BY <1>1, <1>6, RequestKeeps DEF WellCharged, WellMoved
  <2>2. p # r => ForWallet(p)
    BY <1>5, <2>1 DEF OthersStay
  <2>3. CASE Admit(r)
    <3>1. /\ pc'[r] # "cold" /\ mode[r] \in allModes
          /\ StartReading(mode[r], mode[r]) \/ UNCHANGED reading
      BY <1>1, <2>3 DEF Admit, Go, Verdict, Consult, StartRefresh, TypeOK
    <3>2. p # r
      BY <1>2, <1>4, <3>1
    <3>3. CASE UNCHANGED reading
      BY <2>2, <3>2, <3>3 DEF QueryStep
    <3>4. CASE StartReading(mode[r], mode[r])
      <4>1. CASE p = mode[r]
        <5>1. p = Payg
          BY <1>2, <1>4, <3>1, <4>1
        <5> QED BY <1>1, <3>1, <3>4, <4>1, <5>1, QueryOf DEF QueryStep
      <4>2. CASE p # mode[r]
        <5>1. mode[r] \in Reader
          BY <1>2, <3>1
        <5>2. reading'[p] = reading[p]
          BY <1>1, <3>1, <3>4, <4>2, <5>1, QueryOf
        <5> QED BY <2>2, <3>2, <5>2 DEF QueryStep
      <4> QED BY <4>1, <4>2
    <3> QED BY <3>1, <3>3, <3>4
  <2>4. CASE AdmitCold(r)
    <3>1. StartReading(r, mode[r]) /\ r \in Reader /\ mode[r] \in allModes
      BY <1>1, <1>2, <2>4 DEF AdmitCold, TypeOK
    <3>2. CASE p = r
      <4>1. mode[r] = Payg
        BY <1>2, <1>4, <3>2
      <4> QED BY <1>1, <3>1, <3>2, <4>1, QueryOf DEF QueryStep
    <3>3. CASE p # r
      <4>1. reading'[p] = reading[p]
        BY <1>1, <3>1, <3>3, QueryOf
      <4> QED BY <2>2, <3>3, <4>1 DEF QueryStep
    <3> QED BY <3>2, <3>3
  <2>5. CASE ~Admit(r) /\ ~AdmitCold(r)
    <3>1. StopReading(r) \/ StartWalletRead(r) \/ UNCHANGED reading
      BY <1>6, <2>5 DEF RequestStep, Seed, SeedFails, Serve, ServeFree, ReadGrant, ChargeTheRest,
         Consume, ConsumeUnseen, ChargePlanFails, ChargeWallet, ChargeWalletFails, FoldPlan,
         FoldWallet, Enqueue
    <3>2. pc'[r] # "cold"
      BY <1>1, <1>6, <2>5 DEF RequestStep, Seed, SeedFails, Serve, ServeFree, ReadGrant,
         ChargeTheRest, ChargeFailed, Consume, ConsumeUnseen, ChargePlanFails, ChargeWallet,
         ChargeWalletFails, FoldPlan, FoldWallet, Enqueue, Go, Verdict, TypeOK
    <3>3. p # r
      BY <1>2, <1>4, <3>2
    <3>4. reading'[p] = reading[p]
      <4>1. r \in Reader
        BY <1>2
      <4> QED BY <1>1, <3>1, <3>3, <4>1, QueryOf
    <3> QED BY <2>2, <3>3, <3>4 DEF QueryStep
  <2> QED BY <2>3, <2>4, <2>5
<1>7. ASSUME OtherStep
      PROVE  QueryStep(p)
  <2>1. ForWallet(p)
    <3>1. pc' = pc
      BY <1>1, <1>7, OtherMovesNone
    <3> QED BY <1>5, <3>1
  <2>2. CASE \E q \in Reader : ReadSpent(q)
    <3> PICK q \in Reader : ReadSpent(q)
      BY <2>2
    <3>1. /\ reading[q].stage = "spent"
          /\ reading' = [reading EXCEPT ![q] = [stage |-> "got", usd |-> Balance(q)]]
      BY DEF ReadSpent
    <3>2. CASE p = q
      <4>1. reading'[p] = [stage |-> "got", usd |-> Balance(p)]
        BY <1>1, <3>1, <3>2 DEF TypeOK
      <4> QED BY <2>1, <3>1, <3>2, <4>1 DEF QueryStep
    <3>3. CASE p # q
      BY <1>1, <2>1, <3>1, <3>3 DEF TypeOK, QueryStep
    <3> QED BY <3>2, <3>3
  <2>3. CASE \E m \in allModes : AdmitFree(m) \/ Refresh(m) \/ RefreshFails(m)
    <3> PICK m \in allModes : AdmitFree(m) \/ Refresh(m) \/ RefreshFails(m)
      BY <2>3
    <3>1. StartReading(m, m) \/ StopReading(m)
      BY DEF AdmitFree, StartRefresh, Refresh, RefreshFails
    <3>2. m \in Reader
      BY <1>2
    <3>3. CASE p = m
      <4>1. p = Payg
        BY <1>2, <1>4, <3>3
      <4> QED BY <1>1, <3>1, <3>2, <3>3, <4>1, QueryOf DEF QueryStep
    <3>4. CASE p # m
      <4>1. reading'[p] = reading[p]
        BY <1>1, <3>1, <3>2, <3>4, QueryOf
      <4> QED BY <2>1, <4>1 DEF QueryStep
    <3> QED BY <3>3, <3>4
  <2>4. CASE reading' = reading
    BY <2>1, <2>4 DEF QueryStep
  <2> QED BY <1>7, <2>2, <2>3, <2>4 DEF OtherStep, Flush, FlushUnnoticed, AddEntry, Credit,
     GrantPlan
<1> QED BY <1>6, <1>7, StepCases

(* What may become of the wallet's entry, short of top-ups: nothing, the     *)
(* result of a query, or a charge that is counted. *)
EntryStep ==
    \/ cache'[Payg].known = cache[Payg].known /\ cache'[Payg].usd = cache[Payg].usd
    \/ \E p \in Reader : /\ ForWallet(p) /\ reading[p].stage = "got"
                         /\ cache'[Payg].usd = reading[p].usd
    \/ \E r \in Request : FoldWallet(r)

LEMMA EntrySteps ==
    ASSUME BillingInv, Next, topUps = 0
    PROVE  EntryStep
<1>1. TypeOK /\ crediting <= topUps /\ Payg \in allModes /\ crediting \in Nat
  BY BillingAssumption DEF BillingInv, allModes, TypeOK, BillingAssumption
<1>2. cache' = cache => EntryStep
  BY DEF EntryStep
<1>3. ~Credit
  BY <1>1 DEF Credit
<1>4. ASSUME NEW m \in allModes, StartRefresh(m) \/ RefreshFails(m)
      PROVE  EntryStep
  <2>1. \E v : cache' = [cache EXCEPT ![m].refreshing = v]
    BY <1>4 DEF StartRefresh, RefreshFails
  <2>2. cache'[Payg].known = cache[Payg].known /\ cache'[Payg].usd = cache[Payg].usd
    BY <1>1, <2>1 DEF TypeOK
  <2> QED BY <2>2 DEF EntryStep
<1>5. ASSUME NEW r \in Request, Seed(r)
      PROVE  EntryStep
  <2> DEFINE m == mode[r]
             usd == IF cache[m].known THEN cache[m].usd ELSE reading[r].usd
  <2>1. /\ pc[r] = "cold" /\ reading[r].stage = "got" /\ m \in allModes
        /\ cache' = IF cache[m].known THEN cache
                    ELSE [cache EXCEPT ![m] = [Cold EXCEPT !.known = TRUE, !.usd = usd]]
    BY <1>1, <1>5 DEF Seed, At, TypeOK
  <2>2. CASE cache[m].known
    BY <1>2, <2>1, <2>2
  <2>3. CASE ~cache[m].known
    <3>1. cache' = [cache EXCEPT ![m] = [Cold EXCEPT !.known = TRUE, !.usd = usd]]
          /\ usd = reading[r].usd
      BY <2>1, <2>3
    <3> HIDE DEF usd
    <3>2. CASE m = Payg
      <4>1. cache'[Payg] = [Cold EXCEPT !.known = TRUE, !.usd = usd]
        BY <1>1, <3>1, <3>2 DEF TypeOK
      <4>2. cache'[Payg].usd = reading[r].usd
        BY <3>1, <4>1 DEF Cold
      <4>3. r \in Reader /\ ForWallet(r)
        BY <2>1, <3>2 DEF Reader, ForWallet, At
      <4> QED BY <2>1, <4>2, <4>3 DEF EntryStep
    <3>3. CASE m # Payg
      <4>1. cache'[Payg] = cache[Payg]
        BY <1>1, <3>1, <3>3 DEF TypeOK
      <4> QED BY <4>1 DEF EntryStep
    <3> QED BY <3>2, <3>3
  <2> QED BY <2>2, <2>3
<1>6. ASSUME NEW m \in allModes, Refresh(m)
      PROVE  EntryStep
  <2>1. /\ reading[m].stage = "got"
        /\ cache' = [cache EXCEPT ![m] = [Cold EXCEPT !.known = TRUE, !.usd = reading[m].usd]]
    BY <1>6 DEF Refresh
  <2>2. CASE m = Payg
    <3>1. cache'[Payg] = [Cold EXCEPT !.known = TRUE, !.usd = reading[Payg].usd]
      BY <1>1, <2>1, <2>2 DEF TypeOK
    <3>2. cache'[Payg].usd = reading[Payg].usd
      BY <3>1 DEF Cold
    <3>3. Payg \in Reader /\ ForWallet(Payg)
      BY <1>1 DEF Reader, ForWallet
    <3> QED BY <2>1, <2>2, <3>2, <3>3 DEF EntryStep
  <2>3. CASE m # Payg
    <3>1. cache'[Payg] = cache[Payg]
      BY <1>1, <2>1, <2>3 DEF TypeOK
    <3> QED BY <3>1 DEF EntryStep
  <2> QED BY <2>2, <2>3
<1>7. ASSUME NEW r \in Request, Admit(r)
      PROVE  EntryStep
  <2>1. mode[r] \in allModes /\ (StartRefresh(mode[r]) \/ cache' = cache)
    BY <1>1, <1>7 DEF Admit, Consult, TypeOK
  <2> QED BY <1>2, <1>4, <2>1
<1>8. ASSUME NEW r \in Request, FoldPlan(r) \/ FoldWallet(r)
      PROVE  EntryStep
  <2>1. CASE FoldPlan(r)
    <3>1. cache'[Payg] = cache[Payg]
      BY <1>1, <2>1 DEF FoldPlan, PlanFolded, TypeOK, Payg, Plan
    <3> QED BY <3>1 DEF EntryStep
  <2>2. CASE FoldWallet(r)
    BY <2>2 DEF EntryStep
  <2> QED BY <1>8, <2>1, <2>2
<1>9. ASSUME NEW m \in allModes, AdmitFree(m)
      PROVE  EntryStep
  BY <1>4, <1>9 DEF AdmitFree
<1>10. cache' = cache \/ Credit
       \/ (\E r \in Request : Seed(r) \/ Admit(r) \/ FoldPlan(r) \/ FoldWallet(r))
       \/ (\E m \in allModes : AdmitFree(m) \/ Refresh(m) \/ RefreshFails(m))
  BY DEF Next, RequestStep, AdmitCold, SeedFails, Serve, ServeFree, ReadGrant, Consume,
     ConsumeUnseen, ChargePlanFails, ChargeWallet, ChargeWalletFails, Enqueue, Flush,
     FlushUnnoticed, ReadSpent, AddEntry, GrantPlan
<1> QED BY <1>2, <1>3, <1>4, <1>5, <1>6, <1>7, <1>8, <1>9, <1>10

(* Short of top-ups the cached wallet is never below what the charges leave:  *)
(* the refreshes and adjustments of the entry that overwrite each other count *)
(* no charge twice, and only a row that the database itself holds twice       *)
(* weighs more than was billed (BalanceGuard).                               *)
THEOREM WalletCorrect == Spec => []WalletNotUnderstated
<1>1. Init => WalletInv
  <2> SUFFICES ASSUME Init PROVE WalletInv
    OBVIOUS
  <2>1. ~cache[Payg].known /\ \A p \in Reader : reading[p].stage = "off"
    BY DEF Init, Cold, NoRead, allModes
  <2> QED BY <2>1 DEF WalletInv
<1>2. BillingInv /\ BillingInv' /\ WalletInv /\ [Next]_vars => WalletInv'
  <2> SUFFICES ASSUME BillingInv, BillingInv', WalletInv, [Next]_vars, topUps' = 0
               PROVE  /\ cache'[Payg].known => cache'[Payg].usd >= credits' - Charges(Charged)'
                      /\ \A p \in Reader : ForWallet(p)' =>
                            /\ reading'[p].stage = "spent" => reading'[p].usd >= credits'
                            /\ reading'[p].stage = "got" =>
                                  reading'[p].usd >= credits' - Charges(Charged)'
    BY DEF WalletInv
  <2>1. TypeOK /\ TypeOK' /\ Payg \in allModes /\ credits \in Nat
    BY DEF BillingInv, TypeOK, allModes
  <2>2. CASE Next
    <3>1. topUps = 0 /\ credits' = credits
      <4>1. topUps' = topUps \/ topUps' = topUps + 1
        BY <2>2 DEF Next, RequestStep, Admit, AdmitCold, Seed, SeedFails, Serve, ServeFree,
           ReadGrant, Consume, ConsumeUnseen, ChargePlanFails, ChargeWallet, ChargeWalletFails,
           FoldPlan, FoldWallet, Enqueue, Flush, FlushUnnoticed, ReadSpent, AdmitFree, Refresh, RefreshFails, AddEntry, Credit, GrantPlan,
           topping
      <4>2. topUps \in Nat
        BY <2>1, BillingAssumption DEF TypeOK, BillingAssumption
      <4>3. topUps = 0
        BY <4>1, <4>2
      <4>4. ~AddEntry
        BY <4>3 DEF AddEntry
      <4>5. credits' = credits
        BY <2>2, <4>4 DEF Next, RequestStep, Admit, AdmitCold, Seed, SeedFails, Serve,
           ServeFree, ReadGrant, Consume, ConsumeUnseen, Draw, ChargePlanFails, ChargeWallet,
           ChargeWalletFails, FoldPlan, FoldWallet, Enqueue, Flush, FlushUnnoticed, ReadSpent,
           AdmitFree, Refresh, RefreshFails, Credit, GrantPlan, database
      <4> QED BY <4>3, <4>5
    <3> DEFINE before == Charges(Charged)
               after == Charges(Charged)'
    <3>2. before \in Nat /\ after \in Nat /\ before <= after
      BY <2>1, <2>2, NoRebilling, SpentGrows
    <3>3. /\ cache[Payg].known => cache[Payg].usd >= credits - before
          /\ \A p \in Reader : ForWallet(p) =>
                /\ reading[p].stage = "spent" => reading[p].usd >= credits
                /\ reading[p].stage = "got" => reading[p].usd >= credits - before
      BY <3>1 DEF WalletInv
    <3>4. Spent \in Nat /\ Spent <= before
      BY <2>1, StoredIsCharged DEF BillingInv
    <3>5. ASSUME NEW r \in Request, FoldWallet(r)
          PROVE  cache'[Payg].known => cache'[Payg].usd >= credits - after
      <4>1. cache' = [m \in allModes |-> Adjust(m, - bill[r].wallet)]
        BY <3>5 DEF FoldWallet
      <4>2. cache'[Payg] = Adjust(Payg, - bill[r].wallet)
        BY <2>1, <4>1
      <4>3. bill[r].wallet \in Nat /\ after = before + bill[r].wallet
        BY <3>5, FoldSpends
      <4>4. /\ cache[Payg].usd \in Int
            /\ cache'[Payg].known = cache[Payg].known
            /\ cache[Payg].known => cache'[Payg].usd = cache[Payg].usd + (- bill[r].wallet)
        BY <2>1, <4>2 DEF Adjust, TypeOK
      <4> HIDE DEF before, after
      <4> QED BY <2>1, <3>2, <3>3, <4>3, <4>4
    <3> HIDE DEF before, after
    <3>6. cache'[Payg].known => cache'[Payg].usd >= credits - after
      <4>1. EntryStep
        BY <2>2, <3>1, EntrySteps
      <4>2. ASSUME cache'[Payg].known = cache[Payg].known, cache'[Payg].usd = cache[Payg].usd
            PROVE  cache'[Payg].known => cache'[Payg].usd >= credits - after
        <5>1. cache[Payg].usd \in Int
          BY <2>1 DEF TypeOK
        <5> QED BY <2>1, <3>2, <3>3, <4>2, <5>1
      <4>3. ASSUME NEW p \in Reader, ForWallet(p), reading[p].stage = "got",
                   cache'[Payg].usd = reading[p].usd
            PROVE  cache'[Payg].usd >= credits - after
        <5>1. reading[p].usd \in Int /\ reading[p].usd >= credits - before
          BY <2>1, <3>3, <4>3 DEF TypeOK
        <5> QED BY <2>1, <3>2, <4>3, <5>1
      <4> QED BY <3>5, <4>1, <4>2, <4>3 DEF EntryStep
    <3>7. ASSUME NEW p \in Reader, ForWallet(p)'
          PROVE  /\ reading'[p].stage = "spent" => reading'[p].usd >= credits
                 /\ reading'[p].stage = "got" => reading'[p].usd >= credits - after
      <4>1. QueryStep(p)
        BY <2>2, <3>7, QuerySteps
      <4>2. reading[p].usd \in Int
        BY <2>1 DEF TypeOK
      <4>3. ASSUME ForWallet(p), reading'[p] = reading[p]
            PROVE  /\ reading'[p].stage = "spent" => reading'[p].usd >= credits
                   /\ reading'[p].stage = "got" => reading'[p].usd >= credits - after
        <5>1. /\ reading[p].stage = "spent" => reading[p].usd >= credits
              /\ reading[p].stage = "got" => reading[p].usd >= credits - before
          BY <3>3, <4>3
        <5> QED BY <2>1, <3>2, <4>2, <4>3, <5>1
      <4>4. ASSUME reading'[p] = [stage |-> "spent", usd |-> credits]
            PROVE  reading'[p].stage = "spent" /\ reading'[p].usd >= credits
        BY <2>1, <4>4
      <4>5. ASSUME ForWallet(p), reading[p].stage = "spent",
                   reading'[p] = [stage |-> "got", usd |-> Balance(p)]
            PROVE  reading'[p].stage = "got" /\ reading'[p].usd >= credits - after
        <5>1. reading[p].usd >= credits
          BY <3>3, <4>5
        <5>2. reading'[p].usd = reading[p].usd - Spent
          BY <4>5 DEF Balance
        <5>3. reading'[p].stage = "got"
          BY <4>5
        <5> QED BY <2>1, <3>2, <3>4, <4>2, <5>1, <5>2, <5>3
      <4> QED BY <4>1, <4>3, <4>4, <4>5 DEF QueryStep
    <3> QED BY <3>1, <3>6, <3>7 DEF after
  <2>3. CASE UNCHANGED vars
    <3>1. /\ mode' = mode /\ credits' = credits /\ rows' = rows /\ table' = table
          /\ cache' = cache /\ pc' = pc /\ bill' = bill /\ reading' = reading
          /\ topUps' = topUps
      BY <2>3 DEF vars, fixed, database, records, topping
    <3>2. Charges(Charged)' = Charges(Charged)
      BY <3>1 DEF Charges, Charged
    <3>3. \A p \in Reader : ForWallet(p)' <=> ForWallet(p)
      BY <3>1 DEF ForWallet, At
    <3> QED BY <3>1, <3>2, <3>3 DEF WalletInv
  <2> QED BY <2>2, <2>3
<1>3. WalletInv => WalletNotUnderstated
  BY DEF WalletInv, WalletNotUnderstated
<1> QED BY <1>1, <1>2, <1>3, BillingInvariant, PTL DEF Spec

-----------------------------------------------------------------------------
(* Refreshes.                                                               *)

(* The flag that keeps a second refresh from starting, and the query behind  *)
(* it; only an entry that is known is ever refreshed. *)
RefreshIsUnderWay == \A m \in allModes : cache[m].refreshing <=> reading[m] # NoRead

RefreshInv ==
    /\ RefreshIsUnderWay
    /\ \A m \in allModes : cache[m].refreshing => cache[m].known

(* What a step may do to the refresh of one mode. *)
RefreshMove(m) ==
    \/ /\ cache'[m].refreshing = cache[m].refreshing
       /\ cache[m].known => cache'[m].known
       /\ reading'[m] # NoRead <=> reading[m] # NoRead
    \/ cache'[m].refreshing /\ cache'[m].known /\ reading'[m] # NoRead
    \/ ~cache'[m].refreshing /\ reading'[m] = NoRead

(* The query of a request is not that of a refresh. *)
LEMMA QueriesApart ==
    ASSUME TypeOK, NEW r \in Request, NEW m \in allModes, NEW k \in allModes,
           StartReading(r, k) \/ StartWalletRead(r) \/ StopReading(r) \/ UNCHANGED reading
    PROVE  reading'[m] = reading[m]
<1>1. m \in Reader \ {r} /\ r \in Reader
  BY BillingAssumption DEF Reader, BillingAssumption
<1> QED BY <1>1, QueryOf

(* A refresh starts with its flag and its query, and nothing else moves.     *)
LEMMA StartMoves ==
    ASSUME TypeOK, NEW k \in allModes, StartRefresh(k), NEW m \in allModes
    PROVE  RefreshMove(m)
<1>1. /\ cache[k].known /\ cache' = [cache EXCEPT ![k].refreshing = TRUE]
      /\ StartReading(k, k)
  BY DEF StartRefresh
<1>2. k \in Reader /\ m \in Reader
  BY DEF Reader
<1>3. CASE m = k
  <2>1. cache'[m].refreshing /\ cache'[m].known
    BY <1>1, <1>3 DEF TypeOK
  <2>2. reading'[m].stage \in {"spent", "got"}
    BY <1>1, <1>2, <1>3 DEF StartReading, TypeOK
  <2>3. reading'[m] # NoRead
    BY <2>2 DEF NoRead
  <2> QED BY <2>1, <2>3 DEF RefreshMove
<1>4. CASE m # k
  <2>1. cache'[m] = cache[m]
    BY <1>1, <1>4 DEF TypeOK
  <2>2. reading'[m] = reading[m]
    BY <1>1, <1>2, <1>4, QueryOf
  <2> QED BY <2>1, <2>2 DEF RefreshMove
<1> QED BY <1>3, <1>4

(* It ends with both, whether it succeeds or fails. *)
LEMMA EndMoves ==
    ASSUME TypeOK, NEW k \in allModes, Refresh(k) \/ RefreshFails(k), NEW m \in allModes
    PROVE  RefreshMove(m)
<1>1. k \in Reader /\ m \in Reader /\ StopReading(k)
  BY DEF Reader, Refresh, RefreshFails
<1>2. CASE m = k
  <2>1. reading'[m] = NoRead
    BY <1>1, <1>2 DEF StopReading, TypeOK
  <2>2. ~cache'[m].refreshing
    <3>1. CASE Refresh(k)
      <4>1. cache'[m] = [Cold EXCEPT !.known = TRUE, !.usd = reading[m].usd]
        BY <1>2, <3>1 DEF Refresh, TypeOK
      <4> QED BY <4>1 DEF Cold
    <3>2. CASE RefreshFails(k)
      BY <1>2, <3>2 DEF RefreshFails, TypeOK
    <3> QED BY <3>1, <3>2
  <2> QED BY <2>1, <2>2 DEF RefreshMove
<1>3. CASE m # k
  <2>1. cache'[m] = cache[m]
    BY <1>3 DEF Refresh, RefreshFails, TypeOK
  <2>2. reading'[m] = reading[m]
    BY <1>1, <1>3, QueryOf
  <2> QED BY <2>1, <2>2 DEF RefreshMove
<1> QED BY <1>2, <1>3

(* Charges and top-ups leave it going. *)
LEMMA AdjustMoves ==
    ASSUME TypeOK, UNCHANGED reading, NEW m \in allModes, NEW usd, cache'[m] = Adjust(m, usd)
    PROVE  RefreshMove(m)
<1>1. cache'[m].refreshing = cache[m].refreshing /\ cache'[m].known = cache[m].known
  BY DEF Adjust, TypeOK
<1> QED BY <1>1 DEF RefreshMove

(* The entry of a mode that was not known takes the answer of the request    *)
(* that asked first, while no refresh is under way. *)
LEMMA SeedMoves ==
    ASSUME TypeOK, RefreshInv, NEW r \in Request, Seed(r), NEW m \in allModes
    PROVE  RefreshMove(m)
<1> DEFINE k == mode[r]
           usd == IF cache[k].known THEN cache[k].usd ELSE reading[r].usd
<1>1. /\ k \in allModes /\ StopReading(r)
      /\ cache' = IF cache[k].known THEN cache
                  ELSE [cache EXCEPT ![k] = [Cold EXCEPT !.known = TRUE, !.usd = usd]]
  BY DEF Seed, TypeOK
<1> HIDE DEF usd
<1>2. reading'[m] = reading[m]
  BY <1>1, QueriesApart
<1>3. CASE m = k /\ ~cache[k].known
  <2>1. cache'[m] = [Cold EXCEPT !.known = TRUE, !.usd = usd]
    BY <1>1, <1>3 DEF TypeOK
  <2>2. ~cache'[m].refreshing
    BY <2>1 DEF Cold
  <2>3. reading[m] = NoRead
    BY <1>3 DEF RefreshInv, RefreshIsUnderWay
  <2> QED BY <1>2, <2>2, <2>3 DEF RefreshMove
<1>4. CASE ~(m = k /\ ~cache[k].known)
  <2>1. cache'[m] = cache[m]
    BY <1>1, <1>4 DEF TypeOK
  <2> QED BY <1>2, <2>1 DEF RefreshMove
<1> QED BY <1>3, <1>4

(* Every step does nothing to it, starts it or ends it. *)
LEMMA RefreshMoves ==
    ASSUME TypeOK, RefreshInv, Next, NEW m \in allModes
    PROVE  RefreshMove(m)
<1>0. Payg \in allModes
  BY DEF allModes
<1>1. ASSUME NEW r \in Request, RequestStep(r)
      PROVE  RefreshMove(m)
  <2>1. mode[r] \in allModes
    BY DEF TypeOK
  <2>2. CASE Admit(r)
    <3>1. StartRefresh(mode[r]) \/ UNCHANGED <<cache, reading>>
      BY <2>2 DEF Admit, Consult
    <3> QED BY <2>1, <3>1, StartMoves DEF RefreshMove
  <2>3. CASE Seed(r)
    BY <2>3, SeedMoves
  <2>4. CASE FoldPlan(r) \/ FoldWallet(r)
    <3>1. UNCHANGED reading /\ (cache'[m] = cache[m] \/ \E usd : cache'[m] = Adjust(m, usd))
      BY <2>4 DEF FoldPlan, PlanFolded, FoldWallet, TypeOK
    <3>2. cache'[m] = cache[m] => RefreshMove(m)
      BY <3>1 DEF RefreshMove
    <3> QED BY <3>1, <3>2, AdjustMoves
  <2>5. CASE ~Admit(r) /\ ~Seed(r) /\ ~FoldPlan(r) /\ ~FoldWallet(r)
    <3>1. /\ UNCHANGED cache
          /\ StartReading(r, mode[r]) \/ StartWalletRead(r) \/ StopReading(r) \/ UNCHANGED reading
      BY <1>1, <2>5 DEF RequestStep, AdmitCold, SeedFails, Serve, ServeFree, ReadGrant,
         ChargeTheRest, Consume, ConsumeUnseen, ChargePlanFails, ChargeWallet,
         ChargeWalletFails, Enqueue
    <3>2. reading'[m] = reading[m]
      BY <2>1, <3>1, QueriesApart
    <3> QED BY <3>1, <3>2 DEF RefreshMove
  <2> QED BY <2>2, <2>3, <2>4, <2>5
<1>2. ASSUME NEW p \in Reader, ReadSpent(p)
      PROVE  RefreshMove(m)
  <2>1. /\ reading[p].stage = "spent" /\ UNCHANGED cache
        /\ reading' = [reading EXCEPT ![p] = [stage |-> "got", usd |-> Balance(p)]]
    BY <1>2 DEF ReadSpent
  <2>2. m \in Reader
    BY DEF Reader
  <2>3. CASE m = p
    <3>1. reading'[m].stage = "got"
      BY <2>1, <2>2, <2>3 DEF TypeOK
    <3> QED BY <2>1, <2>3, <3>1 DEF RefreshMove, NoRead
  <2>4. CASE m # p
    <3>1. reading'[m] = reading[m]
      BY <2>1, <2>2, <2>4 DEF TypeOK
    <3> QED BY <2>1, <3>1 DEF RefreshMove
  <2> QED BY <2>3, <2>4
<1>3. ASSUME NEW k \in allModes, AdmitFree(k) \/ Refresh(k) \/ RefreshFails(k)
      PROVE  RefreshMove(m)
  BY <1>3, StartMoves, EndMoves DEF AdmitFree
<1>4. CASE Credit
  <2>1. UNCHANGED reading /\ cache'[m] = Adjust(m, TopUp)
    BY <1>4 DEF Credit
  <2> QED BY <2>1, AdjustMoves
<1>5. CASE AddEntry \/ GrantPlan \/ \E r \in Request : Flush(r) \/ FlushUnnoticed(r)
  BY <1>5 DEF AddEntry, GrantPlan, Flush, FlushUnnoticed, RefreshMove
<1> QED BY <1>1, <1>2, <1>3, <1>4, <1>5 DEF Next

(* A cache entry is marked as being refreshed exactly while a query for it is *)
(* under way: however refreshes fail, and whatever seeds, charges and top-ups *)
(* write over the entry meanwhile, the flag that allows one refresh at a time *)
(* is never left behind, which would freeze the balance (BalanceGuard).      *)
THEOREM RefreshesAreNotStuck == Spec => []RefreshIsUnderWay
<1>1. Init => RefreshInv
  BY DEF Init, RefreshInv, RefreshIsUnderWay, Cold, NoRead, Reader
<1>2. BillingInv /\ RefreshInv /\ [Next]_vars => RefreshInv'
  <2> SUFFICES ASSUME BillingInv, RefreshInv, [Next]_vars, NEW m \in allModes
               PROVE  /\ cache'[m].refreshing <=> reading'[m] # NoRead
                      /\ cache'[m].refreshing => cache'[m].known
    BY DEF RefreshInv, RefreshIsUnderWay
  <2>1. /\ cache[m].refreshing <=> reading[m] # NoRead
        /\ cache[m].refreshing => cache[m].known
    BY DEF RefreshInv, RefreshIsUnderWay
  <2>2. CASE Next
    <3>1. RefreshMove(m)
      BY <2>2, RefreshMoves DEF BillingInv
    <3> QED BY <2>1, <3>1 DEF RefreshMove
  <2>3. CASE UNCHANGED vars
    BY <2>1, <2>3 DEF vars
  <2> QED BY <2>2, <2>3
<1>3. RefreshInv => RefreshIsUnderWay
  BY DEF RefreshInv
<1> QED BY <1>1, <1>2, <1>3, BillingInvariant, PTL DEF Spec

=============================================================================
