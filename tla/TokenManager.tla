---------------------------- MODULE TokenManager ----------------------------
(***************************************************************************)
(* The upstream OAuth token of one account.  Requests take the account      *)
(* from the pool's copy, EnsureFresh renews a token that is about to       *)
(* expire, ForceRefresh one that met a 401, a sweeper renews idle ones.    *)
(* They meet at a lock, but each reads the row, calls the provider and     *)
(* writes the row in separate steps, and a refresh token is worth one      *)
(* refresh: once the provider has accepted it, only the answer counts.     *)
(*                                                                         *)
(* A credential stands for a refresh token with the access token and the   *)
(* expiry that came with it; they are always stored together.              *)
(***************************************************************************)
EXTENDS FiniteSets, Integers

CONSTANTS
    Request,
    Sweeper,    \* the background sweep
    Nothing,    \* the credential of a worker that has none in hand
    Credential, \* bound: credentials in circulation at once
    MaxFaults   \* bound: kinds of faults in a behaviour

Worker == Request \cup {Sweeper}

\* What can go wrong: the provider's answer, the write of a fresh token or
\* the reload is lost; the process restarts; the provider ends the login; an
\* administrator logs in anew.
Fault == {"answer", "write", "reload", "restart", "revoke", "import"}

ASSUME TokenAssumption ==
    /\ Sweeper \notin Request
    /\ Credential # {} /\ Nothing \notin Credential
    /\ MaxFaults \in Nat

VARIABLES
    row,      \* the account's runtime columns
    recent,   \* its LastRefreshAt lies within forceRefreshDebounce
    pool,     \* the account pool's copy of them
    pc,       \* where each worker is
    forced,   \* workers in ForceRefresh
    token,    \* the credential each worker has in hand, to refresh or to save
    honoured, \* credentials the provider would refresh
    burst,    \* credentials issued within forceRefreshDebounce, two for many
    faults    \* what has gone wrong so far

work == <<pc, forced, token>>
upstream == <<honoured, burst>>
vars == <<row, recent, pool, work, upstream, faults>>

Status == {"ok", "refresh_failed", "login_required"}

\* due: AuthExpiresAt lies within the refresh window.
Row == [token : Credential, due : BOOLEAN, status : Status]

\* Where a worker holds the account's lock: the provider is asked, its answer
\* is to be stored, or what its refusal makes of the account.
Locked == {"refresh", "save", "refresh_failed", "login_required"}

TypeOK ==
    /\ row \in Row
    /\ recent \in BOOLEAN
    /\ pool \in Row
    /\ pc \in [Worker -> {"idle", "call", "waiting"} \cup Locked]
    /\ forced \subseteq Worker
    /\ token \in [Worker -> Credential \cup {Nothing}]
    /\ honoured \subseteq Credential
    /\ burst \in 0..2
    /\ faults \subseteq Fault

Init ==
    /\ row = [token |-> CHOOSE c \in Credential : TRUE, due |-> FALSE, status |-> "ok"]
    /\ recent = FALSE
    /\ pool = row
    /\ pc = [w \in Worker |-> "idle"]
    /\ forced = {}
    /\ token = [w \in Worker |-> Nothing]
    /\ honoured = {row.token}
    /\ burst = 0
    /\ faults = {}

At(w, p) == pc[w] = p
Go(w, p) == pc' = [pc EXCEPT ![w] = p]

Hold(w, c) == token' = [token EXCEPT ![w] = c]

Meet(f) ==
    /\ Cardinality(faults \cup {f}) <= MaxFaults
    /\ faults' = faults \cup {f}

-----------------------------------------------------------------------------
(* Who asks.                                                                *)

\* Resolve, and EnsureFresh before it takes the lock.
Resolve(r) ==
    /\ At(r, "idle") /\ pool.status = "ok"
    /\ IF pool.due THEN Go(r, "waiting") /\ Hold(r, pool.token)
       ELSE Go(r, "call") /\ UNCHANGED token
    /\ UNCHANGED <<row, recent, pool, forced, upstream, faults>>

\* The upstream answers; only the first 401 of a request is worth a refresh.
Served(r) ==
    /\ At(r, "call")
    /\ Go(r, "idle")
    /\ UNCHANGED <<row, recent, pool, forced, token, upstream, faults>>

Unauthorized(r) ==
    /\ At(r, "call")
    /\ Go(r, "waiting")
    /\ forced' = forced \cup {r}
    /\ UNCHANGED <<row, recent, pool, token, upstream, faults>>

(* Mutant: refresh_failed is parked for good.                               *)
SweepsOk ==
    /\ At(Sweeper, "idle")
    /\ pool.due
    /\ pool.status = "ok"
    /\ Hold(Sweeper, pool.token)
    /\ Go(Sweeper, "waiting")
    /\ UNCHANGED <<row, recent, pool, forced, upstream, faults>>

\* A refresh_failed account waits for failedRetryBackoff, which may be over
\* whenever a sweep comes by.
sweep ==
    /\ At(Sweeper, "idle")
    /\ pool.due
    /\ pool.status # "login_required"
    /\ Hold(Sweeper, pool.token)
    /\ Go(Sweeper, "waiting")
    /\ UNCHANGED <<row, recent, pool, forced, upstream, faults>>

-----------------------------------------------------------------------------
(* Under the lock.                                                          *)

Free == \A w \in Worker : pc[w] \notin Locked

\* Unlock, with a credential to call the upstream with: one more 401 is final.
Return(w) ==
    /\ Hold(w, Nothing)
    /\ Go(w, IF w = Sweeper \/ w \in forced THEN "idle" ELSE "call")
    /\ forced' = forced \ {w}

\* Unlock, with an error.
Fail(w) ==
    /\ Hold(w, Nothing)
    /\ Go(w, "idle")
    /\ forced' = forced \ {w}

GoodEnough(w) ==
    IF w \in forced THEN row.status = "ok" /\ recent
    ELSE ~row.due

(* Mutant: EnsureFresh does not look at the row again once it has the lock. *)
ReloadNot(w) ==
    /\ At(w, "waiting") /\ Free
    /\ IF w \in forced /\ GoodEnough(w) THEN Return(w)
       ELSE /\ Hold(w, IF w \in forced THEN row.token ELSE token[w])
            /\ Go(w, "refresh")
            /\ UNCHANGED forced
    /\ UNCHANGED <<row, recent, pool, upstream, faults>>

(* Mutant: no debounce.                                                     *)
ReloadEager(w) ==
    /\ At(w, "waiting") /\ Free
    /\ IF w \notin forced /\ GoodEnough(w) THEN Return(w)
       ELSE /\ Hold(w, row.token)
            /\ Go(w, "refresh")
            /\ UNCHANGED forced
    /\ UNCHANGED <<row, recent, pool, upstream, faults>>

Reload(w) ==
    /\ At(w, "waiting") /\ Free
    /\ IF GoodEnough(w) THEN Return(w)
       ELSE /\ Hold(w, row.token)
            /\ Go(w, "refresh")
            /\ UNCHANGED forced
    /\ UNCHANGED <<row, recent, pool, upstream, faults>>

\* EnsureFresh goes on with the copy it came with, ForceRefresh gives up.
ReloadFails(w) ==
    /\ At(w, "waiting") /\ Free
    /\ Meet("reload")
    /\ IF w \in forced THEN Fail(w)
       ELSE Go(w, "refresh") /\ UNCHANGED <<forced, token>>
    /\ UNCHANGED <<row, recent, pool, upstream>>

-----------------------------------------------------------------------------
(* The provider.                                                            *)

InCirculation ==
    {row.token, pool.token} \cup {token[w] : w \in Worker} \cup honoured

Unused == Credential \ InCirculation
New == CHOOSE c \in Unused : TRUE

\* A new credential; the provider goes on to honour the old ones in kept.
Issue(kept) ==
    /\ Unused # {}
    /\ honoured' = kept \cup {New}
    /\ burst' = IF burst = 2 THEN 2 ELSE burst + 1

\* Accepted.  The provider rotates the refresh token, the old one is dead.
Refresh(w) ==
    /\ At(w, "refresh") /\ token[w] \in honoured
    /\ Issue({})
    /\ Hold(w, New)
    /\ Go(w, "save")
    /\ UNCHANGED <<row, recent, pool, forced, faults>>

\* Accepted, but the connection breaks or the client has hung up.
AnswerLost(w) ==
    /\ At(w, "refresh") /\ token[w] \in honoured
    /\ Meet("answer")
    /\ Issue({})
    /\ Go(w, "refresh_failed")
    /\ UNCHANGED <<row, recent, pool, forced, token>>

\* ErrLoginRequired: invalid_grant, 401 or 403.
Refuse(w) ==
    /\ At(w, "refresh") /\ token[w] \notin honoured
    /\ Go(w, "login_required")
    /\ UNCHANGED <<row, recent, pool, forced, token, upstream, faults>>

Unreachable(w) ==
    /\ At(w, "refresh")
    /\ Go(w, "refresh_failed")
    /\ UNCHANGED <<row, recent, pool, forced, token, upstream, faults>>

-----------------------------------------------------------------------------
(* What is written.                                                         *)

Save(w) ==
    /\ At(w, "save")
    /\ row' = [token |-> token[w], due |-> FALSE, status |-> "ok"]
    /\ recent' = TRUE
    /\ Return(w)
    /\ UNCHANGED <<pool, upstream, faults>>

\* Logged; the request goes on with the fresh token.
SaveFails(w) ==
    /\ At(w, "save")
    /\ Meet("write")
    /\ Return(w)
    /\ UNCHANGED <<row, recent, pool, upstream>>

\* A nil Credentials keeps the stored ones.
persistFailure(w) ==
    /\ pc[w] \in Status
    /\ row' = [row EXCEPT !.status = pc[w]]
    /\ recent' = TRUE
    /\ Fail(w)
    /\ UNCHANGED <<pool, upstream, faults>>

persistFailureFails(w) ==
    /\ pc[w] \in Status
    /\ Fail(w)
    /\ UNCHANGED <<row, recent, pool, upstream, faults>>

-----------------------------------------------------------------------------
(* The world around.                                                        *)

\* Pool.Refresh, by its ticker or after a NOTIFY.
PoolRefresh ==
    /\ pool' = row
    /\ UNCHANGED <<row, recent, work, upstream, faults>>

\* The import of a credential file, or the end of a browser login: the row is
\* written without the lock.  A file without an expiry is due at once.
Import ==
    /\ Meet("import")
    /\ \E kept \in {{}, {row.token} \cap honoured} : Issue(kept)
    /\ \E due \in BOOLEAN : row' = [token |-> New, due |-> due, status |-> "ok"]
    /\ recent' = TRUE
    /\ UNCHANGED <<pool, work>>

Revoke ==
    /\ Meet("revoke")
    /\ honoured' = {}
    /\ UNCHANGED <<row, recent, pool, work, burst>>

\* The rows survive, nothing else does.
Restart ==
    /\ "restart" \notin faults
    /\ Meet("restart")
    /\ pool' = row
    /\ pc' = [w \in Worker |-> "idle"]
    /\ forced' = {}
    /\ token' = [w \in Worker |-> Nothing]
    /\ UNCHANGED <<row, recent, upstream>>

\* Time passes.  What is stored within the debounce of its issue lives longer
\* than the debounce and the refresh window together.
Elapse ==
    /\ recent' = FALSE
    /\ burst' = 0
    /\ UNCHANGED <<row, pool, work, honoured, faults>>

Age ==
    /\ row.status = "ok" => ~recent
    /\ \/ row' = [row EXCEPT !.due = TRUE]
       \/ pool.token # row.token /\ UNCHANGED row
    /\ pool' = [pool EXCEPT !.due = TRUE]
    /\ UNCHANGED <<recent, work, upstream, faults>>

-----------------------------------------------------------------------------
RefreshLocked(w) ==
    \/ Refresh(w) \/ AnswerLost(w) \/ Refuse(w) \/ Unreachable(w)
    \/ Save(w) \/ SaveFails(w)
    \/ persistFailure(w) \/ persistFailureFails(w)

Next ==
    \/ \E r \in Request : Resolve(r) \/ Served(r) \/ Unauthorized(r)
    \/ sweep
    \/ \E w \in Worker : Reload(w) \/ ReloadFails(w) \/ RefreshLocked(w)
    \/ PoolRefresh \/ Import \/ Revoke \/ Restart \/ Elapse \/ Age

Spec == Init /\ [][Next]_vars

-----------------------------------------------------------------------------
(* Safety.                                                                  *)

Rotating == \E w \in Worker : At(w, "save")

(* However many requests and sweeps find the token expired or refused at    *)
(* once, and however old the copies they come with: as long as no answer,   *)
(* reload or write of a token is lost, the stored credential is one the     *)
(* provider honours, and nobody is told to log in again.                    *)
GrantSurvives ==
    faults = {} => (Rotating \/ row.token \in honoured) /\ row.status # "login_required"

(* A burst of 401s and expiries costs one rotation: short of faults no two  *)
(* credentials are ever issued within forceRefreshDebounce.                 *)
OneRotationPerBurst == faults = {} => burst < 2

-----------------------------------------------------------------------------
(* Liveness: the timers go on, a worker ends the refresh it has begun, the  *)
(* provider is reached now and then, and some day writes no longer fail.    *)
WriteFails == \E w \in Worker : SaveFails(w) \/ persistFailureFails(w)

Fairness ==
    /\ WF_vars(PoolRefresh) /\ WF_vars(Elapse) /\ WF_vars(Age) /\ WF_vars(sweep)
    /\ \A w \in Worker : WF_vars(RefreshLocked(w))
    /\ SF_vars(Reload(Sweeper))
    /\ SF_vars(Refresh(Sweeper) \/ Refuse(Sweeper))
    /\ <>[][~WriteFails]_vars

LiveSpec == Spec /\ Fairness

(* An account taken out of rotation because a refresh failed does not stay  *)
(* out: the sweep renews the token, or finds that a login is needed.        *)
RefreshIsRetried ==
    row.status = "refresh_failed" ~> row.status # "refresh_failed"

-----------------------------------------------------------------------------
(* What the source says of itself and does not hold.                        *)

(* "The upstream accepted the refresh but we could not persist it. Serve    *)
(* this request with the fresh in-memory token; the next request will retry *)
(* the write path": a write that failed, and nothing else, loses no login.  *)
WriteIsRetried == faults = {"write"} => row.status # "login_required"
=============================================================================
