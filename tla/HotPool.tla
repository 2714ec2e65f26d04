------------------------------ MODULE HotPool ------------------------------
(***************************************************************************)
(* An in-memory copy of a table (accounts, API keys, blocked addresses,    *)
(* alert channels, proxies or model prices) and what keeps it up to date:  *)
(* a ticker, a goroutine that LISTENs for the table's NOTIFY trigger, and, *)
(* for the prices, the price sync.  Each of them refreshes by a query      *)
(* followed, some time later, by a swap of the copy.                       *)
(*                                                                         *)
(* The table's content is the number of edits it has seen.                 *)
(***************************************************************************)
EXTENDS Integers

CONSTANTS
    Refresher,  \* who refreshes this pool: "listener" and "ticker" or "caller"
    MaxEdits,   \* bound: edits of the table
    MaxBackoff, \* steps from minBackoff to maxBackoff
    NoQuery

ASSUME PoolAssumption ==
    /\ MaxEdits \in Nat /\ MaxBackoff \in Nat \ {0}
    /\ "listener" \in Refresher /\ Refresher \subseteq {"listener", "ticker", "caller"}
    /\ NoQuery \notin Nat

VARIABLES
    db,       \* the table
    view,     \* Pool.byID and its siblings
    due,      \* refreshers about to query
    query,    \* what a refresher's query has returned, until it is swapped in
    listener, \* where Listener.run is
    broken,   \* the LISTEN connection is dead and the listener does not know
    inbox,    \* notifications the listener has still to take
    backoff,  \* step of the delay before the next attempt
    missed    \* observed: see Missed

refreshing == <<view, due, query>>
listening == <<listener, broken, inbox, backoff>>
vars == <<db, refreshing, listening, missed>>

PoolTypeOK ==
    /\ db \in 0..MaxEdits /\ view \in 0..MaxEdits
    /\ due \subseteq Refresher
    /\ query \in [Refresher -> 0..MaxEdits \cup {NoQuery}]
    /\ listener \in {"connecting", "waiting", "listening", "gone"}
    /\ broken \in BOOLEAN /\ missed \in BOOLEAN
    /\ inbox \in 0..MaxEdits
    /\ backoff \in 1..MaxBackoff

\* Start has refreshed once and the listener's goroutine sets out.
Init ==
    /\ db = 0 /\ view = 0
    /\ due = {}
    /\ query = [r \in Refresher |-> NoQuery]
    /\ listener = "connecting" /\ broken = FALSE
    /\ inbox = 0
    /\ backoff = 1
    /\ missed = FALSE

Idle(r) == r \notin due /\ query[r] = NoQuery
Live == listener = "listening" /\ ~broken

-----------------------------------------------------------------------------
(* Refresh, on any of its goroutines.                                       *)

Read(r) ==
    /\ r \in due
    /\ due' = due \ {r}
    /\ query' = [query EXCEPT ![r] = db]
    /\ UNCHANGED <<db, view, listening, missed>>

\* A failed query, or one that ran into the listener's ten seconds.
ReadFails(r) ==
    /\ r \in due
    /\ due' = due \ {r}
    /\ missed' = TRUE
    /\ UNCHANGED <<db, view, query, listening>>

(* Mutant: the listener takes what arrived meanwhile for done.              *)
SwapDrains(r) ==
    /\ query[r] # NoQuery
    /\ view' = query[r]
    /\ query' = [query EXCEPT ![r] = NoQuery]
    /\ inbox' = IF r = "listener" THEN 0 ELSE inbox
    /\ missed' = ((missed \/ view' < view) /\ view' # db)
    /\ UNCHANGED <<db, due, listener, broken, backoff>>

Swap(r) ==
    /\ query[r] # NoQuery
    /\ view' = query[r]
    /\ query' = [query EXCEPT ![r] = NoQuery]
    /\ missed' = ((missed \/ view' < view) /\ view' # db)
    /\ UNCHANGED <<db, due, listening>>

(* Mutant: the loop starts one tick and no more.                            *)
TickOnce ==
    /\ "ticker" \in Refresher /\ Idle("ticker") /\ db = 0
    /\ due' = due \cup {"ticker"}
    /\ UNCHANGED <<db, view, query, listening, missed>>

Tick ==
    /\ "ticker" \in Refresher /\ Idle("ticker")
    /\ due' = due \cup {"ticker"}
    /\ UNCHANGED <<db, view, query, listening, missed>>

-----------------------------------------------------------------------------
(* The listener.                                                            *)

\* LISTEN has been executed: the server queues notifications from here on.
Listen ==
    /\ listener = "connecting"
    /\ listener' = "listening"
    /\ UNCHANGED <<db, refreshing, broken, inbox, backoff, missed>>

Retry == listener' = "waiting" /\ UNCHANGED <<db, refreshing, backoff, missed>>

ConnectFails ==
    /\ listener = "connecting"
    /\ Retry
    /\ UNCHANGED <<broken, inbox>>

\* An error that wraps context.DeadlineExceeded, such as that of a connection
\* attempt that timed out, is taken for the end of the process.
TimesOut ==
    /\ listener = "connecting"
    /\ listener' = "gone"
    /\ UNCHANGED <<db, refreshing, broken, inbox, backoff, missed>>

\* WaitForNotification returns an error.
Disconnected ==
    /\ listener = "listening" /\ broken /\ Idle("listener")
    /\ broken' = FALSE
    /\ Retry
    /\ UNCHANGED inbox

Elapse ==
    /\ listener = "waiting"
    /\ listener' = "connecting"
    /\ backoff' = IF backoff < MaxBackoff THEN backoff + 1 ELSE MaxBackoff
    /\ UNCHANGED <<db, refreshing, broken, inbox, missed>>

Notified ==
    /\ Live /\ inbox > 0 /\ Idle("listener")
    /\ inbox' = inbox - 1
    /\ due' = due \cup {"listener"}
    /\ UNCHANGED <<db, view, query, listener, broken, backoff, missed>>

-----------------------------------------------------------------------------
(* The database.                                                            *)

\* The trigger notifies the sessions that listen; Live, one of them is ours.
Commit ==
    /\ db < MaxEdits
    /\ db' = db + 1
    /\ inbox' = IF Live THEN inbox + 1 ELSE inbox
    /\ missed' = (missed \/ ~Live)

Edit == Commit /\ UNCHANGED <<refreshing, listener, broken, backoff>>

\* SyncFromLiteLLM refreshes by itself after its upsert.
Sync ==
    /\ "caller" \in Refresher /\ Idle("caller")
    /\ Commit
    /\ due' = due \cup {"caller"}
    /\ UNCHANGED <<view, query, listener, broken, backoff>>

Break ==
    /\ Live
    /\ broken' = TRUE
    /\ inbox' = 0
    /\ missed' = (missed \/ inbox > 0)
    /\ UNCHANGED <<db, refreshing, listener, backoff>>

-----------------------------------------------------------------------------
RefreshStep(r) == Read(r) \/ ReadFails(r) \/ Swap(r)
ListenerStep == Listen \/ ConnectFails \/ TimesOut \/ Disconnected \/ Elapse \/ Notified

Next ==
    \/ \E r \in Refresher : RefreshStep(r)
    \/ Tick
    \/ ListenerStep
    \/ Edit \/ Sync \/ Break

Spec == Init /\ [][Next]_vars

-----------------------------------------------------------------------------
(* As long as the listener has had word of every edit, no query has failed  *)
(* and no refresh has overwritten the result of a later one (missed says    *)
(* otherwise, until the copy is right again), a copy that is out of date    *)
(* has a refresh ahead of it that reads the table as it is now: an edit     *)
(* between a query and its swap is not taken for seen.                      *)
Coming ==
    \/ Live /\ inbox > 0
    \/ "listener" \in due
    \/ query["listener"] = db

NoEditForgotten == view = db \/ missed \/ Coming

-----------------------------------------------------------------------------
(* Liveness: queries end and now and then succeed, timers fire.  Nothing is *)
(* assumed of the listener.                                                 *)
Fairness ==
    /\ WF_vars(Tick)
    /\ \A r \in Refresher : WF_vars(RefreshStep(r)) /\ SF_vars(Read(r)) /\ SF_vars(Swap(r))

LiveSpec == Spec /\ Fairness

\* For what is said of the listener: it is scheduled, and finds the database.
ListenerSpec ==
    /\ LiveSpec
    /\ SF_vars(Listen)
    /\ WF_vars(Disconnected) /\ WF_vars(Elapse) /\ WF_vars(Notified)

(* Once the edits stop, the copy comes to be the table and remains so,      *)
(* however late a refresh brings back an older copy, and with a ticker      *)
(* whatever becomes of the listener.  Of the prices, which have none, the   *)
(* source says that the listener brings a change "the moment a row          *)
(* changes"; under ListenerSpec it may bring none.                          *)
CatchesUp == <>[](view = db)
=============================================================================
