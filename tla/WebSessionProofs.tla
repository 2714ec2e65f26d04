------------------------- MODULE WebSessionProofs -------------------------
(***************************************************************************)
(* Proofs about WebSession, for any tabs, tokens and slots.                *)
(***************************************************************************)
EXTENDS WebSession, TLAPS

USE SessionAssumption DEF Realm

LEMMA ChosenIsMember ==
    ASSUME NEW S, S # {} PROVE (CHOOSE x \in S : TRUE) \in S
OBVIOUS

LEMMA NotAProbe == NoProbe \notin Probe
BY DEF NoProbe, Probe

(* What runs is a table of probes with tokens of their realms; those that   *)
(* are live were started by the provider their tab still has.               *)
Slots(f) == f \in [Slot -> Probe \cup {NoProbe}]
Apart(f) == \A s \in Slot : f[s] # NoProbe => f[s].token \in Token[f[s].realm]
LiveAtHome(f, shown) ==
    \A s \in Slot : f[s] # NoProbe /\ f[s].live => f[s].realm = realmOf(shown[f[s].tab])

\* A form waits in a tab that has the provider it was filled in under, or is stray.
FormsAtHome ==
    \A b \in Tab \ stray : sending[b] # "nothing" => realmOf(page[b]) = "portal"
FormsApart == \A b \in Tab : sending[b] \in {"nothing", "answer"} \cup Token["portal"]

SessionInv ==
    SessionTypeOK /\ RealmsApart /\ LiveAtHome(probes, page) /\ FormsAtHome /\ FormsApart

\* No probe of tab b is live.
Quiet(f, b) == \A s \in Slot : f[s] # NoProbe /\ f[s].tab = b => ~f[s].live

Running(f) == Slots(f) /\ Apart(f) /\ LiveAtHome(f, page)

LEMMA CancelledIsQuiet ==
    ASSUME SessionInv, NEW b \in Tab
    PROVE  Running(Cancelled(b)) /\ Quiet(Cancelled(b), b)
<1> DEFINE f == Cancelled(b)
<1>1. ASSUME NEW s \in Slot
      PROVE  /\ f[s] \in Probe \cup {NoProbe}
             /\ f[s] # NoProbe /\ f[s].tab = b => ~f[s].live
             /\ f[s] # NoProbe => f[s].token \in Token[f[s].realm]
             /\ f[s] # NoProbe /\ f[s].live => f[s].realm = realmOf(page[f[s].tab])
  <2>1. probes[s] \in Probe \cup {NoProbe}
    BY DEF SessionInv, SessionTypeOK
  <2>2. CASE s \in Of(b)
    <3>1. probes[s] \in Probe /\ probes[s].tab = b /\ probes[s] # NoProbe
      BY <2>1, <2>2 DEF Of
    <3>2. f[s] = [tab |-> probes[s].tab, realm |-> probes[s].realm,
                  token |-> probes[s].token, live |-> FALSE]
      BY <2>2, <3>1 DEF Cancelled, Probe
    <3>3. probes[s].token \in Token[probes[s].realm]
      BY <3>1 DEF SessionInv, RealmsApart
    <3> QED BY <3>1, <3>2, <3>3 DEF Probe
  <2>3. CASE s \notin Of(b)
    <3>1. f[s] = probes[s]
      BY <2>3 DEF Cancelled
    <3> QED BY <2>1, <2>3, <3>1 DEF SessionInv, RealmsApart, LiveAtHome, Of
  <2> QED BY <2>2, <2>3
<1> QED BY <1>1 DEF Running, Slots, Apart, Quiet, LiveAtHome, Cancelled

LEMMA EndedIsQuiet ==
    ASSUME SessionInv, NEW b \in Tab
    PROVE  Running(Ended(b)) /\ Quiet(Ended(b), b)
<1> DEFINE f == Ended(b)
<1>1. ASSUME NEW s \in Slot
      PROVE  /\ f[s] \in Probe \cup {NoProbe}
             /\ f[s] # NoProbe /\ f[s].tab = b => ~f[s].live
             /\ f[s] # NoProbe => f[s].token \in Token[f[s].realm]
             /\ f[s] # NoProbe /\ f[s].live => f[s].realm = realmOf(page[f[s].tab])
  <2>1. probes[s] \in Probe \cup {NoProbe}
    BY DEF SessionInv, SessionTypeOK
  <2>2. CASE s \in Of(b)
    BY <2>2 DEF Ended
  <2>3. CASE s \notin Of(b)
    <3>1. f[s] = probes[s]
      BY <2>3 DEF Ended
    <3> QED BY <2>1, <2>3, <3>1 DEF SessionInv, RealmsApart, LiveAtHome, Of
  <2> QED BY <2>2, <2>3
<1> QED BY <1>1 DEF Running, Slots, Apart, Quiet, LiveAtHome, Ended

\* Whom the pages show belongs there.
ShownApart ==
    \A b \in Tab : me[b] # NoToken =>
        realmOf(page[b]) \in Realm /\ me[b] \in Token[realmOf(page[b])]

\* What a step keeps of the provider's side of the state.
ProviderOK ==
    /\ page \in [Tab -> Page]
    /\ me \in [Tab -> AnyToken \cup {NoToken}]
    /\ loading \subseteq Tab
    /\ Running(probes)
    /\ ShownApart

\* What is stored, said of any storage.
Stored(f) ==
    /\ f \in [Realm -> AnyToken \cup {NoToken}]
    /\ \A r \in Realm : f[r] # NoToken => f[r] \in Token[r]

LEMMA InvSplits ==
    SessionInv <=>
        /\ ProviderOK
        /\ Stored(storage)
        /\ valid \in [Realm -> SUBSET AnyToken]
        /\ toAdmin \subseteq Tab
        /\ sending \in [Tab -> {"nothing", "answer"} \cup AnyToken]
        /\ stray \subseteq Tab
        /\ FormsAtHome /\ FormsApart
BY DEF SessionInv, SessionTypeOK, RealmsApart, ProviderOK, ShownApart, Running, Slots,
       Apart, Stored

(* A provider that is mounted shows nobody, and the only live probe of its  *)
(* tab is its own.                                                          *)
LEMMA MountKeeps ==
    ASSUME SessionInv, NEW b \in Tab, NEW p \in Page,
           NEW stored, Stored(stored),
           NEW running, Running(running), Quiet(running, b),
           Mount(b, p, stored, running)
    PROVE  ProviderOK'
<1> DEFINE r == realmOf(p)
<1> USE DEF SessionInv, SessionTypeOK
<1>1. r \in Realm => stored[r] \in AnyToken \cup {NoToken}
  BY DEF Stored
<1>2. /\ page' \in [Tab -> Page]
      /\ page' = [page EXCEPT ![b] = p]
      /\ me' \in [Tab -> AnyToken \cup {NoToken}]
      /\ me' = [me EXCEPT ![b] = NoToken]
  BY DEF Mount
<1>3. ShownApart'
  BY <1>2 DEF ShownApart, RealmsApart
<1>4. ASSUME NEW s \in Slot, running[s] # NoProbe, running[s].live
      PROVE  running[s].realm = realmOf(page'[running[s].tab])
  <2>1. running[s] \in Probe /\ running[s].tab # b
    BY <1>4 DEF Running, Slots, Quiet
  <2> QED BY <1>2, <1>4, <2>1 DEF Running, LiveAtHome, Probe
<1>5. CASE r \in Realm /\ stored[r] # NoToken
  <2> DEFINE free == {s \in Slot : running[s] = NoProbe}
             n == CHOOSE s \in free : TRUE
             new == [tab |-> b, realm |-> r, token |-> stored[r], live |-> TRUE]
  <2>1. Asks(b, r, stored[r], running)
    BY <1>5 DEF Mount
  <2>2. n \in free
    BY <2>1, ChosenIsMember DEF Asks
  <2>3. probes' = [running EXCEPT ![n] = new] /\ loading' = loading \cup {b}
    BY <2>1 DEF Asks
  <2>4. /\ new \in Probe /\ new.token \in Token[new.realm]
        /\ new.tab = b /\ new.realm = realmOf(p)
    BY <1>1, <1>5 DEF Probe, Stored
  <2> HIDE DEF n, new
  <2>5. Slots(probes') /\ loading' \subseteq Tab
    BY <2>2, <2>3, <2>4 DEF Running, Slots
  <2>6. ASSUME NEW s \in Slot, probes'[s] # NoProbe
        PROVE  /\ probes'[s].token \in Token[probes'[s].realm]
               /\ probes'[s].live => probes'[s].realm = realmOf(page'[probes'[s].tab])
    <3>1. CASE s = n
      <4>1. probes'[s] = new
        BY <2>2, <2>3, <3>1 DEF Running, Slots
      <4>2. page'[b] = p
        BY <1>2
      <4> QED BY <2>4, <4>1, <4>2
    <3>2. CASE s # n
      <4>1. probes'[s] = running[s]
        BY <2>3, <3>2 DEF Running, Slots
      <4> QED BY <1>4, <2>6, <4>1 DEF Running, Apart
    <3> QED BY <3>1, <3>2
  <2> QED BY <1>2, <1>3, <2>5, <2>6 DEF ProviderOK, Running, Apart, LiveAtHome
<1>6. CASE ~(r \in Realm /\ stored[r] # NoToken)
  <2>1. loading' = loading \ {b} /\ probes' = running
    BY <1>6 DEF Mount
  <2> QED BY <1>2, <1>3, <1>4, <2>1 DEF ProviderOK, Running, Slots, Apart, LiveAtHome
<1> QED BY <1>5, <1>6

LEMMA NavigateKeeps ==
    ASSUME SessionInv, NEW b \in Tab, NEW p \in Page, NEW stored, Stored(stored),
           Navigate(b, p, stored)
    PROVE  ProviderOK' /\ page' = [page EXCEPT ![b] = p]
<1>1. CASE realmOf(p) = realmOf(page[b])
  <2>1. page' = [page EXCEPT ![b] = p] /\ UNCHANGED <<me, loading, probes>>
    BY <1>1 DEF Navigate
  <2>2. page \in [Tab -> Page]
    BY DEF SessionInv, SessionTypeOK
  <2>3. \A c \in Tab : realmOf(page'[c]) = realmOf(page[c])
    BY <1>1, <2>1, <2>2
  <2>4. page' \in [Tab -> Page]
    BY <2>1, <2>2
  <2>5. LiveAtHome(probes', page')
    BY <2>1, <2>3 DEF LiveAtHome, Probe, SessionInv, SessionTypeOK
  <2>6. ShownApart'
    BY <2>1, <2>3 DEF ShownApart, RealmsApart, SessionInv
  <2> QED BY <2>1, <2>4, <2>5, <2>6
          DEF SessionInv, SessionTypeOK, RealmsApart, ProviderOK, Running, Slots, Apart
<1>2. CASE realmOf(p) # realmOf(page[b])
  <2>1. Mount(b, p, stored, Cancelled(b))
    BY <1>2 DEF Navigate
  <2>2. ProviderOK'
    BY <2>1, CancelledIsQuiet, MountKeeps
  <2> QED BY <2>1, <2>2 DEF Mount
<1> QED BY <1>1, <1>2

\* A step that leaves the provider's side alone, or only retires a probe.
LEMMA SettledKeeps ==
    ASSUME SessionInv, NEW s \in Slot, Settled(s),
           me' \in [Tab -> AnyToken \cup {NoToken}], ShownApart'
    PROVE  ProviderOK'
<1>1. Slots(probes') /\ Apart(probes')
  BY DEF Settled, Slots, Apart, SessionInv, SessionTypeOK, RealmsApart
<1>2. LiveAtHome(probes', page')
  BY DEF Settled, LiveAtHome, SessionInv, SessionTypeOK
<1> QED BY <1>1, <1>2 DEF Settled, ProviderOK, Running, SessionInv, SessionTypeOK

LEMMA InvInit == Init => SessionInv
BY DEF Init, SessionInv, SessionTypeOK, RealmsApart, LiveAtHome, FormsAtHome, FormsApart,
       Probe, NoProbe, Page

(* The answer to a live probe is about a token of the console its tab shows. *)
LEMMA AnswerKeeps ==
    ASSUME SessionInv, NEW s \in Slot, Answered(s) PROVE SessionInv'
<1> DEFINE q == probes[s]
<1>1. q \in Probe /\ q # NoProbe
  BY DEF Answered, Probed, Refused, ProbeFails, SessionInv, SessionTypeOK
<1>2. Settled(s)
  BY DEF Answered, Probed, Refused, ProbeFails
<1>3. me' = IF q.live /\ me' # me THEN [me EXCEPT ![q.tab] = q.token] ELSE me
  BY DEF Answered, Probed, Refused, ProbeFails
<1>4. me' \in [Tab -> AnyToken \cup {NoToken}]
  BY <1>1, <1>3 DEF Probe, SessionInv, SessionTypeOK
<1>5. /\ q.token \in Token[q.realm] /\ q.realm \in Realm /\ q.tab \in Tab
      /\ q.live => q.realm = realmOf(page[q.tab])
  BY <1>1 DEF SessionInv, RealmsApart, LiveAtHome, Probe
<1>6. ShownApart'
  <2>1. page' = page
    BY <1>2 DEF Settled
  <2>2. CASE me' = me
    BY <2>1, <2>2 DEF ShownApart, SessionInv, RealmsApart
  <2>3. CASE q.live /\ me' = [me EXCEPT ![q.tab] = q.token]
    BY <1>5, <2>1, <2>3 DEF ShownApart, SessionInv, SessionTypeOK, RealmsApart
  <2> QED BY <1>3, <2>2, <2>3
<1>7. ProviderOK'
  BY <1>2, <1>4, <1>6, SettledKeeps
<1>8. Stored(storage')
  <2>1. Stored(storage)
    BY InvSplits
  <2> QED BY <2>1 DEF Answered, Probed, Refused, ProbeFails, setToken, Stored
<1>9. UNCHANGED <<page, valid, toAdmin, form>>
  BY <1>2 DEF Settled
<1> QED BY <1>7, <1>8, <1>9, InvSplits
        DEF SessionInv, SessionTypeOK, form, FormsAtHome, FormsApart, ProviderOK, Running,
            Slots, Apart, LiveAtHome, ShownApart, Stored, RealmsApart

\* What is left to show of a step that keeps the provider's side.
LEMMA RestKeeps ==
    ASSUME ProviderOK', Stored(storage'),
           valid' \in [Realm -> SUBSET AnyToken], toAdmin' \subseteq Tab,
           sending' \in [Tab -> {"nothing", "answer"} \cup AnyToken], stray' \subseteq Tab,
           FormsAtHome', FormsApart'
    PROVE  SessionInv'
BY DEF SessionInv, SessionTypeOK, RealmsApart, ProviderOK, ShownApart, Running, Slots,
       Apart, Stored, LiveAtHome, FormsAtHome, FormsApart

(* The form of a tab ends, wherever the tab is shown to be.                 *)
LEMMA FormEndsKeeps ==
    ASSUME SessionInv, NEW b \in Tab, FormEnds(b),
           \A c \in Tab \ {b} : page'[c] = page[c]
    PROVE  /\ sending' \in [Tab -> {"nothing", "answer"} \cup AnyToken]
           /\ stray' \subseteq Tab /\ FormsAtHome' /\ FormsApart'
BY DEF FormEnds, SessionInv, SessionTypeOK, FormsAtHome, FormsApart

\* The provider's side and the forms stay as they are.
LEMMA SameProviders ==
    ASSUME SessionInv, UNCHANGED <<page, me, loading, probes>> PROVE ProviderOK'
BY DEF SessionInv, SessionTypeOK, RealmsApart, ProviderOK, ShownApart, Running, Slots,
       Apart, LiveAtHome

LEMMA SameForms ==
    ASSUME SessionInv, UNCHANGED form,
           \A c \in Tab : realmOf(page'[c]) = realmOf(page[c]) \/ sending[c] = "nothing"
                         \/ realmOf(page'[c]) = "portal"
    PROVE  /\ sending' \in [Tab -> {"nothing", "answer"} \cup AnyToken]
           /\ stray' \subseteq Tab /\ FormsAtHome' /\ FormsApart'
BY DEF form, SessionInv, SessionTypeOK, FormsAtHome, FormsApart

LEMMA TabKeeps ==
    ASSUME SessionInv, NEW b \in Tab,
           \/ logout(b) \/ Protect(b) \/ Forward(b)
           \/ Submit(b) \/ Form(b) \/ Open(b) \/ Visit(b)
    PROVE  SessionInv'
<1>0. /\ Stored(storage) /\ valid \in [Realm -> SUBSET AnyToken] /\ toAdmin \subseteq Tab
      /\ page \in [Tab -> Page] /\ me \in [Tab -> AnyToken \cup {NoToken}]
      /\ loading \subseteq Tab
      /\ sending \in [Tab -> {"nothing", "answer"} \cup AnyToken] /\ stray \subseteq Tab
      /\ Running(probes) /\ ShownApart
  BY InvSplits DEF SessionInv, SessionTypeOK, ProviderOK
<1>1. CASE logout(b)
  <2>1. me' = [me EXCEPT ![b] = NoToken] /\ UNCHANGED <<valid, page, toAdmin, loading, probes, form>>
    BY <1>1 DEF logout
  <2>2. ProviderOK'
    BY <1>0, <2>1 DEF ProviderOK, ShownApart, Running, Slots, Apart, LiveAtHome
  <2>3. Stored(storage')
    BY <1>0, <1>1 DEF logout, setToken, Stored
  <2> QED BY <1>0, <2>1, <2>2, <2>3, SameForms, RestKeeps
<1>2. CASE Protect(b) \/ Forward(b)
  <2>1. PICK p \in Page : Navigate(b, p, storage) /\ realmOf(p) = "portal"
    BY <1>2 DEF Protect, Forward, Page, realmOf
  <2>2. ProviderOK' /\ page' = [page EXCEPT ![b] = p]
    BY <1>0, <2>1, NavigateKeeps
  <2>3. \A c \in Tab : realmOf(page'[c]) = realmOf(page[c]) \/ realmOf(page'[c]) = "portal"
    BY <1>0, <2>1, <2>2
  <2>4. UNCHANGED <<storage, valid, form>> /\ toAdmin' \subseteq Tab
    BY <1>0, <1>2 DEF Protect, Forward
  <2> QED BY <1>0, <2>2, <2>3, <2>4, SameForms, RestKeeps
<1>4. CASE Submit(b)
  <2>1. /\ page[b] = "login" /\ sending' = [sending EXCEPT ![b] = "answer"]
        /\ UNCHANGED <<storage, valid, tabs, probes, stray>>
    BY <1>4 DEF Submit
  <2>2. FormsAtHome' /\ FormsApart'
    BY <1>0, <2>1 DEF SessionInv, FormsAtHome, FormsApart, tabs, realmOf
  <2> QED BY <1>0, <2>1, <2>2, SameProviders, RestKeeps DEF tabs
<1>5. CASE Rejected(b)
  <2>1. FormEnds(b) /\ UNCHANGED <<storage, valid, tabs, probes>>
    BY <1>5 DEF Rejected
  <2> QED BY <1>0, <2>1, FormEndsKeeps, SameProviders, RestKeeps DEF tabs
<1>6. CASE LoggedIn(b)
  <2>1. PICK r \in Realm :
           LET t == CHOOSE u \in Unused(r) : TRUE
           IN  /\ Unused(r) # {}
               /\ storage' = [q \in Realm |-> IF q = r THEN t ELSE NoToken]
               /\ Issue(r, t)
               /\ Navigate(b, r, storage')
    BY <1>6 DEF LoggedIn
  <2> DEFINE t == CHOOSE u \in Unused(r) : TRUE
  <2>2. t \in Token[r] /\ t \in AnyToken /\ r \in Page
    BY <2>1, ChosenIsMember DEF Unused, AnyToken, Page
  <2> HIDE DEF t
  <2>3. Stored(storage')
    BY <2>1, <2>2 DEF t, Stored
  <2>4. ProviderOK' /\ page' = [page EXCEPT ![b] = r]
    <3>1. PICK stored : stored = storage'
      OBVIOUS
    <3>2. Navigate(b, r, stored) /\ Stored(stored)
      BY <2>1, <2>3, <3>1
    <3> QED BY <2>2, <3>2, NavigateKeeps
  <2>5. valid' \in [Realm -> SUBSET AnyToken]
    BY <1>0, <2>1, <2>2 DEF t, Issue
  <2>6. toAdmin' \subseteq Tab /\ FormEnds(b)
    BY <1>0, <1>6 DEF LoggedIn
  <2> QED BY <1>0, <2>3, <2>4, <2>5, <2>6, FormEndsKeeps, RestKeeps
<1>7. CASE SignedUp(b)
  <2> DEFINE t == CHOOSE u \in Unused("portal") : TRUE
  <2>1. t \in Token["portal"] /\ t \in AnyToken
    BY <1>7, ChosenIsMember DEF SignedUp, Unused, AnyToken
  <2>2. /\ setToken("portal", t)
        /\ Issue("portal", t)
        /\ sending[b] = "answer"
        /\ sending' = [sending EXCEPT ![b] = t]
        /\ UNCHANGED <<tabs, probes, stray>>
    BY <1>7 DEF SignedUp
  <2> HIDE DEF t
  <2>3. Stored(storage')
    BY <1>0, <2>1, <2>2 DEF setToken, Stored
  <2>4. FormsAtHome' /\ FormsApart'
    BY <1>0, <2>1, <2>2 DEF SessionInv, FormsAtHome, FormsApart, tabs
  <2>5. valid' \in [Realm -> SUBSET AnyToken]
    BY <1>0, <2>1, <2>2 DEF Issue
  <2>6. sending' \in [Tab -> {"nothing", "answer"} \cup AnyToken]
    BY <1>0, <2>1, <2>2
  <2> QED BY <1>0, <2>2, <2>3, <2>4, <2>5, <2>6, SameProviders, RestKeeps DEF tabs
<1>8. CASE Profiled(b)
  <2>1. UNCHANGED <<storage, valid>> /\ toAdmin' \subseteq Tab /\ FormEnds(b)
    BY <1>0, <1>8 DEF Profiled
  <2>2. ProviderOK' /\ page' = [page EXCEPT ![b] = "portal"]
    <3>1. CASE b \in stray
      BY <1>0, <1>8, <3>1, NavigateKeeps DEF Profiled, Page
    <3>2. CASE b \notin stray
      <4>1. /\ page' = [page EXCEPT ![b] = "portal"]
            /\ me' = [me EXCEPT ![b] = sending[b]]
            /\ UNCHANGED <<loading, probes>>
        BY <1>8, <3>2 DEF Profiled
      <4>2. sending[b] \in AnyToken
        BY <1>0, <1>8 DEF Profiled
      <4>3. sending[b] \notin {"nothing", "answer"}
        BY <4>2 DEF AnyToken
      <4>4. realmOf(page[b]) = "portal"
        BY <3>2, <4>3 DEF SessionInv, FormsAtHome
      <4>5. sending[b] \in Token["portal"]
        BY <4>3 DEF SessionInv, FormsApart
      <4>6. page' \in [Tab -> Page] /\ me' \in [Tab -> AnyToken \cup {NoToken}]
        BY <1>0, <4>1, <4>2 DEF Page
      <4>7. \A c \in Tab : realmOf(page'[c]) = realmOf(page[c])
        BY <1>0, <4>1, <4>4 DEF realmOf
      <4>8. Running(probes)'
        BY <1>0, <4>1, <4>7 DEF Running, Slots, Apart, LiveAtHome, Probe
      <4>9. ShownApart'
        BY <1>0, <4>1, <4>4, <4>5, <4>7 DEF ShownApart
      <4> QED BY <1>0, <4>1, <4>6, <4>8, <4>9 DEF ProviderOK
    <3> QED BY <3>1, <3>2
  <2> QED BY <1>0, <2>1, <2>2, FormEndsKeeps, RestKeeps
<1>9. CASE Open(b)
  <2>1. PICK p \in Page : Mount(b, p, storage, Ended(b))
    BY <1>9 DEF Open
  <2>2. ProviderOK' /\ page' = [page EXCEPT ![b] = p]
    BY <1>0, <2>1, EndedIsQuiet, MountKeeps DEF Mount
  <2>3. UNCHANGED <<storage, valid>> /\ toAdmin' \subseteq Tab /\ FormEnds(b)
    BY <1>0, <1>9 DEF Open
  <2> QED BY <1>0, <2>2, <2>3, FormEndsKeeps, RestKeeps
<1>10. CASE Visit(b)
  <2>1. PICK p \in Page :
          /\ Navigate(b, p, storage)
          /\ stray' = IF sending[b] # "nothing" /\ realmOf(p) # realmOf(page[b])
                      THEN stray \cup {b} ELSE stray
    BY <1>10 DEF Visit
  <2>2. ProviderOK' /\ page' = [page EXCEPT ![b] = p]
    BY <1>0, <2>1, NavigateKeeps
  <2>3. UNCHANGED <<storage, valid, sending>> /\ toAdmin' \subseteq Tab
    BY <1>0, <1>10 DEF Visit
  <2>4. FormsAtHome' /\ FormsApart' /\ stray' \subseteq Tab
    BY <1>0, <2>1, <2>2, <2>3 DEF SessionInv, FormsAtHome, FormsApart
  <2> QED BY <1>0, <2>2, <2>3, <2>4, RestKeeps
<1> QED BY <1>1, <1>2, <1>4, <1>5, <1>6, <1>7, <1>8, <1>9, <1>10 DEF Form

(* SessionInv is inductive. *)
LEMMA InvStep == SessionInv /\ [Next]_vars => SessionInv'
<1> SUFFICES ASSUME SessionInv, [Next]_vars PROVE SessionInv'
  OBVIOUS
<1>1. ASSUME NEW s \in Slot, Answered(s) PROVE SessionInv'
  BY <1>1, AnswerKeeps
<1>2. ASSUME NEW b \in Tab,
             \/ logout(b) \/ Protect(b) \/ Forward(b)
             \/ Submit(b) \/ Form(b) \/ Open(b) \/ Visit(b)
      PROVE  SessionInv'
  BY <1>2, TabKeeps
<1> USE DEF SessionInv, SessionTypeOK, RealmsApart, LiveAtHome, FormsAtHome, FormsApart
<1>3. ASSUME NEW r \in Realm, Expire(r) PROVE SessionInv'
  BY <1>3 DEF Expire, tabs, form
<1>4. CASE UNCHANGED vars
  BY <1>4 DEF vars, tabs, form
<1> QED BY <1>1, <1>2, <1>3, <1>4 DEF Next

(* Type correctness: storage, tabs, providers, probes and forms hold what   *)
(* their variables are for, whatever the tabs do.                           *)
THEOREM SessionTypeCorrect == Spec => []SessionTypeOK
<1>1. SessionInv => SessionTypeOK
  BY DEF SessionInv
<1> QED BY <1>1, InvInit, InvStep, PTL DEF Spec

(* No token crosses over: what is stored, probed with or shown for one      *)
(* console is a token of that console, for any number of tabs, late answers *)
(* and forms that outlive their provider (App.tsx: separate tokens).        *)
THEOREM RealmsStayApart == Spec => []RealmsApart
<1>1. SessionInv => RealmsApart
  BY DEF SessionInv
<1> QED BY <1>1, InvInit, InvStep, PTL DEF Spec

(* A console's session ends by a sign-out of its own, by a refusal of one   *)
(* of its own tokens, or by a unified login, and never by what happens to   *)
(* the other console.                                                       *)
THEOREM SessionsAreSeparate == Spec => SeparateSessions
<1>1. SessionInv /\ [Next]_vars => [EndsForCause]_vars
  <2> SUFFICES ASSUME SessionInv, [Next]_vars, NEW r \in Realm, Ends(r)
               PROVE  \/ \E b \in Tab : page[b] = r /\ me[b] # NoToken /\ me'[b] = NoToken
                      \/ Refuses(r)
                      \/ \E q \in Realm \ {r} : storage'[q] \notin {NoToken, storage[q]}
    BY DEF EndsForCause
  <2> USE DEF Ends, SessionInv, SessionTypeOK
  <2>1. ASSUME NEW s \in Slot, Answered(s)
        PROVE  Refuses(r)
    BY <2>1 DEF Answered, Probed, Refused, ProbeFails, Settled, setToken, Refuses
  <2>2. ASSUME NEW b \in Tab, logout(b)
        PROVE  page[b] = r /\ me[b] # NoToken /\ me'[b] = NoToken
    BY <2>2 DEF logout, setToken, Console
  <2>3. ASSUME NEW b \in Tab, LoggedIn(b)
        PROVE  \E q \in Realm \ {r} : storage'[q] \notin {NoToken, storage[q]}
    <3>1. PICK q \in Realm :
             /\ Unused(q) # {}
             /\ storage' = [x \in Realm |-> IF x = q THEN CHOOSE u \in Unused(q) : TRUE ELSE NoToken]
      BY <2>3 DEF LoggedIn
    <3> DEFINE t == CHOOSE u \in Unused(q) : TRUE
    <3>2. t \in Unused(q)
      BY <3>1, ChosenIsMember
    <3> HIDE DEF t
    <3>3. t \in Token[q] /\ t # storage[q] /\ t # NoToken
      BY <3>2 DEF Unused
    <3>4. storage' = [x \in Realm |-> IF x = q THEN t ELSE NoToken]
      BY <3>1 DEF t
    <3>5. q # r
      BY <3>3, <3>4
    <3> QED BY <3>3, <3>4, <3>5
  <2>4. ASSUME NEW b \in Tab, SignedUp(b)
        PROVE  FALSE
    <3> DEFINE t == CHOOSE u \in Unused("portal") : TRUE
    <3>1. t \in Token["portal"]
      BY <2>4, ChosenIsMember DEF SignedUp, Unused
    <3>2. storage' = [storage EXCEPT !["portal"] = t]
      BY <2>4 DEF SignedUp, setToken
    <3> HIDE DEF t
    <3> QED BY <3>1, <3>2
  <2>5. ASSUME NEW b \in Tab,
               \/ Protect(b) \/ Forward(b) \/ Submit(b) \/ Rejected(b) \/ Profiled(b)
               \/ Open(b) \/ Visit(b)
        PROVE  FALSE
    BY <2>5 DEF Protect, Forward, Submit, Rejected, Profiled, Open, Visit
  <2>6. ASSUME NEW q \in Realm, Expire(q)
        PROVE  FALSE
    BY <2>6 DEF Expire
  <2>7. CASE UNCHANGED vars
    BY <2>7 DEF vars
  <2> QED BY <2>1, <2>2, <2>3, <2>4, <2>5, <2>6, <2>7 DEF Next, Form
<1> QED BY <1>1, InvInit, InvStep, PTL DEF Spec, SeparateSessions

-----------------------------------------------------------------------------
(* Who is loading.                                                          *)

Waits(f, s, b) == f[s] # NoProbe /\ f[s].tab = b /\ f[s].live

\* Each tab of load waits for exactly one of the probes f, and the probes that
\* somebody waits for are theirs.
Awaited(f, load) ==
    /\ \A b \in load : \E s \in Slot : Waits(f, s, b)
    /\ \A s \in Slot, b \in Tab : Waits(f, s, b) => b \in load
    /\ \A s, u \in Slot, b \in Tab : Waits(f, s, b) /\ Waits(f, u, b) => s = u

(* A tab is at Loading exactly while one probe is under way whose answer    *)
(* will end it (the finally of either auth provider): none waits for a      *)
(* probe that has been answered, cancelled or cut off by a page load.       *)
LoadingIsAwaited == Awaited(probes, loading)

AwaitInv == SessionInv /\ LoadingIsAwaited

LEMMA RetiredAwaits ==
    ASSUME AwaitInv, NEW b \in Tab, NEW f, f = Cancelled(b) \/ f = Ended(b)
    PROVE  Awaited(f, loading \ {b})
<1>1. ASSUME NEW s \in Slot, NEW c \in Tab
      PROVE  Waits(f, s, c) <=> Waits(probes, s, c) /\ c # b
  <2>1. probes[s] \in Probe \cup {NoProbe}
    BY DEF AwaitInv, SessionInv, SessionTypeOK
  <2>2. CASE s \in Of(b)
    <3>1. probes[s] \in Probe /\ probes[s].tab = b
      BY <2>1, <2>2 DEF Of
    <3>2. CASE f = Cancelled(b)
      <4>1. f[s] = [tab |-> probes[s].tab, realm |-> probes[s].realm,
                    token |-> probes[s].token, live |-> FALSE]
        BY <2>2, <3>1, <3>2 DEF Cancelled, Probe
      <4> QED BY <3>1, <4>1 DEF Waits
    <3>3. CASE f = Ended(b)
      BY <2>2, <3>1, <3>3 DEF Ended, Waits
    <3> QED BY <3>2, <3>3
  <2>3. CASE s \notin Of(b)
    <3>1. f[s] = probes[s]
      BY <2>3 DEF Cancelled, Ended
    <3> QED BY <2>3, <3>1 DEF Waits, Of
  <2> QED BY <2>2, <2>3
<1>2. loading \subseteq Tab
  BY DEF AwaitInv, SessionInv, SessionTypeOK
<1> QED BY <1>1, <1>2 DEF Awaited, AwaitInv, LoadingIsAwaited

LEMMA MountAwaits ==
    ASSUME AwaitInv, NEW b \in Tab, NEW p, NEW stored, Stored(stored),
           NEW running, Slots(running), Awaited(running, loading \ {b}),
           Mount(b, p, stored, running)
    PROVE  LoadingIsAwaited'
<1> DEFINE r == realmOf(p)
           t == stored[r]
<1>1. CASE ~(r \in Realm /\ t # NoToken)
  BY <1>1 DEF Mount, LoadingIsAwaited
<1>2. CASE r \in Realm /\ t # NoToken
  <2> DEFINE free == {s \in Slot : running[s] = NoProbe}
             n == CHOOSE s \in free : TRUE
             new == [tab |-> b, realm |-> r, token |-> t, live |-> TRUE]
  <2>1. Asks(b, r, t, running)
    BY <1>2 DEF Mount
  <2>2. n \in free
    BY <2>1, ChosenIsMember DEF Asks
  <2>3. probes' = [running EXCEPT ![n] = new] /\ loading' = loading \cup {b}
    BY <2>1 DEF Asks
  <2>4. new # NoProbe /\ new.tab = b /\ new.live
    <3>1. new \in Probe
      BY <1>2 DEF Probe, Stored
    <3> QED BY <3>1, NotAProbe
  <2> HIDE DEF n, new
  <2>5. ASSUME NEW s \in Slot, NEW c \in Tab
        PROVE  Waits(probes', s, c) <=> (s = n /\ c = b) \/ (s # n /\ Waits(running, s, c))
    BY <2>2, <2>3, <2>4 DEF Waits, Slots
  <2>6. ASSUME NEW c \in Tab PROVE ~Waits(running, n, c)
    BY <2>2 DEF Waits
  <2>7. loading \subseteq Tab
    BY DEF AwaitInv, SessionInv, SessionTypeOK
  <2>8. \A c \in loading' : \E s \in Slot : Waits(probes', s, c)
    <3> SUFFICES ASSUME NEW c \in loading' PROVE \E s \in Slot : Waits(probes', s, c)
      OBVIOUS
    <3>1. CASE c = b
      BY <2>2, <2>5, <3>1
    <3>2. CASE c # b
      <4>1. PICK s \in Slot : Waits(running, s, c)
        BY <2>3, <3>2 DEF Awaited
      <4> QED BY <2>3, <2>5, <2>6, <2>7, <4>1
    <3> QED BY <3>1, <3>2
  <2>9. \A s \in Slot, c \in Tab : Waits(probes', s, c) => c \in loading'
    BY <2>3, <2>5 DEF Awaited
  <2>10. \A s, u \in Slot, c \in Tab : Waits(probes', s, c) /\ Waits(probes', u, c) => s = u
    BY <2>5 DEF Awaited
  <2> QED BY <2>8, <2>9, <2>10 DEF LoadingIsAwaited, Awaited
<1> QED BY <1>1, <1>2

LEMMA NavigateAwaits ==
    ASSUME AwaitInv, NEW b \in Tab, NEW p, NEW stored, Stored(stored), Navigate(b, p, stored)
    PROVE  LoadingIsAwaited'
<1>1. CASE realmOf(p) = realmOf(page[b])
  BY <1>1 DEF Navigate, AwaitInv, LoadingIsAwaited
<1>2. CASE realmOf(p) # realmOf(page[b])
  BY <1>2, RetiredAwaits, CancelledIsQuiet, MountAwaits DEF Navigate, AwaitInv, Running
<1> QED BY <1>1, <1>2

LEMMA SettledAwaits ==
    ASSUME AwaitInv, NEW s \in Slot, probes[s] # NoProbe, Settled(s)
    PROVE  LoadingIsAwaited'
<1>1. probes[s] \in Probe /\ loading \subseteq Tab
  BY DEF AwaitInv, SessionInv, SessionTypeOK
<1>2. ASSUME NEW u \in Slot, NEW c \in Tab
      PROVE  Waits(probes', u, c) <=> u # s /\ Waits(probes, u, c)
  BY DEF Waits, Settled, AwaitInv, SessionInv, SessionTypeOK
<1>3. CASE probes[s].live
  <2>1. Waits(probes, s, probes[s].tab) /\ loading' = loading \ {probes[s].tab}
    BY <1>3 DEF Waits, Settled
  <2>2. probes[s].tab \in Tab
    BY <1>1 DEF Probe
  <2> QED BY <1>1, <1>2, <2>1, <2>2 DEF LoadingIsAwaited, Awaited, AwaitInv, Waits
<1>4. CASE ~probes[s].live
  <2>1. loading' = loading
    BY <1>4 DEF Settled
  <2> QED BY <1>1, <1>2, <1>4, <2>1 DEF LoadingIsAwaited, Awaited, AwaitInv, Waits
<1> QED BY <1>3, <1>4

LEMMA AwaitStep == AwaitInv /\ [Next]_vars => LoadingIsAwaited'
<1> SUFFICES ASSUME AwaitInv, [Next]_vars PROVE LoadingIsAwaited'
  OBVIOUS
<1>0. Stored(storage)
  BY InvSplits DEF AwaitInv
<1>1. ASSUME NEW s \in Slot, Answered(s) PROVE LoadingIsAwaited'
  BY <1>1, SettledAwaits DEF Answered, Probed, Refused, ProbeFails
<1>2. ASSUME NEW b \in Tab, Protect(b) \/ Forward(b) \/ Visit(b) PROVE LoadingIsAwaited'
  BY <1>0, <1>2, NavigateAwaits DEF Protect, Forward, Visit
<1>3. ASSUME NEW b \in Tab, LoggedIn(b) PROVE LoadingIsAwaited'
  <2>1. PICK r \in Realm :
           LET t == CHOOSE u \in Unused(r) : TRUE
           IN  /\ Unused(r) # {}
               /\ storage' = [q \in Realm |-> IF q = r THEN t ELSE NoToken]
               /\ Navigate(b, r, storage')
    BY <1>3 DEF LoggedIn
  <2> DEFINE t == CHOOSE u \in Unused(r) : TRUE
  <2>2. t \in Token[r] /\ t \in AnyToken
    BY <2>1, ChosenIsMember DEF Unused, AnyToken
  <2>3. PICK stored : stored = storage'
    OBVIOUS
  <2>4. stored = [q \in Realm |-> IF q = r THEN t ELSE NoToken] /\ Navigate(b, r, stored)
    BY <2>1, <2>3
  <2> HIDE DEF t
  <2>5. Stored(stored)
    BY <2>2, <2>4 DEF Stored
  <2> QED BY <2>4, <2>5, NavigateAwaits
<1>4. ASSUME NEW b \in Tab, Open(b) PROVE LoadingIsAwaited'
  <2>1. PICK p : Mount(b, p, storage, Ended(b))
    BY <1>4 DEF Open
  <2>2. Slots(Ended(b)) /\ Awaited(Ended(b), loading \ {b})
    BY RetiredAwaits, EndedIsQuiet DEF AwaitInv, Running
  <2> QED BY <1>0, <2>1, <2>2, MountAwaits
<1>5. ASSUME NEW b \in Tab, Profiled(b) PROVE LoadingIsAwaited'
  <2>1. CASE b \in stray
    BY <1>0, <1>5, <2>1, NavigateAwaits DEF Profiled
  <2>2. CASE b \notin stray
    BY <1>5, <2>2 DEF Profiled, AwaitInv, LoadingIsAwaited
  <2> QED BY <2>1, <2>2
<1>6. ASSUME \/ \E b \in Tab : logout(b) \/ Submit(b) \/ Rejected(b) \/ SignedUp(b)
             \/ \E r \in Realm : Expire(r)
             \/ UNCHANGED vars
      PROVE  LoadingIsAwaited'
  <2>1. UNCHANGED <<probes, loading>>
    BY <1>6 DEF logout, Submit, Rejected, SignedUp, Expire, vars, tabs
  <2> QED BY <2>1 DEF AwaitInv, LoadingIsAwaited
<1> QED BY <1>1, <1>2, <1>3, <1>4, <1>5, <1>6 DEF Next, Form

(* What LoadingEnds rests on: with every probe answered sooner or later, no *)
(* tab can be left at Loading, since each that is there has its own probe   *)
(* under way, whatever other tabs, sign-outs and late answers do.           *)
THEOREM LoadingIsNeverAbandoned == Spec => []LoadingIsAwaited
<1>1. Init => LoadingIsAwaited
  BY DEF Init, LoadingIsAwaited, Awaited, Waits
<1>2. SessionInv /\ LoadingIsAwaited /\ [Next]_vars => LoadingIsAwaited'
  BY AwaitStep DEF AwaitInv
<1> QED BY <1>1, <1>2, InvInit, InvStep, PTL DEF Spec
=============================================================================
