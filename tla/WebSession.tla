----------------------------- MODULE WebSession -----------------------------
(***************************************************************************)
(* The sessions of the web app in one browser: two bearer tokens in        *)
(* localStorage, which the tabs share, and in every tab the auth provider  *)
(* of the page it shows.  A provider probes /me when it is mounted, with   *)
(* the token stored at that moment; the answer may arrive when the         *)
(* provider is gone and another token is stored.  React keeps a provider    *)
(* that two routes have at the same place: the login page and the portal   *)
(* have one between them, the admin console another, the landing page none. *)
(*                                                                         *)
(* StrictMode, which mounts every provider twice in development, is left   *)
(* out, and so are the API calls of the pages: a 401 to one of them is     *)
(* shown and changes nothing here.                                         *)
(***************************************************************************)
EXTENDS FiniteSets, Integers

CONSTANTS
    Tab,
    Token,    \* bound: the tokens of each realm in circulation at once
    NoToken,
    Slot,     \* bound: probes in flight at once
    Signer,   \* bound: tabs in which somebody signs in or up
    Wanderer  \* bound: tabs whose user follows links and goes Back

Realm == {"admin", "portal"}

ASSUME SessionAssumption ==
    /\ "admin" # "portal"
    /\ \A r \in Realm : {NoToken, "nothing", "answer"} \cap Token[r] = {}
    /\ Signer \subseteq Tab /\ Wanderer \subseteq Tab

VARIABLES
    storage,  \* localStorage: omnihub.admin.token and omnihub.user.token
    valid,    \* tokens the server accepts, by realm
    page,     \* what each tab shows
    toAdmin,  \* tabs whose login page has next=/admin
    me,       \* who each tab's provider says is logged in: the token it probed
    loading,  \* tabs whose provider is waiting for its probe
    probes,   \* requests to /me by providers
    sending,  \* what each tab's form waits for: the answer, or its token's profile
    stray     \* tabs whose form waits although its provider is gone

tabs == <<page, toAdmin, me, loading>>
form == <<sending, stray>>
vars == <<storage, valid, tabs, probes, form>>

Page == {"landing", "login", "admin", "portal"}

NoProbe == [tab |-> "none"]
AnyToken == UNION {Token[r] : r \in Realm}
Probe == [tab : Tab, realm : Realm, token : AnyToken, live : BOOLEAN]

SessionTypeOK ==
    /\ storage \in [Realm -> AnyToken \cup {NoToken}]
    /\ valid \in [Realm -> SUBSET AnyToken]
    /\ page \in [Tab -> Page]
    /\ toAdmin \subseteq Tab
    /\ me \in [Tab -> AnyToken \cup {NoToken}]
    /\ loading \subseteq Tab
    /\ probes \in [Slot -> Probe \cup {NoProbe}]
    /\ sending \in [Tab -> {"nothing", "answer"} \cup AnyToken]
    /\ stray \subseteq Tab

Init ==
    /\ storage = [r \in Realm |-> NoToken]
    /\ valid = [r \in Realm |-> {}]
    /\ page = [b \in Tab |-> "landing"]
    /\ toAdmin = {}
    /\ me = [b \in Tab |-> NoToken]
    /\ loading = {}
    /\ probes = [s \in Slot |-> NoProbe]
    /\ sending = [b \in Tab |-> "nothing"]
    /\ stray = {}

\* The login page is under the portal's provider, the landing page under none.
realmOf(p) ==
    IF p = "admin" THEN "admin" ELSE IF p \in {"login", "portal"} THEN "portal" ELSE "none"
Console == {"admin", "portal"}

setToken(r, t) == storage' = [storage EXCEPT ![r] = t]

-----------------------------------------------------------------------------
(* Providers.                                                               *)

Of(b) == {s \in Slot : probes[s] # NoProbe /\ probes[s].tab = b}

\* The provider goes and takes its state with it, its probe still runs.
Cancelled(b) ==
    [s \in Slot |-> IF s \in Of(b) THEN [probes[s] EXCEPT !.live = FALSE] ELSE probes[s]]

\* A page load ends whatever the tab was running.
Ended(b) == [s \in Slot |-> IF s \in Of(b) THEN NoProbe ELSE probes[s]]

\* The probe of tab b's new provider, among those running.
Asks(b, r, t, running) ==
    LET free == {s \in Slot : running[s] = NoProbe}
    IN  /\ free # {}
        /\ loading' = loading \cup {b}
        /\ probes' = [running EXCEPT ![CHOOSE s \in free : TRUE] =
                         [tab |-> b, realm |-> r, token |-> t, live |-> TRUE]]

\* Tab b shows page p and mounts its provider, stored being in localStorage
\* and running being the probes that go on.
Mount(b, p, stored, running) ==
    /\ page' = [page EXCEPT ![b] = p]
    /\ me' = [me EXCEPT ![b] = NoToken]
    /\ IF realmOf(p) \in Realm /\ stored[realmOf(p)] # NoToken
       THEN Asks(b, realmOf(p), stored[realmOf(p)], running)
       ELSE loading' = loading \ {b} /\ probes' = running

\* The router shows page p: a provider of the same kind stays as it is.
Navigate(b, p, stored) ==
    IF realmOf(p) = realmOf(page[b])
    THEN page' = [page EXCEPT ![b] = p] /\ UNCHANGED <<me, loading, probes>>
    ELSE Mount(b, p, stored, Cancelled(b))

Settled(s) ==
    /\ probes' = [probes EXCEPT ![s] = NoProbe]
    /\ loading' = IF probes[s].live THEN loading \ {probes[s].tab} ELSE loading
    /\ UNCHANGED <<valid, page, toAdmin, form>>

\* A provider that is gone has no state left to set; cancelled says so too.
Probed(s) ==
    /\ probes[s] # NoProbe /\ probes[s].token \in valid[probes[s].realm]
    /\ me' = IF probes[s].live THEN [me EXCEPT ![probes[s].tab] = probes[s].token] ELSE me
    /\ Settled(s)
    /\ UNCHANGED storage

(* Mutant: setToken is that of the other API wrapper.                       *)
RefusedElsewhere(s) ==
    /\ probes[s] # NoProbe /\ probes[s].token \notin valid[probes[s].realm]
    /\ setToken("admin", NoToken)
    /\ Settled(s)
    /\ UNCHANGED me

\* 401: the stored token goes, whichever it is by now, and whether or not
\* anybody waits.
Refused(s) ==
    /\ probes[s] # NoProbe /\ probes[s].token \notin valid[probes[s].realm]
    /\ setToken(probes[s].realm, NoToken)
    /\ Settled(s)
    /\ UNCHANGED me

(* Mutant: no finally.                                                      *)
ProbeFailsLoading(s) ==
    /\ probes[s] # NoProbe
    /\ probes' = [probes EXCEPT ![s] = NoProbe]
    /\ UNCHANGED <<storage, me, loading, valid, page, toAdmin, form>>

\* 5xx or no network: the token is kept.
ProbeFails(s) ==
    /\ probes[s] # NoProbe
    /\ Settled(s)
    /\ UNCHANGED <<storage, me>>

Answered(s) == Probed(s) \/ Refused(s) \/ ProbeFails(s)

logout(b) ==
    /\ page[b] \in Console /\ me[b] # NoToken
    /\ setToken(page[b], NoToken)
    /\ me' = [me EXCEPT ![b] = NoToken]
    /\ UNCHANGED <<valid, page, toAdmin, loading, probes, form>>

-----------------------------------------------------------------------------
(* Routes.                                                                  *)

\* AdminProtected and PortalProtected send to /login by way of their own login
\* route.
Protect(b) ==
    /\ page[b] \in Console /\ b \notin loading /\ me[b] = NoToken
    /\ Navigate(b, "login", storage)
    /\ toAdmin' = IF page[b] = "admin" THEN toAdmin \cup {b} ELSE toAdmin
    /\ UNCHANGED <<storage, valid, form>>

(* Mutant: a stored token is taken for a user who is logged in.             *)
ForwardStored(b) ==
    /\ page[b] = "login" /\ storage["portal"] # NoToken /\ b \notin toAdmin
    /\ Navigate(b, "portal", storage)
    /\ UNCHANGED <<storage, valid, toAdmin, form>>

\* A user who is logged in has no business on the login page.
Forward(b) ==
    /\ page[b] = "login" /\ me[b] # NoToken /\ b \notin toAdmin
    /\ Navigate(b, "portal", storage)
    /\ UNCHANGED <<storage, valid, toAdmin, form>>

-----------------------------------------------------------------------------
(* The login page.                                                          *)

\* In either mode of the form; see LoggedIn and SignedUp.
Submit(b) ==
    /\ b \in Signer /\ page[b] = "login" /\ sending[b] = "nothing"
    /\ sending' = [sending EXCEPT ![b] = "answer"]
    /\ UNCHANGED <<storage, valid, tabs, probes, stray>>

\* The form of tab b waits for nothing any more.
FormEnds(b) ==
    /\ sending' = [sending EXCEPT ![b] = "nothing"]
    /\ stray' = stray \ {b}

Rejected(b) ==
    /\ sending[b] # "nothing"
    /\ FormEnds(b)
    /\ UNCHANGED <<storage, valid, tabs, probes>>

Unused(r) ==
    {t \in Token[r] : /\ t # storage[r] /\ t \notin valid[r]
                   /\ \A s \in Slot : probes[s] # NoProbe => probes[s].token # t
                   /\ \A b \in Tab : t # me[b] /\ t # sending[b]}

Issue(r, t) == valid' = [valid EXCEPT ![r] = @ \cup {t}]

\* unifiedLogin: one token is set, the other removed, and the tab navigates
\* wherever it is by now.
LoggedIn(b) ==
    /\ sending[b] = "answer"
    /\ \E r \in Realm :
          LET t == CHOOSE u \in Unused(r) : TRUE
          IN  /\ Unused(r) # {}
              /\ storage' = [q \in Realm |-> IF q = r THEN t ELSE NoToken]
              /\ Issue(r, t)
              /\ Navigate(b, r, storage')
    /\ toAdmin' = toAdmin \ {b}
    /\ FormEnds(b)

\* authed: the portal's token alone, then its profile is asked for.
SignedUp(b) ==
    LET t == CHOOSE u \in Unused("portal") : TRUE
    IN  /\ sending[b] = "answer"
        /\ Unused("portal") # {}
        /\ setToken("portal", t)
        /\ Issue("portal", t)
        /\ sending' = [sending EXCEPT ![b] = t]
        /\ UNCHANGED <<tabs, probes, stray>>

\* The profile has come: the tab goes to /portal, and the form's provider,
\* unless it is gone, shows the user there.  Without it, see Rejected, the form
\* shows an error and the token stays.
Profiled(b) ==
    /\ sending[b] \in valid["portal"]
    /\ IF b \in stray
       THEN Navigate(b, "portal", storage)
       ELSE /\ page' = [page EXCEPT ![b] = "portal"]
            /\ me' = [me EXCEPT ![b] = sending[b]]
            /\ UNCHANGED <<loading, probes>>
    /\ toAdmin' = toAdmin \ {b}
    /\ FormEnds(b)
    /\ UNCHANGED <<storage, valid>>

-----------------------------------------------------------------------------
(* The user and the server.                                                 *)

\* A tab is opened, or loads a page of the app anew.
Open(b) ==
    /\ \E p \in Page \ {"landing"} : Mount(b, p, storage, Ended(b))
    /\ toAdmin' = toAdmin \ {b}
    /\ FormEnds(b)
    /\ UNCHANGED <<storage, valid>>

\* A link (to the landing page or from it) or Back: no page is loaded, and a
\* form that waits goes on waiting.
Visit(b) ==
    /\ b \in Wanderer
    /\ \E p \in Page \ {page[b]} :
          /\ Navigate(b, p, storage)
          /\ stray' = IF sending[b] # "nothing" /\ realmOf(p) # realmOf(page[b])
                      THEN stray \cup {b} ELSE stray
          /\ \/ toAdmin' = toAdmin \ {b}
             \/ p = "login" /\ toAdmin' = toAdmin \cup {b}
    /\ UNCHANGED <<storage, valid, sending>>

Expire(r) ==
    /\ \E t \in valid[r] : valid' = [valid EXCEPT ![r] = @ \ {t}]
    /\ UNCHANGED <<storage, tabs, probes, form>>

-----------------------------------------------------------------------------
Form(b) == Rejected(b) \/ LoggedIn(b) \/ SignedUp(b) \/ Profiled(b)

Next ==
    \/ \E s \in Slot : Answered(s)
    \/ \E b \in Tab : logout(b) \/ Protect(b) \/ Forward(b)
    \/ \E b \in Tab : Submit(b) \/ Form(b) \/ Open(b) \/ Visit(b)
    \/ \E r \in Realm : Expire(r)

Spec == Init /\ [][Next]_vars

-----------------------------------------------------------------------------
(* Safety.                                                                  *)

(* No token crosses over: what is stored for a console, or probed with, is  *)
(* a token of that console, and so is whom a page shows, whatever provider  *)
(* a probe or a form was started under (App.tsx: the two trees never share  *)
(* a session).                                                              *)
RealmsApart ==
    /\ \A r \in Realm : storage[r] # NoToken => storage[r] \in Token[r]
    /\ \A s \in Slot : probes[s] # NoProbe => probes[s].token \in Token[probes[s].realm]
    /\ \A b \in Tab : me[b] # NoToken =>
          realmOf(page[b]) \in Realm /\ me[b] \in Token[realmOf(page[b])]

Ends(r) == storage[r] # NoToken /\ storage'[r] = NoToken
Refuses(r) == \E s \in Slot : /\ probes[s] # NoProbe /\ probes'[s] = NoProbe
                              /\ probes[s].realm = r /\ probes[s].token \notin valid[r]

(* The two consoles have separate sessions: one ends when its own tab signs *)
(* out, when the server has refused a token of its own, or when the unified *)
(* login puts the other in its place, and for nothing else.                 *)
EndsForCause ==
    \A r \in Realm : Ends(r) =>
        \/ \E b \in Tab : page[b] = r /\ me[b] # NoToken /\ me'[b] = NoToken
        \/ Refuses(r)
        \/ \E q \in Realm \ {r} : storage'[q] \notin {NoToken, storage[q]}

SeparateSessions == [][EndsForCause]_vars

-----------------------------------------------------------------------------
(* Liveness: every probe is answered, or fails.                             *)
Fairness == \A s \in Slot : WF_vars(Answered(s))

LiveSpec == Spec /\ Fairness

Wanders(b) == Open(b) \/ Visit(b)

(* No tab is left at Loading, unless its user changes pages for ever:       *)
(* whatever the answer, and whoever it comes late to, each provider comes   *)
(* to know whether somebody is logged in.                                   *)
LoadingEnds ==
    <>[][\A b \in Tab : ~Wanders(b)]_vars => \A b \in Tab : []<>(b \notin loading)

(* The two redirects never chase each other: AdminProtected and             *)
(* PortalProtected send whoever is not logged in to the login page, which   *)
(* sends whoever is logged in on to the portal.  Once the users leave pages *)
(* and forms alone, every tab comes to rest at one page, whatever is stored *)
(* and however the probes of the providers in between end.                  *)
RedirectsEnd ==
    <>[][\A b \in Tab : ~Wanders(b) /\ ~Submit(b)]_vars => <>[][UNCHANGED page]_vars

-----------------------------------------------------------------------------
(* What the source says of itself and does not hold.                        *)

(* A user's login is answered with "redirect_to": "/portal": the tab that   *)
(* follows it has a provider that shows this user or asks who it is, so     *)
(* that PortalProtected does not send it back to the login page.            *)
LandsSignedIn ==
    \A b \in Tab : LoggedIn(b) /\ page'[b] = "portal" => b \in loading' \/ me'[b] # NoToken

LoginReachesPortal == [][LandsSignedIn]_vars
=============================================================================
