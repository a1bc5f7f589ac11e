------------------------------ MODULE Accounts ------------------------------
(* Several accounts signed in to one browser (src/frontend/app/src/config/    *)
(* client.ts, pages/auth, guards, components/navbar.tsx; backend bbe2/utils/  *)
(* auth.py and api/v1/endpoints/auth.py).                                      *)
(*                                                                             *)
(* The cookie jar is shared by the tabs: one signed bmr_session_<id> cookie    *)
(* per account and the active_account selector, which the client writes to     *)
(* switch.  The server keeps no session: an answer is a function of the        *)
(* cookies its request carried, so it is computed when the request is sent     *)
(* and its effects (Set-Cookie, query cache, navigation) happen when it        *)
(* arrives, in any order with those of the other tabs.                         *)
(*                                                                             *)
(* A tab's query cache holds the profile (the key ['profiles','me'], which     *)
(* the guard reads) and the answer of one other query.  The single-session     *)
(* access_token cookie of earlier versions is not modelled.                    *)
EXTENDS Naturals, FiniteSets

CONSTANTS
    Accounts,       \* members with an account
    SignedIn,       \* those signed in before the first tab is opened
    Chosen,         \* the one of them active then
    Tabs,           \* tabs of the browser
    NoAccount,      \* no cookie, no cached answer, or a 401
    MaxMoves        \* bound on the logins, switches, logouts and expiries

ASSUME NoAccountAssumption == NoAccount \notin Accounts
ASSUME SignedInAssumption ==
    /\ SignedIn \subseteq Accounts
    /\ IF SignedIn = {} THEN Chosen = NoAccount ELSE Chosen \in SignedIn
ASSUME MovesAssumption == MaxMoves \in Nat

VARIABLES
    sessions,       \* accounts whose bmr_session_<id> cookie is in the jar
    selector,       \* the account named by the active_account cookie
    at,             \* at[t]: the page of tab t
    cache,          \* cache[t][k]: whose answer query k of tab t holds
    reading,        \* reading[t]: the query of tab t in flight, and whom it is
                    \* answered as
    writing,        \* writing[t]: the login or logout of tab t in flight
    moves,          \* the moves made, up to MaxMoves
    foreign         \* history: has the jar changed under tab t since its last
                    \* queryClient.clear(), other than by tab t?

jar  == <<sessions, selector>>
vars == <<sessions, selector, at, cache, reading, writing, moves, foreign>>

Pages == {"app", "login", "entering", "landing", "next", "choose", "away"}
Keys  == {"me", "data"}
Users == Accounts \union {NoAccount}

Nothing  == [kind |-> "nothing"]
Readings == {Nothing} \union [kind: Keys, as: Users]
Writings ==
    {Nothing}
      \union [kind: {"login"}, account: Accounts, by: {"form", "code"}]
      \union [kind: {"logout"}, target: Users, active: Users, next: Pages]
      \union [kind: {"logoutAll"}, signedIn: SUBSET Accounts]

(***************************************************************************)
(* The server                                                              *)
(***************************************************************************)

(* The account a request with these cookies acts as: the selector's if its  *)
(* session is there, else the only session's, else nobody's.                *)
Resolve(signedIn, named) ==
    IF named \in signedIn THEN named
    ELSE IF \E a \in Accounts : signedIn = {a}
         THEN CHOOSE a \in Accounts : signedIn = {a}
         ELSE NoAccount

Active == Resolve(sessions, selector)

(* Mutant: the first session of the header is signed out, not the active one. *)
BugLogoutOfTheFirst ==
    {[kind |-> "logout", target |-> a, active |-> selector, next |-> "app"] :
        a \in sessions}

(* POST /auth/logout without an account_id: the session of the selector's    *)
(* account is deleted and the selector moves to a remaining session (the      *)
(* first of the Cookie header, whose order is the browser's) or is deleted.   *)
(* The page the client goes to next depends on how many sessions remain.      *)
LogoutAnswers ==
    LET remaining == sessions \ {selector}
    IN  {[kind |-> "logout", target |-> selector, active |-> a,
          next |-> CASE remaining = {} -> "away"
                     [] Cardinality(remaining) = 1 -> "app"
                     [] OTHER -> "choose"] :
             a \in IF remaining = {} THEN {NoAccount} ELSE remaining}

(***************************************************************************)
(* The client                                                              *)
(***************************************************************************)

NoAnswers == [k \in Keys |-> NoAccount]

(* queryClient.clear() in tab t: the cache is emptied and the fetches in     *)
(* flight are dropped; then the tab is on page p.                            *)
ClearTo(t, p) ==
    /\ cache'   = [cache EXCEPT ![t] = NoAnswers]
    /\ reading' = [reading EXCEPT ![t] = Nothing]
    /\ at'      = [at EXCEPT ![t] = p]

(* Tab t changes the jar and starts from an empty cache: the others keep     *)
(* what they hold.                                                           *)
ChangedBy(t) == foreign' = [u \in Tabs |-> u # t]

Move == moves < MaxMoves /\ moves' = moves + 1

(* A page load of the app: a first visit, a reload, a link from elsewhere.   *)
(* It aborts what the tab had in flight.                                     *)
Load(t) ==
    /\ ClearTo(t, "app")
    /\ writing' = [writing EXCEPT ![t] = Nothing]
    /\ foreign' = [foreign EXCEPT ![t] = FALSE]
    /\ UNCHANGED <<sessions, selector, moves>>

(* The guard renders the pages of the app once the profile is there. *)
Authenticated(t) == at[t] = "app" /\ cache[t]["me"] # NoAccount

(* The queries tab t has mounted: the guard and the chooser read the profile,  *)
(* the pages the rest.                                                         *)
Mounted(t, k) ==
    \/ Authenticated(t)
    \/ at[t] \in {"app", "choose"} /\ k = "me"

(* A request carries the cookies of the moment it is sent. *)
Request(k) == [kind |-> k, as |-> Active]

(* A query is (re)fetched on mount, on focus, or after an invalidation. *)
Fetch(t, k) ==
    /\ reading[t] = Nothing
    /\ Mounted(t, k)
    /\ reading' = [reading EXCEPT ![t] = Request(k)]
    /\ UNCHANGED <<sessions, selector, at, cache, writing, moves, foreign>>

(* Where an answered profile leads.  After a login the app is entered; after  *)
(* an emailed code there may be a passkey or a password to offer first.       *)
Entered(page) ==
    CASE page = "entering" -> {"app"}
      [] page = "landing"  -> {"app", "next"}
      [] OTHER             -> {page}

(* The answer is cached. *)
Fetched(t) ==
    /\ reading[t] # Nothing
    /\ reading[t].as # NoAccount
    /\ cache' = [cache EXCEPT ![t][reading[t].kind] = reading[t].as]
    /\ \E p \in Entered(at[t]) : at' = [at EXCEPT ![t] = p]
    /\ reading' = [reading EXCEPT ![t] = Nothing]
    /\ UNCHANGED <<sessions, selector, writing, moves, foreign>>

(* Where a profile that cannot be read leads: the guard takes it for a guest  *)
(* and leaves for the login page, the login form shows an error, an emailed   *)
(* code goes home all the same.                                               *)
Refused(page) ==
    CASE page \in {"app", "entering"} -> "login"
      [] page = "landing"             -> "app"
      [] OTHER                        -> page

(* Mutant: a guest stays on the page. *)
BugGuestStays(t) ==
    /\ reading[t] # Nothing
    /\ reading[t].as = NoAccount \/ reading[t].kind = "me"
    /\ reading' = [reading EXCEPT ![t] = Nothing]
    /\ UNCHANGED <<sessions, selector, at, cache, writing, moves, foreign>>

(* A failed query keeps the data it has.  The profile's is not retried, so    *)
(* any failure of it counts; of another query, a 401.                          *)
FetchFails(t) ==
    /\ reading[t] # Nothing
    /\ reading[t].as = NoAccount \/ reading[t].kind = "me"
    /\ reading' = [reading EXCEPT ![t] = Nothing]
    /\ at' = [at EXCEPT ![t] = IF reading[t].kind = "me" THEN Refused(@) ELSE @]
    /\ UNCHANGED <<sessions, selector, cache, writing, moves, foreign>>

(* "Ajouter un compte": the login page, with the cache as it is. *)
AddAccount(t) ==
    /\ at[t] = "choose" \/ Authenticated(t)
    /\ at' = [at EXCEPT ![t] = "login"]
    /\ UNCHANGED <<sessions, selector, cache, reading, writing, moves, foreign>>

(* A password or a passkey (the form), or an emailed code, is sent for a. *)
Login(t, a, by) ==
    /\ Move
    /\ at[t] = "login"
    /\ writing[t] = Nothing
    /\ writing' = [writing EXCEPT ![t] = [kind |-> "login", account |-> a, by |-> by]]
    /\ UNCHANGED <<sessions, selector, at, cache, reading, foreign>>

(* Mutant: the selector is set to the credentials, not to the account's id. *)
BugSelectsCredentials(t) ==
    /\ writing[t].kind = "login"
    /\ sessions' = sessions \union {writing[t].account}
    /\ selector' = writing[t]
    /\ writing' = [writing EXCEPT ![t] = Nothing]
    /\ ClearTo(t, "entering")
    /\ ChangedBy(t)
    /\ UNCHANGED moves

(* Mutant: a login keeps the cache of the account that was active. *)
BugKeepsCache(t) ==
    /\ writing[t].kind = "login"
    /\ sessions' = sessions \union {writing[t].account}
    /\ selector' = writing[t].account
    /\ writing' = [writing EXCEPT ![t] = Nothing]
    /\ at'      = [at EXCEPT ![t] = "app"]
    /\ ChangedBy(t)
    /\ UNCHANGED <<cache, reading, moves>>

(* The session is added and made the active one; postLogin, and               *)
(* warmSessionAfterRecovery after a code, clear the cache and ask who is       *)
(* signed in.                                                                  *)
LoggedIn(t) ==
    /\ writing[t].kind = "login"
    /\ LET a == writing[t].account
       IN  /\ sessions' = sessions \union {a}
           /\ selector' = a
           /\ reading'  = [reading EXCEPT ![t] = [kind |-> "me", as |-> a]]
    /\ writing' = [writing EXCEPT ![t] = Nothing]
    /\ cache'   = [cache EXCEPT ![t] = NoAnswers]
    /\ at'      = [at EXCEPT ![t] =
                     IF writing[t].by = "code" THEN "landing" ELSE "entering"]
    /\ ChangedBy(t)
    /\ UNCHANGED moves

(* The landing after a code: whatever is chosen there leads home. *)
LeaveNext(t) ==
    /\ at[t] = "next"
    /\ at' = [at EXCEPT ![t] = "app"]
    /\ UNCHANGED <<sessions, selector, cache, reading, writing, moves, foreign>>

(* The menu offers the accounts other than the active one, the chooser all;   *)
(* both list the sessions as they were when the tab last asked, so a may have *)
(* lost its session since.                                                    *)
MenuOffers(t, a) == Authenticated(t) /\ a # cache[t]["me"]
ChooserOffers(t) == at[t] = "choose"

(* switchAccount: the selector is written, the cache cleared, the page       *)
(* loaded again.                                                             *)
Switch(t, a) ==
    /\ Move
    /\ MenuOffers(t, a) \/ ChooserOffers(t)
    /\ selector' = a
    /\ writing'  = [writing EXCEPT ![t] = Nothing]
    /\ ClearTo(t, "app")
    /\ ChangedBy(t)
    /\ UNCHANGED sessions

(* "Se deconnecter de ce compte": the menu names no account. *)
Logout(t) ==
    /\ Move
    /\ Authenticated(t)
    /\ writing[t] = Nothing
    /\ \E answer \in LogoutAnswers : writing' = [writing EXCEPT ![t] = answer]
    /\ UNCHANGED <<sessions, selector, at, cache, reading, foreign>>

(* The answer's cookies apply, the cache is cleared, the page loaded again. *)
LoggedOut(t) ==
    /\ writing[t].kind = "logout"
    /\ sessions' = sessions \ {writing[t].target}
    /\ selector' = writing[t].active
    /\ writing'  = [writing EXCEPT ![t] = Nothing]
    /\ ClearTo(t, writing[t].next)
    /\ ChangedBy(t)
    /\ UNCHANGED moves

(* "Se deconnecter de tous les comptes", in the chooser. *)
LogoutAll(t) ==
    /\ Move
    /\ ChooserOffers(t)
    /\ writing[t] = Nothing
    /\ writing' = [writing EXCEPT ![t] = [kind |-> "logoutAll", signedIn |-> sessions]]
    /\ UNCHANGED <<sessions, selector, at, cache, reading, foreign>>

LoggedOutOfAll(t) ==
    /\ writing[t].kind = "logoutAll"
    /\ sessions' = sessions \ writing[t].signedIn
    /\ selector' = NoAccount
    /\ writing'  = [writing EXCEPT ![t] = Nothing]
    /\ ClearTo(t, "login")
    /\ ChangedBy(t)
    /\ UNCHANGED moves

(* A login or a logout that fails changes nothing. *)
WriteFails(t) ==
    /\ writing[t] # Nothing
    /\ writing' = [writing EXCEPT ![t] = Nothing]
    /\ UNCHANGED <<sessions, selector, at, cache, reading, moves, foreign>>

(* A session cookie reaches its max-age; the selector, written again by each *)
(* switch, outlives it.                                                      *)
Expire(a) ==
    /\ Move
    /\ a \in sessions
    /\ sessions' = sessions \ {a}
    /\ foreign'  = [t \in Tabs |-> TRUE]
    /\ UNCHANGED <<selector, at, cache, reading, writing>>

Init ==
    /\ sessions = SignedIn
    /\ selector = Chosen
    /\ at       = [t \in Tabs |-> "away"]
    /\ cache    = [t \in Tabs |-> NoAnswers]
    /\ reading  = [t \in Tabs |-> Nothing]
    /\ writing  = [t \in Tabs |-> Nothing]
    /\ moves    = 0
    /\ foreign  = [t \in Tabs |-> FALSE]

Next ==
    \/ \E t \in Tabs :
           \/ Load(t)
           \/ \E k \in Keys : Fetch(t, k)
           \/ Fetched(t) \/ FetchFails(t)
           \/ AddAccount(t)
           \/ \E a \in Accounts :
                  \/ \E by \in {"form", "code"} : Login(t, a, by)
                  \/ Switch(t, a)
           \/ LoggedIn(t) \/ LeaveNext(t)
           \/ Logout(t) \/ LoggedOut(t)
           \/ LogoutAll(t) \/ LoggedOutOfAll(t)
           \/ WriteFails(t)
    \/ \E a \in Accounts : Expire(a)

(* A mounted query is refetched whenever its tab is focused, and answers     *)
(* arrive.                                                                   *)
Fairness ==
    \A t \in Tabs :
        /\ \A k \in Keys : SF_vars(Fetch(t, k))
        /\ WF_vars(Fetched(t) \/ FetchFails(t))

Spec == Init /\ [][Next]_vars /\ Fairness

(***************************************************************************)
(* Properties                                                              *)
(***************************************************************************)

TypeOK ==
    /\ sessions \subseteq Accounts
    /\ selector \in Users
    /\ at \in [Tabs -> Pages]
    /\ cache \in [Tabs -> [Keys -> Users]]
    /\ reading \in [Tabs -> Readings]
    /\ writing \in [Tabs -> Writings]
    /\ moves \in 0 .. MaxMoves
    /\ foreign \in [Tabs -> BOOLEAN]

Owners(t) == {cache[t][k] : k \in Keys} \ {NoAccount}

(* Cache isolation: whatever a tab does itself (switching, signing in or out, *)
(* with fetches in flight), it never renders the data of two accounts, nor    *)
(* those of an account it no longer acts as, as long as neither another tab   *)
(* nor an expiry changed the cookies under it.                                *)
UndisturbedTabIsOneAccount ==
    \A t \in Tabs : ~foreign[t] => Owners(t) \subseteq {Active}

(* Signing out "of this account" in an undisturbed tab ends no session but    *)
(* that of the account the tab shows.                                         *)
OnlyTheShownSignsOut ==
    [][\A t \in Tabs : LoggedOut(t) /\ ~foreign[t] =>
           sessions \ sessions' \subseteq {cache[t]["me"]}]_vars

(* Once people stop signing in, out and switching (MaxMoves), every tab that  *)
(* shows the app ends up showing only the account its requests act as,        *)
(* whatever the other tabs did before: no tab keeps the account another tab   *)
(* left.                                                                      *)
TabsConverge ==
    <>[](\A t \in Tabs : at[t] = "app" => Owners(t) \subseteq {Active})

=============================================================================
