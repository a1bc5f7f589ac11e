-------------------------------- MODULE Pages --------------------------------
(* The pages of the web client over their cache of the server's answers        *)
(* (src/frontend/app/src: config/client.ts, config/router.ts, pages; the cache *)
(* is TanStack Query's).  A page shows queries, and offers changes; a change   *)
(* that succeeded invalidates keys of the cache, waits for what that reads     *)
(* again, and may then open another page.                                      *)
(*                                                                             *)
(* Queries do not act on one another, so a behaviour follows one of them,      *)
(* `watched`, with every page and every change that concerns it; the others    *)
(* only take time.  What the server holds is the sequence of the changes made  *)
(* to the facts the watched query shows, and an answer is how long a prefix of *)
(* it was read.  One browser acts: the changes of others only interleave with  *)
(* these.  The `enabled` of a query is taken to be true.                       *)
EXTENDS Payloads, Integers, Sequences, FiniteSets, SequencesExt

CONSTANTS
    None,           \* no page, no query, no fetch, no request
    Slots,          \* numbers of the requests that may be in flight together
    MaxRetries,     \* MAX_QUERY_RETRIES
    MovesOf         \* the queries to follow, each in turn, and how much is done

ASSUME RetriesAssumption == MaxRetries \in Nat
ASSUME SlotsAssumption == Slots \subseteq Nat /\ IsFiniteSet(Slots)

(***************************************************************************)
(* Queries: the key, and what the answer shows                             *)
(***************************************************************************)

Me == [key |-> <<"profiles", "me">>, shows |-> GetMyProfile]
MyPermissions == [key |-> <<"profiles", "me", "permissions">>, shows |-> GetMyPermissions]
MyMembership == [key |-> <<"profiles", "me", "membership">>, shows |-> GetMyMembership]
MembershipOf == [key |-> <<"profiles", "id", "membership">>, shows |-> GetProfileMembership]
Sessions == [key |-> <<"auth", "sessions">>, shows |-> ListSessions]
UpcomingEvents == [key |-> <<"events", "list", "upcoming">>, shows |-> ListEvents]
UpcomingAnswers == [key |-> <<"responses", "list", "upcoming">>, shows |-> ListResponses]
AnswerChanges == [key |-> <<"responses", "changes">>, shows |-> ListResponseChanges]
AllProfiles == [key |-> <<"profiles">>, shows |-> ListProfiles]
OneProfile == [key |-> <<"profiles", "id">>, shows |-> GetProfile]
OneEvent == [key |-> <<"events", "id">>, shows |-> GetEvent]
ManagedEvents == [key |-> <<"events", "list", "managed">>, shows |-> ListEvents]
CalendarEvents == [key |-> <<"events", "list", "calendar">>, shows |-> ListEvents]
NextEvents == [key |-> <<"events", "list", "next">>, shows |-> ListEvents]
MonthEvents == [key |-> <<"events", "list", "month">>, shows |-> ListEvents]
LatestFiles == [key |-> <<"files", "latest">>, shows |-> ListFiles]
MyAnswers == [key |-> <<"responses", "list", "mine">>, shows |-> ListResponses]
StatsOfMine == [key |-> <<"stats", "me">>, shows |-> GetMyStats]
StatsOfAll == [key |-> <<"stats", "global">>, shows |-> GetGlobalStats]
Mailbox == [key |-> <<"mailbox">>, shows |-> GetEmails]
Rankings == [key |-> <<"rankings">>, shows |-> GetUserRankings]
ApiKeys == [key |-> <<"api-keys">>, shows |-> ListMyApiKeys]
KeyPermissions == [key |-> <<"me", "permissions">>, shows |-> GetMyPermissions]
Passkeys == [key |-> <<"passkeys">>, shows |-> ListPasskeys]
AdminMembers == [key |-> <<"admin", "members">>, shows |-> ListMembers]
AdminRoles == [key |-> <<"admin", "roles">>, shows |-> ListRoleDetails]
AdminKeys == [key |-> <<"admin", "api-keys">>, shows |-> ListApiKeys]
AdminSystem == [key |-> <<"admin", "system">>, shows |-> GetSystemStatus]
Groups == [key |-> <<"groups">>, shows |-> ListGroups]
OneGroup == [key |-> <<"groups", "id">>, shows |-> GetGroup]
Preview == [key |-> <<"groups", "id", "mailing-list", "preview">>, shows |-> PreviewMailingList]
Roles == [key |-> <<"roles">>, shows |-> ListRoles]
Instruments == [key |-> <<"instruments">>, shows |-> ListInstruments]
Unlinked == [key |-> <<"helloasso", "unlinked">>, shows |-> ListUnlinkedMemberships]
AnswerByToken == [key |-> <<"response_view_by_token", "token">>, shows |-> GetResponseByToken]

Query ==
    [me |-> Me, permissions |-> MyPermissions, myMembership |-> MyMembership,
     membership |-> MembershipOf, sessions |-> Sessions, upcomingEvents |-> UpcomingEvents,
     upcomingAnswers |-> UpcomingAnswers, answerChanges |-> AnswerChanges,
     profiles |-> AllProfiles, profile |-> OneProfile, event |-> OneEvent,
     managedEvents |-> ManagedEvents, calendarEvents |-> CalendarEvents,
     nextEvents |-> NextEvents, monthEvents |-> MonthEvents, files |-> LatestFiles,
     myAnswers |-> MyAnswers, myStats |-> StatsOfMine, globalStats |-> StatsOfAll,
     mailbox |-> Mailbox, rankings |-> Rankings, apiKeys |-> ApiKeys,
     keyPermissions |-> KeyPermissions, passkeys |-> Passkeys, members |-> AdminMembers,
     roleDetails |-> AdminRoles, allKeys |-> AdminKeys, system |-> AdminSystem,
     groups |-> Groups, group |-> OneGroup, preview |-> Preview, roles |-> Roles,
     instruments |-> Instruments, unlinked |-> Unlinked, byToken |-> AnswerByToken]

(***************************************************************************)
(* Pages: the queries their own components observe                         *)
(***************************************************************************)

HomePage == {"me", "permissions", "nextEvents", "monthEvents", "files", "myAnswers",
             "myStats", "globalStats", "mailbox"}
DoodlePage == {"me", "permissions", "upcomingEvents", "profiles", "upcomingAnswers"}
PlanningPage == {"me", "permissions", "upcomingEvents", "profiles", "upcomingAnswers"}
EventsManagePage == {"managedEvents", "permissions"}
CalendarPage == {"permissions", "calendarEvents"}
DesinscriptionsPage == {"answerChanges", "permissions"}
EditEventPage == {"event"}
ProfilesPage == {"profiles", "permissions"}
ShowMyProfilePage == {"me", "permissions"}
ShowProfilePage == {"me", "permissions", "profile", "membership"}
EditProfilePage == {"permissions", "profile", "groups", "instruments"}
CreateProfilePage == {"groups", "instruments"}
RankingsPage == {"me", "rankings"}
ReconciliationPage == {"unlinked", "profiles"}
SettingsProfilePage == {"me"}
SettingsNotificationsPage == {"me"}
SettingsAccountPage == {"me"}
SettingsMembershipPage == {"myMembership"}
SettingsSecurityPage == {"passkeys"}
SettingsApiPage == {"apiKeys", "keyPermissions"}
AdminOverviewPage == {"members", "groups", "roleDetails", "unlinked"}
AdminGroupsPage == {"groups"}
AdminRolesPage == {"roleDetails"}
AdminMembersPage == {"members"}
AdminMembershipsPage == {"unlinked", "members"}
AdminCommunicationPage == {"members", "groups"}
AdminSecurityPage == {"members", "allKeys"}
AdminSystemPage == {"system"}
GroupPage == {"permissions", "group", "preview"}
AddGroupPage == {"permissions", "roles"}
EditGroupPage == {"permissions", "roles", "group"}
AnswerLinkPage == {"byToken"}

(* "appearance" is the page of the settings that shows nothing of the server;  *)
(* so do adding an event and inviting.                                         *)
Page ==
    [home |-> HomePage, doodle |-> DoodlePage, planning |-> PlanningPage,
     manage |-> EventsManagePage, calendar |-> CalendarPage,
     desinscriptions |-> DesinscriptionsPage, addEvent |-> {},
     editEvent |-> EditEventPage, list |-> ProfilesPage, myProfile |-> ShowMyProfilePage,
     show |-> ShowProfilePage, editProfile |-> EditProfilePage,
     addProfile |-> CreateProfilePage, invite |-> {}, rankings |-> RankingsPage,
     reconciliation |-> ReconciliationPage, settingsProfile |-> SettingsProfilePage,
     notifications |-> SettingsNotificationsPage, account |-> SettingsAccountPage,
     settingsMembership |-> SettingsMembershipPage,
     security |-> SettingsSecurityPage, api |-> SettingsApiPage, appearance |-> {},
     overview |-> AdminOverviewPage, adminGroups |-> AdminGroupsPage,
     adminRoles |-> AdminRolesPage, adminMembers |-> AdminMembersPage,
     adminMemberships |-> AdminMembershipsPage,
     communication |-> AdminCommunicationPage, adminSecurity |-> AdminSecurityPage,
     adminSystem |-> AdminSystemPage, showGroup |-> GroupPage, addGroup |-> AddGroupPage,
     editGroup |-> EditGroupPage, answerLink |-> AnswerLinkPage, login |-> {}]

(* What stays on the screen around pages, and observes queries of its own.     *)
AppBadge == {"me", "upcomingEvents", "upcomingAnswers"}
Navbar == {"me", "permissions", "sessions"}
AuthGuard == {"me"}
AdminGuard == {"permissions"}
SettingsLayout == {"me"}

Frame ==
    [app |-> AppBadge, member |-> Navbar \union AuthGuard, settings |-> SettingsLayout,
     admin |-> AdminGuard]

Outside == {"answerLink", "login"}
SettingsPages ==
    {"settingsProfile", "notifications", "account", "settingsMembership", "security",
     "api", "appearance"}
AdminPages ==
    {"overview", "adminGroups", "adminRoles", "adminMembers", "adminMemberships",
     "communication", "adminSecurity", "adminSystem"}

Frames(p) ==
    {"app"} \union (IF p \in Outside THEN {} ELSE {"member"})
            \union (IF p \in SettingsPages THEN {"settings"} ELSE {})
            \union (IF p \in AdminPages THEN {"admin"} ELSE {})

Observed == [p \in DOMAIN Page |-> Page[p] \union UNION {Frame[f] : f \in Frames(p)}]

(* What opening p from r mounts: a frame around both stays as it is. *)
Mounted == [p \in DOMAIN Page |-> [r \in DOMAIN Page |->
    Page[p] \union UNION {Frame[f] : f \in Frames(p) \ Frames(r)}]]

(***************************************************************************)
(* Changes: where one is asked, what it writes, and what follows           *)
(***************************************************************************)

(* refreshes: keys invalidated after a success, each awaited in turn; settles: *)
(* after a failure too; quiet: invalidated, not read again; rereads: queries   *)
(* read again after a failure; caches: the query whose answer it returns;      *)
(* goes: the pages one of which follows; guarded: not offered while pending;   *)
(* needs: the queries without whose data the page does not offer it;           *)
(* consumes: the query that shows what it acts on, until it is done.           *)
Plain ==
    [on |-> {}, writes |-> {}, refreshes |-> <<>>, settles |-> <<>>, quiet |-> FALSE,
     rereads |-> {}, caches |-> None, goes |-> {}, guarded |-> TRUE, needs |-> {},
     consumes |-> None]

AddEvent == [Plain EXCEPT
    !.on = {"addEvent"}, !.writes = CreateEvent, !.refreshes = <<<<"events">>>>,
    !.goes = {"manage"}]
EditEvent == [Plain EXCEPT
    !.on = {"editEvent"}, !.writes = UpdateEvent, !.refreshes = <<<<"events">>>>,
    !.goes = {"manage"}, !.needs = {"event"}]
RemoveEvent == [Plain EXCEPT
    !.on = {"editEvent"}, !.writes = DeleteEvent, !.refreshes = <<<<"events">>>>,
    !.quiet = TRUE, !.goes = {"manage"}]
(* Mutants: the dialog of a row closes on the click; nothing is read again. *)
BugDeleteRowAtOnce == [Plain EXCEPT
    !.on = {"manage"}, !.writes = DeleteEvent, !.refreshes = <<<<"events">>>>,
    !.guarded = FALSE, !.consumes = "managedEvents"]
DeleteRow == [Plain EXCEPT
    !.on = {"manage"}, !.writes = DeleteEvent, !.refreshes = <<<<"events">>>>,
    !.consumes = "managedEvents"]

(* The doodle waits for one answer as a whole, the planning for each event. *)
AnswerInDoodle == [Plain EXCEPT
    !.on = {"doodle"}, !.writes = CreateResponse, !.settles = <<<<"responses">>>>,
    !.needs = {"upcomingEvents"}]
AnswerOnPlanning == [Plain EXCEPT
    !.on = {"planning"}, !.writes = CreateResponse, !.settles = <<<<"responses">>>>,
    !.needs = {"upcomingEvents"}, !.guarded = FALSE]
AnswerByLink == [Plain EXCEPT
    !.on = {"answerLink"}, !.writes = CreateResponseByToken,
    !.refreshes = <<<<"response_view_by_token", "token">>>>, !.consumes = "byToken"]

AddProfile == [Plain EXCEPT
    !.on = {"addProfile"}, !.writes = CreateProfile, !.refreshes = <<<<"profiles">>>>,
    !.goes = {"list"}]
EditProfile == [Plain EXCEPT
    !.on = {"editProfile"}, !.writes = UpdateProfile,
    !.refreshes = <<<<"profiles", "id">>>>, !.goes = {"show"},
    !.needs = {"profile"}]
Deactivate == [Plain EXCEPT
    !.on = {"show"}, !.writes = DeleteProfile, !.refreshes = <<<<"profiles">>>>,
    !.goes = {"list"}, !.needs = {"profile", "me", "permissions"}]
SaveMyProfile == [Plain EXCEPT
    !.on = {"settingsProfile"}, !.writes = UpdateMyProfile,
    !.refreshes = <<<<"profiles", "me">>>>, !.needs = {"me"}]
(* Two switches, each of which waits for its own request. *)
SavePreferences == [Plain EXCEPT
    !.on = {"notifications"}, !.writes = UpdateMyProfile,
    !.refreshes = <<<<"profiles", "me">>>>, !.needs = {"me"}, !.guarded = FALSE]

CreateKey == [Plain EXCEPT
    !.on = {"api"}, !.writes = CreateMyApiKey, !.refreshes = <<<<"api-keys">>>>]
RevokeKey == [Plain EXCEPT
    !.on = {"api"}, !.writes = RevokeMyApiKey, !.refreshes = <<<<"api-keys">>>>,
    !.guarded = FALSE, !.consumes = "apiKeys"]
AdminRevokeKey == [Plain EXCEPT
    !.on = {"adminSecurity"}, !.writes = RevokeApiKey, !.refreshes = <<<<"admin">>>>,
    !.guarded = FALSE, !.consumes = "allKeys"]
MintCalendarKey == [Plain EXCEPT
    !.on = {"calendar", "doodle", "planning", "manage"}, !.writes = CreateMyApiKey,
    !.guarded = FALSE]
AddPasskey == [Plain EXCEPT
    !.on = {"security"}, !.writes = RegisterPasskey, !.refreshes = <<<<"passkeys">>>>]
RemovePasskey == [Plain EXCEPT
    !.on = {"security"}, !.writes = DeletePasskey, !.refreshes = <<<<"passkeys">>>>,
    !.consumes = "passkeys"]

(* Mutant: the members are not read again. *)
BugLinkOrderHalf == [Plain EXCEPT
    !.on = {"reconciliation"}, !.writes = LinkMembership,
    !.refreshes = <<<<"helloasso", "unlinked">>>>, !.consumes = "unlinked"]
LinkOrder == [Plain EXCEPT
    !.on = {"reconciliation"}, !.writes = LinkMembership,
    !.refreshes = <<<<"helloasso", "unlinked">>, <<"profiles">>>>, !.consumes = "unlinked"]
RemoveOrder == [Plain EXCEPT
    !.on = {"reconciliation"}, !.writes = DeleteMembership,
    !.refreshes = <<<<"helloasso", "unlinked">>>>, !.consumes = "unlinked"]
InviteAdherent == [Plain EXCEPT !.on = {"reconciliation"}, !.writes = CreateInvitation]
InviteByEmail == [Plain EXCEPT !.on = {"invite"}, !.writes = CreateInvitation]

AddGroupToList == [Plain EXCEPT
    !.on = {"addGroup"}, !.writes = CreateGroup, !.refreshes = <<<<"groups">>>>,
    !.goes = {"adminGroups", "list"}]
EditGroup == [Plain EXCEPT
    !.on = {"editGroup"}, !.writes = UpdateGroup,
    !.refreshes = <<<<"groups">>, <<"groups", "id">>>>, !.goes = {"adminGroups", "list"},
    !.needs = {"group"}]
SyncList == [Plain EXCEPT
    !.on = {"showGroup"}, !.writes = SyncMailingList, !.refreshes = <<<<"groups", "id">>>>,
    !.rereads = {"preview"}, !.caches = "preview", !.needs = {"group", "permissions"}]
TestEmail == [Plain EXCEPT !.on = {"communication"}, !.writes = SendTestEmail]

Change ==
    [addEvent |-> AddEvent, editEvent |-> EditEvent, removeEvent |-> RemoveEvent,
     deleteRow |-> DeleteRow, doodle |-> AnswerInDoodle, planning |-> AnswerOnPlanning,
     link |-> AnswerByLink, addProfile |-> AddProfile, editProfile |-> EditProfile,
     deactivate |-> Deactivate, saveProfile |-> SaveMyProfile,
     savePreferences |-> SavePreferences, createKey |-> CreateKey, revokeKey |-> RevokeKey,
     adminRevokeKey |-> AdminRevokeKey, mintKey |-> MintCalendarKey,
     addPasskey |-> AddPasskey, removePasskey |-> RemovePasskey, linkOrder |-> LinkOrder,
     removeOrder |-> RemoveOrder, inviteAdherent |-> InviteAdherent,
     inviteByEmail |-> InviteByEmail, addGroup |-> AddGroupToList, editGroup |-> EditGroup,
     syncList |-> SyncList, testEmail |-> TestEmail]

(***************************************************************************)
(* What concerns a query                                                   *)
(***************************************************************************)

Matches(key, q) == IsPrefix(key, Query[q].key)

Touching == [q \in DOMAIN Query |->
    {op \in DOMAIN Change : Change[op].writes \cap Query[q].shows # {}}]

Concerning == [q \in DOMAIN Query |->
    {op \in DOMAIN Change :
        \/ op \in Touching[q]
        \/ \E key \in ToSet(Change[op].refreshes \o Change[op].settles) : Matches(key, q)}]

(* The pages that have to do with it, and one that has not. *)
Near == [q \in DOMAIN Query |->
    {p \in DOMAIN Page :
        \/ q \in Page[p]
        \/ \E op \in Concerning[q] : p \in Change[op].on
        \/ p = "appearance"}]

ASSUME MovesAssumption ==
    DOMAIN MovesOf \subseteq DOMAIN Query /\ MovesOf \in [DOMAIN MovesOf -> Nat]

-----------------------------------------------------------------------------

VARIABLES
    watched,        \* the query followed
    page,           \* the page open
    changes,        \* the changes made to what it shows, in order
    shown,          \* how many of them the cached answer shows, NoData without one
    fetch,          \* the reading in flight
    last,           \* how the last reading ended
    request,        \* request[s]: the change in slot s being asked and followed up
    moves           \* what the member did, up to MovesOf[watched]

vars == <<watched, page, changes, shown, fetch, last, request, moves>>

NoData == -1

(* A reading asked when `asked` changes were made.  `late`: a page opened or a *)
(* key was invalidated since, and was satisfied with it.                       *)
Readings == [asked: Nat, late: BOOLEAN, tries: 0 .. MaxRetries]

(* A request waits for the query followed, or for others; once resumed it goes *)
(* on before anything else does, as continuations do.  here: asked on this     *)
(* visit of the page; step: the keys invalidated so far; made: the number of   *)
(* changes once it was made.                                                   *)
Requests ==
    [op: DOMAIN Change, at: {"asked", "made", "waiting", "elsewhere", "resumed"},
     ok: BOOLEAN, here: BOOLEAN, step: 0 .. 2, made: Nat]

ASSUME NoneAssumption == None \notin DOMAIN Query \union Readings \union Requests

(* here: made on this visit of the page; told: its success was received there. *)
Effects == [op: DOMAIN Change, here: BOOLEAN, told: BOOLEAN]

Init ==
    /\ watched \in DOMAIN MovesOf
    /\ page \in {p \in Near[watched] : watched \in Observed[p]}
    /\ changes = <<>>
    /\ shown = NoData
    /\ fetch = [asked |-> 0, late |-> FALSE, tries |-> 0]
    /\ last = "sound"
    /\ request = [s \in Slots |-> None]
    /\ moves = 0

At(s, stages) == request[s] # None /\ request[s].at \in stages
(* No continuation is left to run. *)
Quiet == \A s \in Slots : ~At(s, {"resumed"})

Move == Quiet /\ moves < MovesOf[watched] /\ moves' = moves + 1

(***************************************************************************)
(* The cache                                                               *)
(***************************************************************************)

Active == watched \in Observed[page]

Asked == [asked |-> Len(changes), late |-> FALSE, tries |-> 0]

(* Mutant: a mount counts as a try. *)
BugJoinIsATry == IF fetch = None THEN Asked ELSE [fetch EXCEPT !.late = TRUE, !.tries = @ + 1]
(* A component that mounts reads again, or joins the reading in flight. *)
Joined == IF fetch = None THEN Asked ELSE [fetch EXCEPT !.late = TRUE]

(* An invalidated query that is on screen is read anew; without data yet, it   *)
(* is left to the reading in flight.                                           *)
Renewed == IF fetch # None /\ shown = NoData THEN Joined ELSE Asked

(* defaultOptions.queries.retry, for what is still on screen *)
Retried == Active /\ fetch.tries < MaxRetries

(***************************************************************************)
(* Pages                                                                   *)
(***************************************************************************)

(* The profile could not be read again, and the pages for members are closed. *)
IsGuest == watched = "me" /\ last = "failed" /\ shown # NoData
Opened(p) == IF IsGuest /\ p \notin Outside THEN "login" ELSE p

(* Opening p: what the page left asked goes on without it. *)
Open(p, requests) ==
    IF p = page
    THEN request' = requests /\ UNCHANGED <<page, changes, fetch>>
    ELSE /\ page' = p
         /\ request' = [s \in Slots |->
                IF requests[s] = None THEN None ELSE [requests[s] EXCEPT !.here = FALSE]]
         /\ changes' = [k \in DOMAIN changes |-> [changes[k] EXCEPT !.here = FALSE]]
         /\ fetch' = IF watched \in Mounted[p][page] THEN Joined ELSE fetch

Visit(p) ==
    /\ Move
    /\ p # page
    /\ Open(Opened(p), request)
    /\ UNCHANGED <<watched, shown, last>>

(***************************************************************************)
(* A change, from the click to the end of what follows it                  *)
(***************************************************************************)

Pending(op) == \E s \in Slots : request[s] # None /\ request[s].op = op /\ request[s].here

(* What op acts on is on screen. *)
Offered(op) ==
    /\ page \in Change[op].on
    /\ Change[op].consumes = watched =>
          /\ shown # NoData
          /\ \A k \in 1 .. shown : Change[changes[k].op].consumes # watched
    /\ watched \in Change[op].needs => shown # NoData

(* The first free slot: slots stand for nothing. *)
Free == {s \in Slots : request[s] = None /\ \A t \in Slots : t < s => request[t] # None}

Ask(op, s) ==
    /\ Move
    /\ Offered(op)
    /\ Change[op].guarded => ~Pending(op)
    /\ s \in Free
    /\ request' = [request EXCEPT ![s] =
          [op |-> op, at |-> "asked", ok |-> FALSE, here |-> TRUE, step |-> 0, made |-> 0]]
    /\ UNCHANGED <<watched, page, changes, shown, fetch, last>>

(* The server makes the change. *)
Serve(s) ==
    /\ At(s, {"asked"})
    /\ Quiet
    /\ changes' = IF request[s].op \in Touching[watched]
                   THEN Append(changes, [op |-> request[s].op, here |-> request[s].here,
                                         told |-> FALSE])
                   ELSE changes
    /\ request' = [request EXCEPT ![s].at = "made", ![s].made = Len(changes')]
    /\ UNCHANGED <<watched, page, shown, fetch, last, moves>>

(* The success arrives: onSuccess starts. *)
Succeed(s) ==
    /\ At(s, {"made"})
    /\ Quiet
    /\ request' = [request EXCEPT ![s].at = "resumed", ![s].ok = TRUE]
    /\ changes' = IF request[s].op \in Touching[watched] /\ request[s].here
                   THEN [changes EXCEPT ![request[s].made].told = TRUE]
                   ELSE changes
    /\ shown' = IF Change[request[s].op].caches = watched THEN request[s].made ELSE shown
    /\ UNCHANGED <<watched, page, fetch, last, moves>>

(* It was refused, or the request or its answer is lost: onError. *)
Fail(s) ==
    /\ At(s, {"asked", "made"})
    /\ Quiet
    /\ request' = [request EXCEPT ![s].at = "resumed"]
    /\ fetch' = IF watched \in Change[request[s].op].rereads /\ Active
                 THEN Renewed ELSE fetch
    /\ UNCHANGED <<watched, page, changes, shown, last, moves>>

Keys(r) == (IF r.ok THEN Change[r.op].refreshes ELSE <<>>) \o Change[r.op].settles

(* The next key is invalidated, and what that reads again awaited. *)
Invalidate(s) ==
    /\ At(s, {"resumed"})
    /\ LET c == Change[request[s].op]
            step == request[s].step + 1
            reads == Matches(Keys(request[s])[step], watched) /\ Active /\ ~c.quiet
       IN /\ step <= Len(Keys(request[s]))
          /\ request' = [request EXCEPT ![s].step = step,
                ![s].at = IF c.quiet THEN "resumed" ELSE IF reads THEN "waiting" ELSE "elsewhere"]
          /\ fetch' = IF reads THEN Renewed ELSE fetch
    /\ UNCHANGED <<watched, page, changes, shown, last, moves>>

(* The other queries under the key have been read. *)
Resume(s) ==
    /\ At(s, {"elsewhere"})
    /\ Quiet
    /\ request' = [request EXCEPT ![s].at = "resumed"]
    /\ UNCHANGED <<watched, page, changes, shown, fetch, last, moves>>

(* All is done: the page that follows is opened, wherever the member is now. *)
Settle(s) ==
    /\ At(s, {"resumed"})
    /\ request[s].step = Len(Keys(request[s]))
    /\ LET goes == IF request[s].ok THEN Change[request[s].op].goes ELSE {}
            rest == [request EXCEPT ![s] = None]
       IN IF goes = {} THEN Open(page, rest) ELSE \E p \in goes : Open(Opened(p), rest)
    /\ UNCHANGED <<watched, shown, last, moves>>

(***************************************************************************)
(* Readings                                                                *)
(***************************************************************************)

(* Mutant: a reading remembers one who waits for it. *)
BugOneWoken == [s \in Slots |->
    IF At(s, {"waiting"}) /\ \A t \in Slots : t < s => ~At(t, {"waiting"})
    THEN [request[s] EXCEPT !.at = "resumed"] ELSE request[s]]
(* All who wait for the reading that ended go on. *)
Woken == [s \in Slots |->
            IF At(s, {"waiting"}) THEN [request[s] EXCEPT !.at = "resumed"] ELSE request[s]]

(* The answer shows what was there at some moment since it was asked. *)
Answer ==
    /\ fetch # None
    /\ Quiet
    /\ shown' \in fetch.asked .. Len(changes)
    /\ last' = IF fetch.late THEN "late" ELSE "sound"
    /\ fetch' = None
    /\ request' = Woken
    /\ UNCHANGED <<watched, page, changes, moves>>

Retry ==
    /\ fetch # None
    /\ Quiet
    /\ Retried
    /\ fetch' = [fetch EXCEPT !.asked = Len(changes), !.tries = @ + 1]
    /\ UNCHANGED <<watched, page, changes, shown, last, request, moves>>

(* Refused, or no longer retried: the data stays, and who waited goes on.  A   *)
(* page for members whose profile could not be read gives way to the login.    *)
GiveUp ==
    /\ fetch # None
    /\ Quiet
    /\ last' = "failed"
    /\ shown' = shown
    /\ IF watched = "me" /\ page \notin Outside
       THEN /\ page' = "login"
            /\ request' = [s \in Slots |->
                  IF Woken[s] = None THEN None ELSE [Woken[s] EXCEPT !.here = FALSE]]
            /\ changes' = [k \in DOMAIN changes |-> [changes[k] EXCEPT !.here = FALSE]]
       ELSE request' = Woken /\ UNCHANGED <<page, changes>>
    /\ fetch' = None
    /\ UNCHANGED <<watched, moves>>

(* The window is looked at again: what is on screen is read anew. *)
Focus ==
    /\ Active
    /\ Quiet
    /\ fetch = None
    /\ fetch' = Asked
    /\ UNCHANGED <<watched, page, changes, shown, last, request, moves>>

(* What no page observed for a while leaves the cache. *)
Forget ==
    /\ ~Active
    /\ Quiet
    /\ fetch = None
    /\ shown # NoData
    /\ shown' = NoData
    /\ last' = "sound"
    /\ UNCHANGED <<watched, page, changes, fetch, request, moves>>

FollowUp(s) == Invalidate(s) \/ Resume(s) \/ Settle(s)

Next ==
    \/ \E p \in Near[watched] : Visit(p)
    \/ \E op \in Concerning[watched], s \in Slots : Ask(op, s)
    \/ \E s \in Slots : Serve(s) \/ Succeed(s) \/ Fail(s) \/ FollowUp(s)
    \/ Answer
    \/ Retry
    \/ GiveUp
    \/ Focus
    \/ Forget

(* A request is answered or times out, and so is a reading, retried or not. *)
Fairness ==
    /\ \A s \in Slots : WF_vars(Succeed(s) \/ Fail(s)) /\ WF_vars(FollowUp(s))
    /\ WF_vars(Answer \/ Retry \/ GiveUp)

Spec == Init /\ [][Next]_vars /\ Fairness

-----------------------------------------------------------------------------

TypeOK ==
    /\ watched \in DOMAIN MovesOf
    /\ page \in DOMAIN Page
    /\ changes \in Seq(Effects) /\ Len(changes) <= moves
    /\ shown \in NoData .. Len(changes)
    /\ fetch \in {None} \union {f \in Readings : f.asked <= Len(changes)}
    /\ last \in {"sound", "late", "failed"}
    /\ request \in [Slots -> {None} \union {r \in Requests : r.made <= Len(changes)}]
    /\ moves \in 0 .. MovesOf[watched]

(* A page does not go back on what it told: once a change was confirmed on the *)
(* page that asked it, and what followed is over, neither that page nor a      *)
(* later one shows the data without it, when their last reading succeeded and  *)
(* was their own (every onSuccess of the pages; queries without staleTime).    *)
(* Not between two continuations: a success that arrives late puts its own old *)
(* answer in the cache (mailingListSection.tsx:164) just before it has it read *)
(* again.                                                                      *)
OwnChangesAreShown ==
    (/\ watched \in Page[page]
     /\ fetch = None
     /\ last = "sound"
     /\ Quiet
     /\ \A s \in Slots : ~(At(s, {"waiting", "elsewhere"}) /\ request[s].here))
        => \A k \in DOMAIN changes : changes[k].told => k <= shown

Asks(op) == \E s \in Slots :
                request[s] = None /\ request'[s] # None /\ request'[s].op = op

(* On one visit of a page, what was removed, linked or answered is not asked   *)
(* again (events.tsx:49-52: a second DELETE would end in a 404), as long as    *)
(* the list could be read again.  The two dialogs that revoke a key, which     *)
(* close on the click, do not have this.                                       *)
NothingIsAskedTwice ==
    [][\A op \in DOMAIN Change \ {"revokeKey", "adminRevokeKey"} :
          (Asks(op) /\ Change[op].consumes = watched /\ last = "sound")
             => \A k \in DOMAIN changes :
                   ~(changes[k].op = op /\ changes[k].here /\ changes[k].told)]_vars

(* A change asked is settled in the end, whatever is lost meanwhile, so its    *)
(* button comes back (isPending, isSubmitting).                                *)
SavingSettles == \A s \in Slots : request[s] # None ~> request[s] = None

=============================================================================
