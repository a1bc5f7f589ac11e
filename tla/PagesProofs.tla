----------------------------- MODULE PagesProofs ------------------------------
(***************************************************************************)
(* Proofs about Pages, for any number of slots, retries and moves: types,  *)
(* that a page shows what it confirmed, and that nothing is asked twice.   *)
(* The tables of queries, pages and changes are those of the client; what  *)
(* the proofs need of them is shown first, change by change (Tidy).        *)
(***************************************************************************)
EXTENDS Pages, SequenceTheorems, FiniteSetTheorems, TLAPS

(***************************************************************************)
(* The tables of the client                                                *)
(***************************************************************************)

\* The keys a change invalidates after a success, and after a failure.
Steps(op) == Change[op].refreshes \o Change[op].settles

Rest(op) == <<>> \o Change[op].settles

\* The j-th key of a change that succeeded has query q read again.
RereadsAt(op, j, q) ==
    /\ ~Change[op].quiet
    /\ j \in 1 .. Len(Steps(op))
    /\ Matches(Steps(op)[j], q)

\* What the table of changes keeps to.  A change that goes elsewhere is not
\* offered there, nor on the login; the one whose answer is cached has that query
\* read again first; what consumes a query shows it, stays and is guarded, but
\* for the revocation of keys; and whatever touches a query of its own page
\* leaves that page or has the query read again.
Tidy(op) ==
    LET c == Change[op]
    IN  /\ c.on \cap c.goes = {} /\ "login" \notin c.on
        /\ c.goes \subseteq DOMAIN Page
        /\ Len(Steps(op)) \in 0 .. 2 /\ Len(Rest(op)) \in 0 .. 2
        /\ c.caches = None \/ (c.caches = "preview" /\ RereadsAt(op, 1, "preview"))
        /\ c.consumes # None =>
             /\ c.consumes # "preview"
             /\ c.goes = {} /\ (\A p \in c.on : c.consumes \in Page[p])
             /\ c.guarded \/ op \in {"revokeKey", "adminRevokeKey"}
        /\ \A p \in c.on : \A q \in Page[p] :
             op \in Touching[q] => c.goes # {} \/ \E j \in 1 .. 2 : RereadsAt(op, j, q)

\* Each change by its name.
LEMMA ChangesAre ==
    /\ Change["addEvent"] = AddEvent
    /\ Change["editEvent"] = EditEvent
    /\ Change["removeEvent"] = RemoveEvent
    /\ Change["deleteRow"] = DeleteRow
    /\ Change["doodle"] = AnswerInDoodle
    /\ Change["planning"] = AnswerOnPlanning
    /\ Change["link"] = AnswerByLink
    /\ Change["addProfile"] = AddProfile
    /\ Change["editProfile"] = EditProfile
    /\ Change["deactivate"] = Deactivate
    /\ Change["saveProfile"] = SaveMyProfile
    /\ Change["savePreferences"] = SavePreferences
    /\ Change["createKey"] = CreateKey
    /\ Change["revokeKey"] = RevokeKey
    /\ Change["adminRevokeKey"] = AdminRevokeKey
    /\ Change["mintKey"] = MintCalendarKey
    /\ Change["addPasskey"] = AddPasskey
    /\ Change["removePasskey"] = RemovePasskey
    /\ Change["linkOrder"] = LinkOrder
    /\ Change["removeOrder"] = RemoveOrder
    /\ Change["inviteAdherent"] = InviteAdherent
    /\ Change["inviteByEmail"] = InviteByEmail
    /\ Change["addGroup"] = AddGroupToList
    /\ Change["editGroup"] = EditGroup
    /\ Change["syncList"] = SyncList
    /\ Change["testEmail"] = TestEmail
BY DEF Change

\* Each query by its name.
LEMMA QueriesAre ==
    /\ Query["me"] = Me
    /\ Query["permissions"] = MyPermissions
    /\ Query["myMembership"] = MyMembership
    /\ Query["membership"] = MembershipOf
    /\ Query["sessions"] = Sessions
    /\ Query["upcomingEvents"] = UpcomingEvents
    /\ Query["upcomingAnswers"] = UpcomingAnswers
    /\ Query["answerChanges"] = AnswerChanges
    /\ Query["profiles"] = AllProfiles
    /\ Query["profile"] = OneProfile
    /\ Query["event"] = OneEvent
    /\ Query["managedEvents"] = ManagedEvents
    /\ Query["calendarEvents"] = CalendarEvents
    /\ Query["nextEvents"] = NextEvents
    /\ Query["monthEvents"] = MonthEvents
    /\ Query["files"] = LatestFiles
    /\ Query["myAnswers"] = MyAnswers
    /\ Query["myStats"] = StatsOfMine
    /\ Query["globalStats"] = StatsOfAll
    /\ Query["mailbox"] = Mailbox
    /\ Query["rankings"] = Rankings
    /\ Query["apiKeys"] = ApiKeys
    /\ Query["keyPermissions"] = KeyPermissions
    /\ Query["passkeys"] = Passkeys
    /\ Query["members"] = AdminMembers
    /\ Query["roleDetails"] = AdminRoles
    /\ Query["allKeys"] = AdminKeys
    /\ Query["system"] = AdminSystem
    /\ Query["groups"] = Groups
    /\ Query["group"] = OneGroup
    /\ Query["preview"] = Preview
    /\ Query["roles"] = Roles
    /\ Query["instruments"] = Instruments
    /\ Query["unlinked"] = Unlinked
    /\ Query["byToken"] = AnswerByToken
BY DEF Query

\* Each page by its name.
LEMMA PagesAre ==
    /\ Page["home"] = HomePage
    /\ Page["doodle"] = DoodlePage
    /\ Page["planning"] = PlanningPage
    /\ Page["manage"] = EventsManagePage
    /\ Page["calendar"] = CalendarPage
    /\ Page["desinscriptions"] = DesinscriptionsPage
    /\ Page["addEvent"] = {}
    /\ Page["editEvent"] = EditEventPage
    /\ Page["list"] = ProfilesPage
    /\ Page["myProfile"] = ShowMyProfilePage
    /\ Page["show"] = ShowProfilePage
    /\ Page["editProfile"] = EditProfilePage
    /\ Page["addProfile"] = CreateProfilePage
    /\ Page["invite"] = {}
    /\ Page["rankings"] = RankingsPage
    /\ Page["reconciliation"] = ReconciliationPage
    /\ Page["settingsProfile"] = SettingsProfilePage
    /\ Page["notifications"] = SettingsNotificationsPage
    /\ Page["account"] = SettingsAccountPage
    /\ Page["settingsMembership"] = SettingsMembershipPage
    /\ Page["security"] = SettingsSecurityPage
    /\ Page["api"] = SettingsApiPage
    /\ Page["appearance"] = {}
    /\ Page["overview"] = AdminOverviewPage
    /\ Page["adminGroups"] = AdminGroupsPage
    /\ Page["adminRoles"] = AdminRolesPage
    /\ Page["adminMembers"] = AdminMembersPage
    /\ Page["adminMemberships"] = AdminMembershipsPage
    /\ Page["communication"] = AdminCommunicationPage
    /\ Page["adminSecurity"] = AdminSecurityPage
    /\ Page["adminSystem"] = AdminSystemPage
    /\ Page["showGroup"] = GroupPage
    /\ Page["addGroup"] = AddGroupPage
    /\ Page["editGroup"] = EditGroupPage
    /\ Page["answerLink"] = AnswerLinkPage
    /\ Page["login"] = {}
BY DEF Page

\* The pages that follow a change.
LEMMA PagesNamed == {"manage", "list", "show", "adminGroups"} \subseteq DOMAIN Page
BY DEF Page

\* There are no other changes.
LEMMA ChangesNamed ==
    DOMAIN Change = {"addEvent", "editEvent", "removeEvent", "deleteRow",
        "doodle", "planning", "link", "addProfile", "editProfile", "deactivate",
        "saveProfile", "savePreferences", "createKey", "revokeKey",
        "adminRevokeKey", "mintKey", "addPasskey", "removePasskey", "linkOrder",
        "removeOrder", "inviteAdherent", "inviteByEmail", "addGroup",
        "editGroup", "syncList", "testEmail"}
BY DEF Change

\* The queries that a change on the pages without a next one could touch.
LEMMA QueriesShow ==
    /\ "me" \in DOMAIN Query
    /\ Query["me"].shows = {"active", "belongs", "emails", "groups", "memberships",
        "names", "passwords", "pictures", "preferences"}
    /\ "permissions" \in DOMAIN Query
    /\ Query["permissions"].shows = {"belongs", "grants"}
    /\ "upcomingEvents" \in DOMAIN Query
    /\ Query["upcomingEvents"].shows = {"events"}
    /\ "upcomingAnswers" \in DOMAIN Query
    /\ Query["upcomingAnswers"].shows = {"answers"}
    /\ "profiles" \in DOMAIN Query
    /\ Query["profiles"].shows = {"active", "belongs", "emails", "groups",
        "memberships", "names", "passwords", "pictures", "preferences"}
    /\ "managedEvents" \in DOMAIN Query
    /\ Query["managedEvents"].shows = {"events"}
    /\ "calendarEvents" \in DOMAIN Query
    /\ Query["calendarEvents"].shows = {"events"}
    /\ "apiKeys" \in DOMAIN Query
    /\ Query["apiKeys"].shows = {"keys"}
    /\ "keyPermissions" \in DOMAIN Query
    /\ Query["keyPermissions"].shows = {"belongs", "grants"}
    /\ "passkeys" \in DOMAIN Query
    /\ Query["passkeys"].shows = {"passkeys"}
    /\ "members" \in DOMAIN Query
    /\ Query["members"].shows = {"active", "belongs", "devices", "emails", "groups",
        "keys", "memberships", "names", "passkeys", "passwords", "preferences"}
    /\ "allKeys" \in DOMAIN Query
    /\ Query["allKeys"].shows = {"keys", "names"}
    /\ "groups" \in DOMAIN Query
    /\ Query["groups"].shows = {"active", "belongs", "emails", "grants", "groups",
        "lists", "memberships", "names", "passwords", "pictures", "preferences",
        "roles"}
    /\ "group" \in DOMAIN Query
    /\ Query["group"].shows = {"active", "belongs", "emails", "grants", "groups",
        "lists", "memberships", "names", "passwords", "pictures", "preferences",
        "roles"}
    /\ "preview" \in DOMAIN Query
    /\ Query["preview"].shows = {"active", "belongs", "emails", "lists", "preferences"}
    /\ "unlinked" \in DOMAIN Query
    /\ Query["unlinked"].shows = {"orders"}
    /\ "byToken" \in DOMAIN Query
    /\ Query["byToken"].shows = {"answers", "events", "names", "pictures",
        "preferences"}
<1>1. /\ "me" \in DOMAIN Query /\ Query["me"] = Me
      /\ "permissions" \in DOMAIN Query /\ Query["permissions"] = MyPermissions
      /\ "upcomingEvents" \in DOMAIN Query /\ Query["upcomingEvents"] = UpcomingEvents
      /\ "upcomingAnswers" \in DOMAIN Query /\ Query["upcomingAnswers"] = UpcomingAnswers
      /\ "profiles" \in DOMAIN Query /\ Query["profiles"] = AllProfiles
  BY DEF Query
<1>2. Query["me"].shows = {"active", "belongs", "emails", "groups", "memberships",
          "names", "passwords", "pictures", "preferences"}
  BY <1>1 DEF Me, GetMyProfile, Profile, MinimalGroup
<1>3. Query["permissions"].shows = {"belongs", "grants"}
  BY <1>1 DEF MyPermissions, GetMyPermissions
<1>4. Query["upcomingEvents"].shows = {"events"}
  BY <1>1 DEF UpcomingEvents, ListEvents, Event
<1>5. Query["upcomingAnswers"].shows = {"answers"}
  BY <1>1 DEF UpcomingAnswers, ListResponses, Response
<1>6. Query["profiles"].shows = {"active", "belongs", "emails", "groups",
          "memberships", "names", "passwords", "pictures", "preferences"}
  BY <1>1 DEF AllProfiles, ListProfiles, Profile, MinimalGroup
<1>7. /\ "managedEvents" \in DOMAIN Query /\ Query["managedEvents"] = ManagedEvents
      /\ "calendarEvents" \in DOMAIN Query /\ Query["calendarEvents"] = CalendarEvents
      /\ "apiKeys" \in DOMAIN Query /\ Query["apiKeys"] = ApiKeys
      /\ "keyPermissions" \in DOMAIN Query /\ Query["keyPermissions"] = KeyPermissions
      /\ "passkeys" \in DOMAIN Query /\ Query["passkeys"] = Passkeys
  BY DEF Query
<1>8. Query["managedEvents"].shows = {"events"}
  BY <1>7 DEF ManagedEvents, ListEvents, Event
<1>9. Query["calendarEvents"].shows = {"events"}
  BY <1>7 DEF CalendarEvents, ListEvents, Event
<1>10. Query["apiKeys"].shows = {"keys"}
  BY <1>7 DEF ApiKeys, ListMyApiKeys, ApiKey
<1>11. Query["keyPermissions"].shows = {"belongs", "grants"}
  BY <1>7 DEF KeyPermissions, GetMyPermissions
<1>12. Query["passkeys"].shows = {"passkeys"}
  BY <1>7 DEF Passkeys, ListPasskeys, Passkey
<1>13. /\ "members" \in DOMAIN Query /\ Query["members"] = AdminMembers
      /\ "allKeys" \in DOMAIN Query /\ Query["allKeys"] = AdminKeys
      /\ "groups" \in DOMAIN Query /\ Query["groups"] = Groups
      /\ "group" \in DOMAIN Query /\ Query["group"] = OneGroup
      /\ "preview" \in DOMAIN Query /\ Query["preview"] = Preview
  BY DEF Query
<1>14. Query["members"].shows = {"active", "belongs", "devices", "emails", "groups",
          "keys", "memberships", "names", "passkeys", "passwords", "preferences"}
  BY <1>13 DEF AdminMembers, ListMembers, AdminMember, MinimalGroup
<1>15. Query["allKeys"].shows = {"keys", "names"}
  BY <1>13 DEF AdminKeys, ListApiKeys, AdminApiKey, ApiKey, ApiKeyOwner
<1>16. Query["groups"].shows = {"active", "belongs", "emails", "grants", "groups",
          "lists", "memberships", "names", "passwords", "pictures",
          "preferences", "roles"}
  BY <1>13 DEF Groups, ListGroups, Group, Role, Profile, MinimalGroup
<1>17. Query["group"].shows = {"active", "belongs", "emails", "grants", "groups",
          "lists", "memberships", "names", "passwords", "pictures",
          "preferences", "roles"}
  BY <1>13 DEF OneGroup, GetGroup, Group, Role, Profile, MinimalGroup
<1>18. Query["preview"].shows = {"active", "belongs", "emails", "lists", "preferences"}
  BY <1>13 DEF Preview, PreviewMailingList, MailingListPreview
<1>19. /\ "unlinked" \in DOMAIN Query /\ Query["unlinked"] = Unlinked
      /\ "byToken" \in DOMAIN Query /\ Query["byToken"] = AnswerByToken
  BY DEF Query
<1>20. Query["unlinked"].shows = {"orders"}
  BY <1>19 DEF Unlinked, ListUnlinkedMemberships, UnlinkedMembership
<1>21. Query["byToken"].shows = {"answers", "events", "names", "pictures",
          "preferences"}
  BY <1>19 DEF AnswerByToken, GetResponseByToken, Res, Event, MyProfileUpdate,
    Response
<1> QED BY <1>1, <1>2, <1>3, <1>4, <1>5, <1>6, <1>7, <1>8, <1>9, <1>10, <1>11,
  <1>12, <1>13, <1>14, <1>15, <1>16, <1>17, <1>18, <1>19, <1>20, <1>21

\* A change that writes nothing of what a query shows does not touch it.
LEMMA Spared ==
    ASSUME NEW q \in DOMAIN Query, NEW op, Change[op].writes \cap Query[q].shows = {}
    PROVE  op \notin Touching[q]
BY DEF Touching

\* Every mutation of the pages is as Tidy says: from its key lists, what it
\* writes, and what the queries of its page show.
LEMMA EachChangeIsTidy == \A op \in DOMAIN Change : Tidy(op)
<1>1. Tidy("addEvent")
  <2> DEFINE c == Change["addEvent"]
  <2>1. /\ c.on = {"addEvent"} /\ c.goes = {"manage"}
        /\ c.quiet = FALSE /\ c.guarded = TRUE
        /\ c.caches = None /\ c.consumes = None
    BY ChangesAre DEF AddEvent, Plain
  <2>2. /\ Steps("addEvent") = <<<<"events">>>>
        /\ Rest("addEvent") = <<>>
    BY ChangesAre DEF Steps, Rest, AddEvent, Plain
  <2>6. Len(Steps("addEvent")) = 1 /\ Len(Rest("addEvent")) = 0
    BY <2>2
  <2> QED BY <2>1, PagesNamed, <2>6 DEF Tidy

<1>2. Tidy("editEvent")
  <2> DEFINE c == Change["editEvent"]
  <2>1. /\ c.on = {"editEvent"} /\ c.goes = {"manage"}
        /\ c.quiet = FALSE /\ c.guarded = TRUE
        /\ c.caches = None /\ c.consumes = None
    BY ChangesAre DEF EditEvent, Plain
  <2>2. /\ Steps("editEvent") = <<<<"events">>>>
        /\ Rest("editEvent") = <<>>
    BY ChangesAre DEF Steps, Rest, EditEvent, Plain
  <2>6. Len(Steps("editEvent")) = 1 /\ Len(Rest("editEvent")) = 0
    BY <2>2
  <2> QED BY <2>1, PagesNamed, <2>6 DEF Tidy

<1>3. Tidy("removeEvent")
  <2> DEFINE c == Change["removeEvent"]
  <2>1. /\ c.on = {"editEvent"} /\ c.goes = {"manage"}
        /\ c.quiet = TRUE /\ c.guarded = TRUE
        /\ c.caches = None /\ c.consumes = None
    BY ChangesAre DEF RemoveEvent, Plain
  <2>2. /\ Steps("removeEvent") = <<<<"events">>>>
        /\ Rest("removeEvent") = <<>>
    BY ChangesAre DEF Steps, Rest, RemoveEvent, Plain
  <2>6. Len(Steps("removeEvent")) = 1 /\ Len(Rest("removeEvent")) = 0
    BY <2>2
  <2> QED BY <2>1, PagesNamed, <2>6 DEF Tidy

<1>4. Tidy("deleteRow")
  <2> DEFINE c == Change["deleteRow"]
  <2>1. /\ c.on = {"manage"} /\ c.goes = {}
        /\ c.quiet = FALSE /\ c.guarded = TRUE
        /\ c.caches = None /\ c.consumes = "managedEvents"
        /\ c.writes = {"answers", "events", "history"}
    BY ChangesAre DEF DeleteRow, Plain, DeleteEvent
  <2>2. /\ Steps("deleteRow") = <<<<"events">>>>
        /\ Rest("deleteRow") = <<>>
    BY ChangesAre DEF Steps, Rest, DeleteRow, Plain
  <2>3. \A q \in Page["manage"] :
         "deleteRow" \in Touching[q] => q \in {"managedEvents"}
    BY <2>1, PagesAre, QueriesShow, Spared DEF EventsManagePage
  <2>4. Matches(<<"events">>, "managedEvents")
    BY QueriesAre DEF Matches, IsPrefix, ManagedEvents
  <2>5. RereadsAt("deleteRow", 1, "managedEvents")
    BY <2>1, <2>2, <2>4 DEF RereadsAt
  <2>6. Len(Steps("deleteRow")) = 1 /\ Len(Rest("deleteRow")) = 0
    BY <2>2
  <2>7. "managedEvents" \in Page["manage"]
    BY PagesAre DEF EventsManagePage
  <2> QED BY <2>1, PagesNamed, <2>3, <2>5, <2>6, <2>7 DEF Tidy

<1>5. Tidy("doodle")
  <2> DEFINE c == Change["doodle"]
  <2>1. /\ c.on = {"doodle"} /\ c.goes = {}
        /\ c.quiet = FALSE /\ c.guarded = TRUE
        /\ c.caches = None /\ c.consumes = None
        /\ c.writes = {"answers", "history"}
    BY ChangesAre DEF AnswerInDoodle, Plain, CreateResponse, ResponseCreate
  <2>2. /\ Steps("doodle") = <<<<"responses">>>>
        /\ Rest("doodle") = <<<<"responses">>>>
    BY ChangesAre DEF Steps, Rest, AnswerInDoodle, Plain
  <2>3. \A q \in Page["doodle"] :
         "doodle" \in Touching[q] => q \in {"upcomingAnswers"}
    BY <2>1, PagesAre, QueriesShow, Spared DEF DoodlePage
  <2>4. Matches(<<"responses">>, "upcomingAnswers")
    BY QueriesAre DEF Matches, IsPrefix, UpcomingAnswers
  <2>5. RereadsAt("doodle", 1, "upcomingAnswers")
    BY <2>1, <2>2, <2>4 DEF RereadsAt
  <2>6. Len(Steps("doodle")) = 1 /\ Len(Rest("doodle")) = 1
    BY <2>2
  <2> QED BY <2>1, PagesNamed, <2>3, <2>5, <2>6 DEF Tidy

<1>6. Tidy("planning")
  <2> DEFINE c == Change["planning"]
  <2>1. /\ c.on = {"planning"} /\ c.goes = {}
        /\ c.quiet = FALSE /\ c.guarded = FALSE
        /\ c.caches = None /\ c.consumes = None
        /\ c.writes = {"answers", "history"}
    BY ChangesAre DEF AnswerOnPlanning, Plain, CreateResponse, ResponseCreate
  <2>2. /\ Steps("planning") = <<<<"responses">>>>
        /\ Rest("planning") = <<<<"responses">>>>
    BY ChangesAre DEF Steps, Rest, AnswerOnPlanning, Plain
  <2>3. \A q \in Page["planning"] :
         "planning" \in Touching[q] => q \in {"upcomingAnswers"}
    BY <2>1, PagesAre, QueriesShow, Spared DEF PlanningPage
  <2>4. Matches(<<"responses">>, "upcomingAnswers")
    BY QueriesAre DEF Matches, IsPrefix, UpcomingAnswers
  <2>5. RereadsAt("planning", 1, "upcomingAnswers")
    BY <2>1, <2>2, <2>4 DEF RereadsAt
  <2>6. Len(Steps("planning")) = 1 /\ Len(Rest("planning")) = 1
    BY <2>2
  <2> QED BY <2>1, PagesNamed, <2>3, <2>5, <2>6 DEF Tidy

<1>7. Tidy("link")
  <2> DEFINE c == Change["link"]
  <2>1. /\ c.on = {"answerLink"} /\ c.goes = {}
        /\ c.quiet = FALSE /\ c.guarded = TRUE
        /\ c.caches = None /\ c.consumes = "byToken"
        /\ c.writes = {"answers", "history"}
    BY ChangesAre DEF AnswerByLink, Plain, CreateResponseByToken, ResponseCreate
  <2>2. /\ Steps("link") = <<<<"response_view_by_token", "token">>>>
        /\ Rest("link") = <<>>
    BY ChangesAre DEF Steps, Rest, AnswerByLink, Plain
  <2>3. \A q \in Page["answerLink"] :
         "link" \in Touching[q] => q \in {"byToken"}
    BY PagesAre DEF AnswerLinkPage
  <2>4. Matches(<<"response_view_by_token", "token">>, "byToken")
    BY QueriesAre DEF Matches, IsPrefix, AnswerByToken
  <2>5. RereadsAt("link", 1, "byToken")
    BY <2>1, <2>2, <2>4 DEF RereadsAt
  <2>6. Len(Steps("link")) = 1 /\ Len(Rest("link")) = 0
    BY <2>2
  <2>7. "byToken" \in Page["answerLink"]
    BY PagesAre DEF AnswerLinkPage
  <2> QED BY <2>1, PagesNamed, <2>3, <2>5, <2>6, <2>7 DEF Tidy

<1>8. Tidy("addProfile")
  <2> DEFINE c == Change["addProfile"]
  <2>1. /\ c.on = {"addProfile"} /\ c.goes = {"list"}
        /\ c.quiet = FALSE /\ c.guarded = TRUE
        /\ c.caches = None /\ c.consumes = None
    BY ChangesAre DEF AddProfile, Plain
  <2>2. /\ Steps("addProfile") = <<<<"profiles">>>>
        /\ Rest("addProfile") = <<>>
    BY ChangesAre DEF Steps, Rest, AddProfile, Plain
  <2>6. Len(Steps("addProfile")) = 1 /\ Len(Rest("addProfile")) = 0
    BY <2>2
  <2> QED BY <2>1, PagesNamed, <2>6 DEF Tidy

<1>9. Tidy("editProfile")
  <2> DEFINE c == Change["editProfile"]
  <2>1. /\ c.on = {"editProfile"} /\ c.goes = {"show"}
        /\ c.quiet = FALSE /\ c.guarded = TRUE
        /\ c.caches = None /\ c.consumes = None
    BY ChangesAre DEF EditProfile, Plain
  <2>2. /\ Steps("editProfile") = <<<<"profiles", "id">>>>
        /\ Rest("editProfile") = <<>>
    BY ChangesAre DEF Steps, Rest, EditProfile, Plain
  <2>6. Len(Steps("editProfile")) = 1 /\ Len(Rest("editProfile")) = 0
    BY <2>2
  <2> QED BY <2>1, PagesNamed, <2>6 DEF Tidy

<1>10. Tidy("deactivate")
  <2> DEFINE c == Change["deactivate"]
  <2>1. /\ c.on = {"show"} /\ c.goes = {"list"}
        /\ c.quiet = FALSE /\ c.guarded = TRUE
        /\ c.caches = None /\ c.consumes = None
    BY ChangesAre DEF Deactivate, Plain
  <2>2. /\ Steps("deactivate") = <<<<"profiles">>>>
        /\ Rest("deactivate") = <<>>
    BY ChangesAre DEF Steps, Rest, Deactivate, Plain
  <2>6. Len(Steps("deactivate")) = 1 /\ Len(Rest("deactivate")) = 0
    BY <2>2
  <2> QED BY <2>1, PagesNamed, <2>6 DEF Tidy

<1>11. Tidy("saveProfile")
  <2> DEFINE c == Change["saveProfile"]
  <2>1. /\ c.on = {"settingsProfile"} /\ c.goes = {}
        /\ c.quiet = FALSE /\ c.guarded = TRUE
        /\ c.caches = None /\ c.consumes = None
        /\ c.writes = {"names", "pictures", "preferences"}
    BY ChangesAre DEF SaveMyProfile, Plain, UpdateMyProfile, MyProfileUpdate
  <2>2. /\ Steps("saveProfile") = <<<<"profiles", "me">>>>
        /\ Rest("saveProfile") = <<>>
    BY ChangesAre DEF Steps, Rest, SaveMyProfile, Plain
  <2>3. \A q \in Page["settingsProfile"] :
         "saveProfile" \in Touching[q] => q \in {"me"}
    BY PagesAre DEF SettingsProfilePage
  <2>4. Matches(<<"profiles", "me">>, "me")
    BY QueriesAre DEF Matches, IsPrefix, Me
  <2>5. RereadsAt("saveProfile", 1, "me")
    BY <2>1, <2>2, <2>4 DEF RereadsAt
  <2>6. Len(Steps("saveProfile")) = 1 /\ Len(Rest("saveProfile")) = 0
    BY <2>2
  <2> QED BY <2>1, PagesNamed, <2>3, <2>5, <2>6 DEF Tidy

<1>12. Tidy("savePreferences")
  <2> DEFINE c == Change["savePreferences"]
  <2>1. /\ c.on = {"notifications"} /\ c.goes = {}
        /\ c.quiet = FALSE /\ c.guarded = FALSE
        /\ c.caches = None /\ c.consumes = None
        /\ c.writes = {"names", "pictures", "preferences"}
    BY ChangesAre DEF SavePreferences, Plain, UpdateMyProfile, MyProfileUpdate
  <2>2. /\ Steps("savePreferences") = <<<<"profiles", "me">>>>
        /\ Rest("savePreferences") = <<>>
    BY ChangesAre DEF Steps, Rest, SavePreferences, Plain
  <2>3. \A q \in Page["notifications"] :
         "savePreferences" \in Touching[q] => q \in {"me"}
    BY PagesAre DEF SettingsNotificationsPage
  <2>4. Matches(<<"profiles", "me">>, "me")
    BY QueriesAre DEF Matches, IsPrefix, Me
  <2>5. RereadsAt("savePreferences", 1, "me")
    BY <2>1, <2>2, <2>4 DEF RereadsAt
  <2>6. Len(Steps("savePreferences")) = 1 /\ Len(Rest("savePreferences")) = 0
    BY <2>2
  <2> QED BY <2>1, PagesNamed, <2>3, <2>5, <2>6 DEF Tidy

<1>13. Tidy("createKey")
  <2> DEFINE c == Change["createKey"]
  <2>1. /\ c.on = {"api"} /\ c.goes = {}
        /\ c.quiet = FALSE /\ c.guarded = TRUE
        /\ c.caches = None /\ c.consumes = None
        /\ c.writes = {"keys"}
    BY ChangesAre DEF CreateKey, Plain, CreateMyApiKey, ApiKeyCreated,
      ApiKeyCreate
  <2>2. /\ Steps("createKey") = <<<<"api-keys">>>>
        /\ Rest("createKey") = <<>>
    BY ChangesAre DEF Steps, Rest, CreateKey, Plain
  <2>3. \A q \in Page["api"] :
         "createKey" \in Touching[q] => q \in {"apiKeys"}
    BY <2>1, PagesAre, QueriesShow, Spared DEF SettingsApiPage
  <2>4. Matches(<<"api-keys">>, "apiKeys")
    BY QueriesAre DEF Matches, IsPrefix, ApiKeys
  <2>5. RereadsAt("createKey", 1, "apiKeys")
    BY <2>1, <2>2, <2>4 DEF RereadsAt
  <2>6. Len(Steps("createKey")) = 1 /\ Len(Rest("createKey")) = 0
    BY <2>2
  <2> QED BY <2>1, PagesNamed, <2>3, <2>5, <2>6 DEF Tidy

<1>14. Tidy("revokeKey")
  <2> DEFINE c == Change["revokeKey"]
  <2>1. /\ c.on = {"api"} /\ c.goes = {}
        /\ c.quiet = FALSE /\ c.guarded = FALSE
        /\ c.caches = None /\ c.consumes = "apiKeys"
        /\ c.writes = {"keys"}
    BY ChangesAre DEF RevokeKey, Plain, RevokeMyApiKey
  <2>2. /\ Steps("revokeKey") = <<<<"api-keys">>>>
        /\ Rest("revokeKey") = <<>>
    BY ChangesAre DEF Steps, Rest, RevokeKey, Plain
  <2>3. \A q \in Page["api"] :
         "revokeKey" \in Touching[q] => q \in {"apiKeys"}
    BY <2>1, PagesAre, QueriesShow, Spared DEF SettingsApiPage
  <2>4. Matches(<<"api-keys">>, "apiKeys")
    BY QueriesAre DEF Matches, IsPrefix, ApiKeys
  <2>5. RereadsAt("revokeKey", 1, "apiKeys")
    BY <2>1, <2>2, <2>4 DEF RereadsAt
  <2>6. Len(Steps("revokeKey")) = 1 /\ Len(Rest("revokeKey")) = 0
    BY <2>2
  <2>7. "apiKeys" \in Page["api"]
    BY PagesAre DEF SettingsApiPage
  <2> QED BY <2>1, PagesNamed, <2>3, <2>5, <2>6, <2>7 DEF Tidy

<1>15. Tidy("adminRevokeKey")
  <2> DEFINE c == Change["adminRevokeKey"]
  <2>1. /\ c.on = {"adminSecurity"} /\ c.goes = {}
        /\ c.quiet = FALSE /\ c.guarded = FALSE
        /\ c.caches = None /\ c.consumes = "allKeys"
        /\ c.writes = {"keys"}
    BY ChangesAre DEF AdminRevokeKey, Plain, RevokeApiKey
  <2>2. /\ Steps("adminRevokeKey") = <<<<"admin">>>>
        /\ Rest("adminRevokeKey") = <<>>
    BY ChangesAre DEF Steps, Rest, AdminRevokeKey, Plain
  <2>3. \A q \in Page["adminSecurity"] :
         "adminRevokeKey" \in Touching[q] => q \in {"allKeys", "members"}
    BY PagesAre DEF AdminSecurityPage
  <2>4. /\ Matches(<<"admin">>, "allKeys")
        /\ Matches(<<"admin">>, "members")
    BY QueriesAre DEF Matches, IsPrefix, AdminKeys, AdminMembers
  <2>5. /\ RereadsAt("adminRevokeKey", 1, "allKeys")
        /\ RereadsAt("adminRevokeKey", 1, "members")
    BY <2>1, <2>2, <2>4 DEF RereadsAt
  <2>6. Len(Steps("adminRevokeKey")) = 1 /\ Len(Rest("adminRevokeKey")) = 0
    BY <2>2
  <2>7. "allKeys" \in Page["adminSecurity"]
    BY PagesAre DEF AdminSecurityPage
  <2> QED BY <2>1, PagesNamed, <2>3, <2>5, <2>6, <2>7 DEF Tidy

<1>16. Tidy("mintKey")
  <2> DEFINE c == Change["mintKey"]
  <2>1. /\ c.on = {"calendar", "doodle", "planning", "manage"} /\ c.goes = {}
        /\ c.quiet = FALSE /\ c.guarded = FALSE
        /\ c.caches = None /\ c.consumes = None
        /\ c.writes = {"keys"}
    BY ChangesAre DEF MintCalendarKey, Plain, CreateMyApiKey, ApiKeyCreated,
      ApiKeyCreate
  <2>2. /\ Steps("mintKey") = <<>>
        /\ Rest("mintKey") = <<>>
    BY ChangesAre DEF Steps, Rest, MintCalendarKey, Plain
  <2>3. \A p \in c.on : \A q \in Page[p] : "mintKey" \in Touching[q] => q \in {}
    BY <2>1, PagesAre, QueriesShow, Spared
       DEF CalendarPage, DoodlePage, PlanningPage, EventsManagePage
  <2>6. Len(Steps("mintKey")) = 0 /\ Len(Rest("mintKey")) = 0
    BY <2>2
  <2> QED BY <2>1, PagesNamed, <2>3, <2>6 DEF Tidy

<1>17. Tidy("addPasskey")
  <2> DEFINE c == Change["addPasskey"]
  <2>1. /\ c.on = {"security"} /\ c.goes = {}
        /\ c.quiet = FALSE /\ c.guarded = TRUE
        /\ c.caches = None /\ c.consumes = None
        /\ c.writes = {"passkeys"}
    BY ChangesAre DEF AddPasskey, Plain, RegisterPasskey
  <2>2. /\ Steps("addPasskey") = <<<<"passkeys">>>>
        /\ Rest("addPasskey") = <<>>
    BY ChangesAre DEF Steps, Rest, AddPasskey, Plain
  <2>3. \A q \in Page["security"] :
         "addPasskey" \in Touching[q] => q \in {"passkeys"}
    BY PagesAre DEF SettingsSecurityPage
  <2>4. Matches(<<"passkeys">>, "passkeys")
    BY QueriesAre DEF Matches, IsPrefix, Passkeys
  <2>5. RereadsAt("addPasskey", 1, "passkeys")
    BY <2>1, <2>2, <2>4 DEF RereadsAt
  <2>6. Len(Steps("addPasskey")) = 1 /\ Len(Rest("addPasskey")) = 0
    BY <2>2
  <2> QED BY <2>1, PagesNamed, <2>3, <2>5, <2>6 DEF Tidy

<1>18. Tidy("removePasskey")
  <2> DEFINE c == Change["removePasskey"]
  <2>1. /\ c.on = {"security"} /\ c.goes = {}
        /\ c.quiet = FALSE /\ c.guarded = TRUE
        /\ c.caches = None /\ c.consumes = "passkeys"
        /\ c.writes = {"passkeys"}
    BY ChangesAre DEF RemovePasskey, Plain, DeletePasskey, PasskeySignal
  <2>2. /\ Steps("removePasskey") = <<<<"passkeys">>>>
        /\ Rest("removePasskey") = <<>>
    BY ChangesAre DEF Steps, Rest, RemovePasskey, Plain
  <2>3. \A q \in Page["security"] :
         "removePasskey" \in Touching[q] => q \in {"passkeys"}
    BY PagesAre DEF SettingsSecurityPage
  <2>4. Matches(<<"passkeys">>, "passkeys")
    BY QueriesAre DEF Matches, IsPrefix, Passkeys
  <2>5. RereadsAt("removePasskey", 1, "passkeys")
    BY <2>1, <2>2, <2>4 DEF RereadsAt
  <2>6. Len(Steps("removePasskey")) = 1 /\ Len(Rest("removePasskey")) = 0
    BY <2>2
  <2>7. "passkeys" \in Page["security"]
    BY PagesAre DEF SettingsSecurityPage
  <2> QED BY <2>1, PagesNamed, <2>3, <2>5, <2>6, <2>7 DEF Tidy

<1>19. Tidy("linkOrder")
  <2> DEFINE c == Change["linkOrder"]
  <2>1. /\ c.on = {"reconciliation"} /\ c.goes = {}
        /\ c.quiet = FALSE /\ c.guarded = TRUE
        /\ c.caches = None /\ c.consumes = "unlinked"
        /\ c.writes = {"memberships", "orders"}
    BY ChangesAre DEF LinkOrder, Plain, LinkMembership, MembershipLinkRequest
  <2>2. /\ Steps("linkOrder") = <<<<"helloasso", "unlinked">>, <<"profiles">>>>
        /\ Rest("linkOrder") = <<>>
    BY ChangesAre DEF Steps, Rest, LinkOrder, Plain
  <2>3. \A q \in Page["reconciliation"] :
         "linkOrder" \in Touching[q] => q \in {"profiles", "unlinked"}
    BY PagesAre DEF ReconciliationPage
  <2>4. /\ Matches(<<"profiles">>, "profiles")
        /\ Matches(<<"helloasso", "unlinked">>, "unlinked")
    BY QueriesAre DEF Matches, IsPrefix, AllProfiles, Unlinked
  <2>5. /\ RereadsAt("linkOrder", 2, "profiles")
        /\ RereadsAt("linkOrder", 1, "unlinked")
    BY <2>1, <2>2, <2>4 DEF RereadsAt
  <2>6. Len(Steps("linkOrder")) = 2 /\ Len(Rest("linkOrder")) = 0
    BY <2>2
  <2>7. "unlinked" \in Page["reconciliation"]
    BY PagesAre DEF ReconciliationPage
  <2> QED BY <2>1, PagesNamed, <2>3, <2>5, <2>6, <2>7 DEF Tidy

<1>20. Tidy("removeOrder")
  <2> DEFINE c == Change["removeOrder"]
  <2>1. /\ c.on = {"reconciliation"} /\ c.goes = {}
        /\ c.quiet = FALSE /\ c.guarded = TRUE
        /\ c.caches = None /\ c.consumes = "unlinked"
        /\ c.writes = {"orders"}
    BY ChangesAre DEF RemoveOrder, Plain, DeleteMembership
  <2>2. /\ Steps("removeOrder") = <<<<"helloasso", "unlinked">>>>
        /\ Rest("removeOrder") = <<>>
    BY ChangesAre DEF Steps, Rest, RemoveOrder, Plain
  <2>3. \A q \in Page["reconciliation"] :
         "removeOrder" \in Touching[q] => q \in {"unlinked"}
    BY <2>1, PagesAre, QueriesShow, Spared DEF ReconciliationPage
  <2>4. Matches(<<"helloasso", "unlinked">>, "unlinked")
    BY QueriesAre DEF Matches, IsPrefix, Unlinked
  <2>5. RereadsAt("removeOrder", 1, "unlinked")
    BY <2>1, <2>2, <2>4 DEF RereadsAt
  <2>6. Len(Steps("removeOrder")) = 1 /\ Len(Rest("removeOrder")) = 0
    BY <2>2
  <2>7. "unlinked" \in Page["reconciliation"]
    BY PagesAre DEF ReconciliationPage
  <2> QED BY <2>1, PagesNamed, <2>3, <2>5, <2>6, <2>7 DEF Tidy

<1>21. Tidy("inviteAdherent")
  <2> DEFINE c == Change["inviteAdherent"]
  <2>1. /\ c.on = {"reconciliation"} /\ c.goes = {}
        /\ c.quiet = FALSE /\ c.guarded = TRUE
        /\ c.caches = None /\ c.consumes = None
        /\ c.writes = {"invitations"}
    BY ChangesAre DEF InviteAdherent, Plain, CreateInvitation,
      InvitationCreated, InvitationCreate
  <2>2. /\ Steps("inviteAdherent") = <<>>
        /\ Rest("inviteAdherent") = <<>>
    BY ChangesAre DEF Steps, Rest, InviteAdherent, Plain
  <2>3. \A q \in Page["reconciliation"] :
         "inviteAdherent" \in Touching[q] => q \in {}
    BY <2>1, PagesAre, QueriesShow, Spared DEF ReconciliationPage
  <2>6. Len(Steps("inviteAdherent")) = 0 /\ Len(Rest("inviteAdherent")) = 0
    BY <2>2
  <2> QED BY <2>1, PagesNamed, <2>3, <2>6 DEF Tidy

<1>22. Tidy("inviteByEmail")
  <2> DEFINE c == Change["inviteByEmail"]
  <2>1. /\ c.on = {"invite"} /\ c.goes = {}
        /\ c.quiet = FALSE /\ c.guarded = TRUE
        /\ c.caches = None /\ c.consumes = None
        /\ c.writes = {"invitations"}
    BY ChangesAre DEF InviteByEmail, Plain, CreateInvitation, InvitationCreated,
      InvitationCreate
  <2>2. /\ Steps("inviteByEmail") = <<>>
        /\ Rest("inviteByEmail") = <<>>
    BY ChangesAre DEF Steps, Rest, InviteByEmail, Plain
  <2>6. Len(Steps("inviteByEmail")) = 0 /\ Len(Rest("inviteByEmail")) = 0
    BY <2>2
  <2> QED BY <2>1, PagesNamed, PagesAre, <2>6 DEF Tidy

<1>23. Tidy("addGroup")
  <2> DEFINE c == Change["addGroup"]
  <2>1. /\ c.on = {"addGroup"} /\ c.goes = {"adminGroups", "list"}
        /\ c.quiet = FALSE /\ c.guarded = TRUE
        /\ c.caches = None /\ c.consumes = None
    BY ChangesAre DEF AddGroupToList, Plain
  <2>2. /\ Steps("addGroup") = <<<<"groups">>>>
        /\ Rest("addGroup") = <<>>
    BY ChangesAre DEF Steps, Rest, AddGroupToList, Plain
  <2>6. Len(Steps("addGroup")) = 1 /\ Len(Rest("addGroup")) = 0
    BY <2>2
  <2> QED BY <2>1, PagesNamed, <2>6 DEF Tidy

<1>24. Tidy("editGroup")
  <2> DEFINE c == Change["editGroup"]
  <2>1. /\ c.on = {"editGroup"} /\ c.goes = {"adminGroups", "list"}
        /\ c.quiet = FALSE /\ c.guarded = TRUE
        /\ c.caches = None /\ c.consumes = None
    BY ChangesAre DEF EditGroup, Plain
  <2>2. /\ Steps("editGroup") = <<<<"groups">>, <<"groups", "id">>>>
        /\ Rest("editGroup") = <<>>
    BY ChangesAre DEF Steps, Rest, EditGroup, Plain
  <2>6. Len(Steps("editGroup")) = 2 /\ Len(Rest("editGroup")) = 0
    BY <2>2
  <2> QED BY <2>1, PagesNamed, <2>6 DEF Tidy

<1>25. Tidy("syncList")
  <2> DEFINE c == Change["syncList"]
  <2>1. /\ c.on = {"showGroup"} /\ c.goes = {}
        /\ c.quiet = FALSE /\ c.guarded = TRUE
        /\ c.caches = "preview" /\ c.consumes = None
        /\ c.writes = {"lists"}
    BY ChangesAre DEF SyncList, Plain, SyncMailingList
  <2>2. /\ Steps("syncList") = <<<<"groups", "id">>>>
        /\ Rest("syncList") = <<>>
    BY ChangesAre DEF Steps, Rest, SyncList, Plain
  <2>3. \A q \in Page["showGroup"] :
         "syncList" \in Touching[q] => q \in {"group", "preview"}
    BY <2>1, PagesAre, QueriesShow, Spared DEF GroupPage
  <2>4. /\ Matches(<<"groups", "id">>, "group")
        /\ Matches(<<"groups", "id">>, "preview")
    BY QueriesAre DEF Matches, IsPrefix, OneGroup, Preview
  <2>5. /\ RereadsAt("syncList", 1, "group")
        /\ RereadsAt("syncList", 1, "preview")
    BY <2>1, <2>2, <2>4 DEF RereadsAt
  <2>6. Len(Steps("syncList")) = 1 /\ Len(Rest("syncList")) = 0
    BY <2>2
  <2> QED BY <2>1, PagesNamed, <2>3, <2>5, <2>6 DEF Tidy

<1>26. Tidy("testEmail")
  <2> DEFINE c == Change["testEmail"]
  <2>1. /\ c.on = {"communication"} /\ c.goes = {}
        /\ c.quiet = FALSE /\ c.guarded = TRUE
        /\ c.caches = None /\ c.consumes = None
        /\ c.writes = {}
    BY ChangesAre DEF TestEmail, Plain, SendTestEmail
  <2>2. /\ Steps("testEmail") = <<>>
        /\ Rest("testEmail") = <<>>
    BY ChangesAre DEF Steps, Rest, TestEmail, Plain
  <2>3. \A q \in Page["communication"] : "testEmail" \in Touching[q] => q \in {}
    BY <2>1, PagesAre, QueriesShow, Spared DEF AdminCommunicationPage
  <2>6. Len(Steps("testEmail")) = 0 /\ Len(Rest("testEmail")) = 0
    BY <2>2
  <2> QED BY <2>1, PagesNamed, <2>3, <2>6 DEF Tidy

<1> QED BY ChangesNamed, <1>1, <1>2, <1>3, <1>4, <1>5, <1>6, <1>7, <1>8, <1>9,
  <1>10, <1>11, <1>12, <1>13, <1>14, <1>15, <1>16, <1>17, <1>18, <1>19, <1>20,
  <1>21, <1>22, <1>23, <1>24, <1>25, <1>26

\* A request before its answer has not begun to follow up, it counts keys as
\* far as there are, it is here on a page that offers its change, that change
\* is where the request says, and one that waits waits for a reading.
Consistent(s) ==
    LET r == request[s]
    IN  /\ r.at \in {"asked", "made"} => ~r.ok /\ r.step = 0
        /\ r.step <= Len(Keys(r))
        /\ r.here => page \in Change[r.op].on
        /\ (r.at = "made" \/ r.ok) /\ r.op \in Touching[watched] =>
             r.made \in DOMAIN changes /\ changes[r.made].op = r.op
        /\ r.at = "waiting" => fetch # None

RequestInv == \A s \in Slots : request[s] # None => Consistent(s)

(***************************************************************************)
(* Requests, and what each action does                                     *)
(***************************************************************************)

\* None is no query.
LEMMA QueryIsNotNone == None \notin DOMAIN Query
BY NoneAssumption

\* None is no request and no reading.
LEMMA RecordIsNotNone ==
    /\ \A r \in Requests : r # None
    /\ \A f \in Readings : f # None
BY NoneAssumption

\* The query followed is one of the table.
LEMMA WatchedIsAQuery == ASSUME TypeOK PROVE watched \in DOMAIN Query
BY MovesAssumption DEF TypeOK

\* What mounts with a page, or is observed on it, has its own queries.
LEMMA OwnQueries ==
    ASSUME NEW p \in DOMAIN Page
    PROVE  /\ Page[p] \subseteq Observed[p]
           /\ \A r \in DOMAIN Page : Page[p] \subseteq Mounted[p][r]
BY DEF Observed, Mounted

\* The keys of a request are those of its change, two at most.
LEMMA KeysOf ==
    ASSUME NEW r \in Requests
    PROVE  /\ r.ok => Keys(r) = Steps(r.op)
           /\ ~r.ok => Keys(r) = Rest(r.op)
           /\ Len(Keys(r)) \in 0 .. 2
<1>1. r.ok \in BOOLEAN /\ r.op \in DOMAIN Change
  BY DEF Requests
<1>2. Len(Steps(r.op)) \in 0 .. 2 /\ Len(Rest(r.op)) \in 0 .. 2
  BY <1>1, EachChangeIsTidy DEF Tidy
<1>3. CASE r.ok
  BY <1>2, <1>3 DEF Keys, Steps
<1>4. CASE ~r.ok
  BY <1>2, <1>4 DEF Keys, Rest
<1> QED BY <1>1, <1>3, <1>4

\* A change leads to pages that do not offer it.
LEMMA LeadsAway ==
    ASSUME NEW op \in DOMAIN Change
    PROVE  /\ Change[op].on \cap Change[op].goes = {}
           /\ "login" \notin Change[op].on
           /\ Change[op].goes \subseteq DOMAIN Page
BY EachChangeIsTidy DEF Tidy

\* Where a guest is sent.
LEMMA LoginIsAPage == "login" \in DOMAIN Page
BY DEF Page

\* The requests of a state, and those that follow from one.
RequestsNow(made) == {None} \union {r \in Requests : r.made <= made}

\* What is in a slot that is not free.
LEMMA AsRequest ==
    ASSUME TypeOK, NEW s \in Slots, request[s] # None
    PROVE  /\ request[s] \in Requests
           /\ request[s].op \in DOMAIN Change
           /\ request[s].at \in {"asked", "made", "waiting", "elsewhere", "resumed"}
           /\ request[s].ok \in BOOLEAN /\ request[s].here \in BOOLEAN
           /\ request[s].step \in 0 .. 2
           /\ request[s].made \in Nat /\ request[s].made <= Len(changes)
<1>1. request[s] \in Requests /\ request[s].made <= Len(changes)
  BY DEF TypeOK
<1> QED BY <1>1 DEF Requests

\* A reading asked, joined or renewed is a reading, late or of all there is.
LEMMA AskedTyped ==
    ASSUME TypeOK
    PROVE  /\ Asked \in Readings /\ Asked.asked = Len(changes) /\ ~Asked.late
           /\ Joined \in Readings /\ Joined.asked <= Len(changes)
           /\ Joined.late \/ Joined.asked = Len(changes)
           /\ Renewed \in Readings /\ Renewed.asked <= Len(changes)
           /\ Renewed.late \/ Renewed.asked = Len(changes)
<1>1. Len(changes) \in Nat
  BY DEF TypeOK
<1>2. Asked \in Readings /\ Asked.asked = Len(changes) /\ ~Asked.late
  BY <1>1, RetriesAssumption DEF Asked, Readings
<1>3. /\ Joined \in Readings /\ Joined.asked <= Len(changes)
      /\ Joined.late \/ Joined.asked = Len(changes)
  <2>1. CASE fetch = None
    BY <1>1, <1>2, <2>1 DEF Joined
  <2>2. CASE fetch # None
    <3>1. fetch \in Readings /\ fetch.asked <= Len(changes)
      BY <2>2 DEF TypeOK
    <3>2. Joined = [fetch EXCEPT !.late = TRUE]
      BY <2>2 DEF Joined
    <3> QED BY <3>1, <3>2 DEF Readings
  <2> QED BY <2>1, <2>2
<1>4. Renewed = Joined \/ Renewed = Asked
  BY DEF Renewed
<1> QED BY <1>1, <1>2, <1>3, <1>4

\* What is left of the requests and the changes of a page that is left.
LEMMA Leaving ==
    ASSUME TypeOK, NEW rs \in [Slots -> RequestsNow(Len(changes))],
           request' = [s \in Slots |->
              IF rs[s] = None THEN None ELSE [rs[s] EXCEPT !.here = FALSE]],
           changes' = [k \in DOMAIN changes |-> [changes[k] EXCEPT !.here = FALSE]]
    PROVE  /\ changes' \in Seq(Effects) /\ Len(changes') = Len(changes)
           /\ DOMAIN changes' = DOMAIN changes
           /\ \A k \in DOMAIN changes :
                /\ changes'[k].op = changes[k].op
                /\ changes'[k].told = changes[k].told
                /\ ~changes'[k].here
           /\ request' \in [Slots -> RequestsNow(Len(changes))]
           /\ \A s \in Slots : request'[s] = None <=> rs[s] = None
           /\ \A s \in Slots : rs[s] # None =>
                /\ request'[s].op = rs[s].op /\ request'[s].at = rs[s].at
                /\ request'[s].ok = rs[s].ok /\ request'[s].step = rs[s].step
                /\ request'[s].made = rs[s].made
                /\ ~request'[s].here
<1>1. changes \in Seq(Effects)
  BY DEF TypeOK
<1>2. ASSUME NEW k \in DOMAIN changes
      PROVE  LET e == [changes[k] EXCEPT !.here = FALSE]
             IN  /\ e \in Effects /\ ~e.here
                 /\ e.op = changes[k].op /\ e.told = changes[k].told
  <2>1. changes[k] \in Effects
    BY <1>1
  <2> QED BY <2>1 DEF Effects
<1>3. /\ changes' \in Seq(Effects) /\ Len(changes') = Len(changes)
      /\ DOMAIN changes' = DOMAIN changes
  BY <1>1, <1>2
<1>4. ASSUME NEW s \in Slots, rs[s] # None
      PROVE  LET r == [rs[s] EXCEPT !.here = FALSE]
             IN  /\ r \in Requests /\ r.made <= Len(changes) /\ ~r.here
                 /\ r.op = rs[s].op /\ r.at = rs[s].at /\ r.ok = rs[s].ok
                 /\ r.step = rs[s].step /\ r.made = rs[s].made
  <2>1. rs[s] \in Requests /\ rs[s].made <= Len(changes)
    BY <1>4 DEF RequestsNow
  <2> QED BY <2>1 DEF Requests
<1>5. request' \in [Slots -> RequestsNow(Len(changes))]
  BY <1>4 DEF RequestsNow
<1>6. \A s \in Slots : request'[s] = None <=> rs[s] = None
  BY <1>4, RecordIsNotNone
<1>7. \A k \in DOMAIN changes :
        /\ changes'[k].op = changes[k].op
        /\ changes'[k].told = changes[k].told
        /\ ~changes'[k].here
  BY <1>2
<1>8. \A s \in Slots : rs[s] # None =>
        /\ request'[s].op = rs[s].op /\ request'[s].at = rs[s].at
        /\ request'[s].ok = rs[s].ok /\ request'[s].step = rs[s].step
        /\ request'[s].made = rs[s].made
        /\ ~request'[s].here
  BY <1>4
<1> QED BY <1>3, <1>5, <1>6, <1>7, <1>8

\* Opening a page: what was asked and made on the one before is no longer here.
LEMMA Opening ==
    ASSUME TypeOK, NEW p \in DOMAIN Page,
           NEW rs \in [Slots -> RequestsNow(Len(changes))], Open(p, rs)
    PROVE  /\ page' = p
           /\ changes' \in Seq(Effects) /\ Len(changes') = Len(changes)
           /\ DOMAIN changes' = DOMAIN changes
           /\ \A k \in DOMAIN changes :
                /\ changes'[k].op = changes[k].op
                /\ changes'[k].told = changes[k].told
                /\ changes'[k].here => changes[k].here /\ p = page
           /\ request' \in [Slots -> RequestsNow(Len(changes))]
           /\ \A s \in Slots : request'[s] = None <=> rs[s] = None
           /\ \A s \in Slots : rs[s] # None =>
                /\ request'[s].op = rs[s].op /\ request'[s].at = rs[s].at
                /\ request'[s].ok = rs[s].ok /\ request'[s].step = rs[s].step
                /\ request'[s].made = rs[s].made
                /\ request'[s].here => rs[s].here /\ p = page
           /\ p = page => request' = rs /\ changes' = changes /\ fetch' = fetch
           /\ p # page /\ watched \in Page[p] => fetch' = Joined
           /\ fetch' = fetch \/ fetch' = Joined
<1>1. page \in DOMAIN Page /\ changes \in Seq(Effects)
  BY DEF TypeOK
<1>2. CASE p = page
  BY <1>1, <1>2 DEF Open
<1>3. CASE p # page
  <2>1. /\ page' = p
        /\ request' = [s \in Slots |->
              IF rs[s] = None THEN None ELSE [rs[s] EXCEPT !.here = FALSE]]
        /\ changes' = [k \in DOMAIN changes |-> [changes[k] EXCEPT !.here = FALSE]]
        /\ fetch' = IF watched \in Mounted[p][page] THEN Joined ELSE fetch
    BY <1>3 DEF Open
  <2>2. watched \in Page[p] => watched \in Mounted[p][page]
    BY <1>1, OwnQueries
  <2> QED BY <1>3, <2>1, <2>2, Leaving
<1> QED BY <1>2, <1>3

\* A move counts, and there are no more than the bound.
LEMMA MoveTyped ==
    ASSUME TypeOK, Move
    PROVE  moves' \in Nat /\ moves' = moves + 1 /\ moves' <= MovesOf[watched]
BY MovesAssumption DEF Move, TypeOK

\* Woken requests are the same requests, in the same place but not waiting.
LEMMA WokenAre ==
    ASSUME TypeOK
    PROVE  /\ Woken \in [Slots -> RequestsNow(Len(changes))]
           /\ \A s \in Slots : Woken[s] = None <=> request[s] = None
           /\ \A s \in Slots : request[s] # None =>
                /\ Woken[s].op = request[s].op /\ Woken[s].ok = request[s].ok
                /\ Woken[s].here = request[s].here
                /\ Woken[s].step = request[s].step
                /\ Woken[s].made = request[s].made
                /\ Woken[s].at # "waiting"
                /\ request[s].at # "waiting" => Woken[s] = request[s]
                /\ Woken[s].at = request[s].at \/ Woken[s].at = "resumed"
<1> SUFFICES ASSUME NEW s \in Slots
             PROVE  /\ Woken[s] \in RequestsNow(Len(changes))
                    /\ Woken[s] = None <=> request[s] = None
                    /\ request[s] # None =>
                        /\ Woken[s].op = request[s].op /\ Woken[s].ok = request[s].ok
                        /\ Woken[s].here = request[s].here
                        /\ Woken[s].step = request[s].step
                        /\ Woken[s].made = request[s].made
                        /\ Woken[s].at # "waiting"
                        /\ request[s].at # "waiting" => Woken[s] = request[s]
                        /\ Woken[s].at = request[s].at \/ Woken[s].at = "resumed"
  BY DEF Woken
<1>1. CASE request[s] = None
  BY <1>1 DEF Woken, At, RequestsNow
<1>2. CASE request[s] # None /\ request[s].at # "waiting"
  BY <1>2, AsRequest DEF Woken, At, RequestsNow
<1>3. CASE request[s] # None /\ request[s].at = "waiting"
  <2> DEFINE r == [request[s] EXCEPT !.at = "resumed"]
  <2>1. Woken[s] = r
    BY <1>3 DEF Woken, At
  <2>2. /\ r \in Requests /\ r.made <= Len(changes) /\ r.at = "resumed"
        /\ r.op = request[s].op /\ r.ok = request[s].ok /\ r.here = request[s].here
        /\ r.step = request[s].step /\ r.made = request[s].made
    BY <1>3, AsRequest DEF Requests
  <2>3. r # None
    BY <2>2, RecordIsNotNone
  <2> HIDE DEF r
  <2> QED BY <1>3, <2>1, <2>2, <2>3 DEF RequestsNow
<1> QED BY <1>1, <1>2, <1>3

\* A reading given up: its waiters go on, and a profile that cannot be read
\* leaves for the login.
LEMMA GiveUpStep ==
    ASSUME TypeOK, GiveUp
    PROVE  /\ page' \in DOMAIN Page
           /\ changes' \in Seq(Effects) /\ Len(changes') = Len(changes)
           /\ DOMAIN changes' = DOMAIN changes
           /\ \A k \in DOMAIN changes :
                /\ changes'[k].op = changes[k].op
                /\ changes'[k].told = changes[k].told
                /\ changes'[k].here => changes[k].here /\ page' = page
           /\ request' \in [Slots -> RequestsNow(Len(changes))]
           /\ \A s \in Slots : request'[s] = None <=> request[s] = None
           /\ \A s \in Slots : request[s] # None =>
                /\ request'[s].op = request[s].op /\ request'[s].ok = request[s].ok
                /\ request'[s].step = request[s].step
                /\ request'[s].made = request[s].made
                /\ request'[s].at # "waiting"
                /\ request'[s].at = request[s].at \/ request'[s].at = "resumed"
                /\ request[s].at # "waiting" => request'[s].at = request[s].at
                /\ request'[s].here => request[s].here /\ page' = page
<1>1. page \in DOMAIN Page /\ changes \in Seq(Effects)
  BY DEF TypeOK
<1>2. CASE watched = "me" /\ page \notin Outside
  <2>1. /\ page' = "login"
        /\ request' = [s \in Slots |->
              IF Woken[s] = None THEN None ELSE [Woken[s] EXCEPT !.here = FALSE]]
        /\ changes' = [k \in DOMAIN changes |-> [changes[k] EXCEPT !.here = FALSE]]
    BY <1>2 DEF GiveUp
  <2>2. /\ changes' \in Seq(Effects) /\ Len(changes') = Len(changes)
        /\ DOMAIN changes' = DOMAIN changes
        /\ \A k \in DOMAIN changes :
             /\ changes'[k].op = changes[k].op
             /\ changes'[k].told = changes[k].told
             /\ ~changes'[k].here
        /\ request' \in [Slots -> RequestsNow(Len(changes))]
        /\ \A s \in Slots : request'[s] = None <=> Woken[s] = None
        /\ \A s \in Slots : Woken[s] # None =>
             /\ request'[s].op = Woken[s].op /\ request'[s].at = Woken[s].at
             /\ request'[s].ok = Woken[s].ok /\ request'[s].step = Woken[s].step
             /\ request'[s].made = Woken[s].made
             /\ ~request'[s].here
    BY <2>1, WokenAre, Leaving
  <2> QED BY <2>1, <2>2, WokenAre, LoginIsAPage
<1>3. CASE ~(watched = "me" /\ page \notin Outside)
  <2>1. request' = Woken /\ UNCHANGED <<page, changes>>
    BY <1>3 DEF GiveUp
  <2> QED BY <1>1, <2>1, WokenAre
<1> QED BY <1>2, <1>3

\* A link leads to a page, or to the login.
LEMMA OpenedIsAPage ==
    ASSUME NEW p \in DOMAIN Page
    PROVE  Opened(p) \in DOMAIN Page
BY LoginIsAPage DEF Opened

\* Ask fills a free slot and nothing else.
LEMMA AskStep ==
    ASSUME TypeOK, NEW op \in Concerning[watched], NEW s \in Slots, Ask(op, s)
    PROVE  /\ request[s] = None /\ op \in DOMAIN Change
           /\ request'[s] \in Requests /\ request'[s].made = 0 /\ request'[s].step = 0
           /\ request'[s].op = op /\ request'[s].at = "asked"
           /\ ~request'[s].ok /\ request'[s].here
           /\ request' = [request EXCEPT ![s] = request'[s]]
           /\ \A t \in Slots : t # s => request'[t] = request[t]
<1> DEFINE r == [op |-> op, at |-> "asked", ok |-> FALSE, here |-> TRUE, step |-> 0,
                 made |-> 0]
<1>1. op \in DOMAIN Change
  BY WatchedIsAQuery DEF Concerning
<1>2. r \in Requests
  BY <1>1 DEF Requests
<1>3. request' = [request EXCEPT ![s] = r] /\ request[s] = None
  BY DEF Ask, Free
<1>4. request'[s] = r /\ \A t \in Slots : t # s => request'[t] = request[t]
  BY <1>3 DEF TypeOK
<1>5. /\ r.op = op /\ r.at = "asked" /\ ~r.ok /\ r.here /\ r.step = 0 /\ r.made = 0
  OBVIOUS
<1> HIDE DEF r
<1> QED BY <1>1, <1>2, <1>3, <1>4, <1>5

\* What Serve, Succeed, Fail and Invalidate make of the request they act on.
Advanced(s, at, ok, step, made) ==
    /\ request[s] # None /\ request'[s] # None
    /\ request'[s].op = request[s].op /\ request'[s].here = request[s].here
    /\ request'[s].at = at /\ request'[s].ok = ok
    /\ request'[s].step = step /\ request'[s].made = made
    /\ \A t \in Slots : t # s => request'[t] = request[t]

\* Serve appends the change when it touches the data, not told yet.
LEMMA ServeStep ==
    ASSUME TypeOK, NEW s \in Slots, Serve(s)
    PROVE  /\ request[s].at = "asked"
           /\ Advanced(s, "made", request[s].ok, request[s].step, Len(changes'))
           /\ request' \in [Slots -> RequestsNow(Len(changes'))]
           /\ changes' \in Seq(Effects)
           /\ \/ request[s].op \notin Touching[watched] /\ changes' = changes
              \/ /\ request[s].op \in Touching[watched]
                 /\ Len(changes') = Len(changes) + 1
                 /\ \A k \in DOMAIN changes : changes'[k] = changes[k]
                 /\ changes'[Len(changes')].op = request[s].op
                 /\ changes'[Len(changes')].here = request[s].here
                 /\ ~changes'[Len(changes')].told
<1> DEFINE e == [op |-> request[s].op, here |-> request[s].here, told |-> FALSE]
           r == [request[s] EXCEPT !.at = "made", !.made = Len(changes')]
<1>1. request[s] # None /\ request[s].at = "asked"
  BY DEF Serve, At
<1>2. e \in Effects
  BY <1>1, AsRequest DEF Effects
<1>3. changes \in Seq(Effects)
  BY DEF TypeOK
<1>4. changes' = IF request[s].op \in Touching[watched] THEN Append(changes, e) ELSE changes
  BY DEF Serve
<1>5. /\ changes' \in Seq(Effects)
      /\ \/ request[s].op \notin Touching[watched] /\ changes' = changes
         \/ /\ request[s].op \in Touching[watched]
            /\ Len(changes') = Len(changes) + 1
            /\ \A k \in DOMAIN changes : changes'[k] = changes[k]
            /\ changes'[Len(changes')] = e
  <2>1. CASE request[s].op \notin Touching[watched]
    BY <1>3, <1>4, <2>1
  <2>2. CASE request[s].op \in Touching[watched]
    <3>1. changes' = Append(changes, e)
      BY <1>4, <2>2
    <3> HIDE DEF e
    <3> QED BY <1>2, <1>3, <2>2, <3>1
  <2> QED BY <2>1, <2>2
<1>6. Len(changes') \in Nat /\ Len(changes) <= Len(changes')
  BY <1>3, <1>5
<1>7. request' = [request EXCEPT ![s] = r]
  BY <1>1, AsRequest DEF Serve, Requests
<1>8. /\ r \in Requests /\ r.at = "made" /\ r.made = Len(changes')
      /\ r.op = request[s].op /\ r.ok = request[s].ok /\ r.here = request[s].here
      /\ r.step = request[s].step
  BY <1>1, <1>6, AsRequest DEF Requests
<1>9. request'[s] = r /\ \A t \in Slots : t # s => request'[t] = request[t]
  BY <1>7 DEF TypeOK
<1>10. request' \in [Slots -> RequestsNow(Len(changes'))]
  <2>1. \A t \in Slots : request[t] \in RequestsNow(Len(changes'))
    BY <1>3, <1>6 DEF TypeOK, RequestsNow, Requests
  <2> HIDE DEF r
  <2>2. r \in RequestsNow(Len(changes'))
    BY <1>6, <1>8 DEF RequestsNow
  <2> QED BY <1>7, <2>1, <2>2 DEF TypeOK
<1>11. e.op = request[s].op /\ e.here = request[s].here /\ ~e.told
  OBVIOUS
<1> HIDE DEF e, r
<1>12. r # None
  BY <1>8, RecordIsNotNone
<1> QED BY <1>1, <1>5, <1>8, <1>9, <1>10, <1>11, <1>12 DEF Advanced

\* Succeed tells the change, on the visit that asked it, and no other.
LEMMA SucceedStep ==
    ASSUME TypeOK, RequestInv, NEW s \in Slots, Succeed(s)
    PROVE  /\ request[s].at = "made" /\ ~request[s].ok /\ request[s].step = 0
           /\ Advanced(s, "resumed", TRUE, 0, request[s].made)
           /\ request' \in [Slots -> RequestsNow(Len(changes))]
           /\ changes' \in Seq(Effects) /\ Len(changes') = Len(changes)
           /\ DOMAIN changes' = DOMAIN changes
           /\ \A k \in DOMAIN changes :
                /\ changes'[k].op = changes[k].op /\ changes'[k].here = changes[k].here
                /\ changes'[k].told =>
                     \/ changes[k].told
                     \/ /\ k = request[s].made
                        /\ request[s].op \in Touching[watched] /\ request[s].here
<1> DEFINE r == [request[s] EXCEPT !.at = "resumed", !.ok = TRUE]
           m == request[s].made
<1>1. request[s] # None /\ request[s].at = "made"
  BY DEF Succeed, At
<1>2. ~request[s].ok /\ request[s].step = 0
  BY <1>1 DEF RequestInv, Consistent
<1>3. /\ r \in Requests /\ r.made <= Len(changes)
      /\ r.at = "resumed" /\ r.ok = TRUE /\ r.op = request[s].op
      /\ r.here = request[s].here /\ r.step = request[s].step /\ r.made = m
  BY <1>1, AsRequest DEF Requests
<1>4. request' = [request EXCEPT ![s] = r]
  BY <1>1, AsRequest DEF Succeed, Requests
<1>5. changes \in Seq(Effects)
  BY DEF TypeOK
<1>6. CASE ~(request[s].op \in Touching[watched] /\ request[s].here)
  <2>1. changes' = changes
    BY <1>6 DEF Succeed
  <2> HIDE DEF r, m
  <2>2. /\ Advanced(s, "resumed", TRUE, 0, m)
        /\ request' \in [Slots -> RequestsNow(Len(changes))]
    BY <1>1, <1>2, <1>3, <1>4, RecordIsNotNone DEF Advanced, RequestsNow, TypeOK
  <2> QED BY <1>1, <1>2, <1>5, <2>1, <2>2 DEF m
<1>7. CASE request[s].op \in Touching[watched] /\ request[s].here
  <2> DEFINE e == [changes[m] EXCEPT !.told = TRUE]
  <2>1. m \in DOMAIN changes
    BY <1>1, <1>7 DEF RequestInv, Consistent
  <2>2. changes[m] \in Effects
    BY <1>5, <2>1
  <2>3. e \in Effects /\ e.op = changes[m].op /\ e.here = changes[m].here
    BY <2>2 DEF Effects
  <2>4. changes' = [changes EXCEPT ![m] = e]
    BY <1>7, <2>1, <2>2 DEF Succeed, Effects
  <2> HIDE DEF e, r, m
  <2>5. /\ changes' \in Seq(Effects) /\ Len(changes') = Len(changes)
        /\ DOMAIN changes' = DOMAIN changes
    BY <1>5, <2>1, <2>3, <2>4
  <2>6. \A k \in DOMAIN changes :
          /\ changes'[k].op = changes[k].op /\ changes'[k].here = changes[k].here
          /\ changes'[k].told => changes[k].told \/ k = m
    BY <1>5, <2>1, <2>3, <2>4
  <2>7. /\ Advanced(s, "resumed", TRUE, 0, m)
        /\ request' \in [Slots -> RequestsNow(Len(changes))]
    BY <1>1, <1>2, <1>3, <1>4, RecordIsNotNone DEF Advanced, RequestsNow, TypeOK
  <2> QED BY <1>1, <1>2, <1>7, <2>5, <2>6, <2>7 DEF m
<1> QED BY <1>6, <1>7

\* Fail leaves the changes alone.
LEMMA FailStep ==
    ASSUME TypeOK, RequestInv, NEW s \in Slots, Fail(s)
    PROVE  /\ request[s].at \in {"asked", "made"}
           /\ ~request[s].ok /\ request[s].step = 0
           /\ Advanced(s, "resumed", FALSE, 0, request[s].made)
           /\ request' \in [Slots -> RequestsNow(Len(changes))]
<1> DEFINE r == [request[s] EXCEPT !.at = "resumed"]
<1>1. request[s] # None /\ request[s].at \in {"asked", "made"}
  BY DEF Fail, At
<1>2. ~request[s].ok /\ request[s].step = 0
  BY <1>1 DEF RequestInv, Consistent
<1>3. /\ r \in Requests /\ r.made <= Len(changes)
      /\ r.at = "resumed" /\ r.ok = request[s].ok /\ r.op = request[s].op
      /\ r.here = request[s].here /\ r.step = request[s].step
      /\ r.made = request[s].made
  BY <1>1, AsRequest DEF Requests
<1>4. request' = [request EXCEPT ![s] = r]
  BY DEF Fail
<1>5. request[s].ok = FALSE
  BY <1>1, <1>2, AsRequest
<1> HIDE DEF r
<1>6. Advanced(s, "resumed", FALSE, 0, request[s].made)
  BY <1>1, <1>2, <1>3, <1>4, <1>5, RecordIsNotNone DEF Advanced, TypeOK
<1>7. request' \in [Slots -> RequestsNow(Len(changes))]
  BY <1>3, <1>4 DEF RequestsNow, TypeOK
<1> QED BY <1>1, <1>2, <1>6, <1>7

\* The key that Invalidate comes to is read again at once.
Reads(s) ==
    /\ Matches(Keys(request[s])[request[s].step + 1], watched)
    /\ Active
    /\ ~Change[request[s].op].quiet

\* Invalidate takes the next key, and waits when it has the data read.
LEMMA InvalidateStep ==
    ASSUME TypeOK, RequestInv, NEW s \in Slots, Invalidate(s)
    PROVE  /\ request[s].at = "resumed"
           /\ request[s].step < Len(Keys(request[s]))
           /\ \E at \in {"resumed", "waiting", "elsewhere"} :
                /\ Advanced(s, at, request[s].ok, request[s].step + 1, request[s].made)
                /\ at = "waiting" => Reads(s)
                /\ Reads(s) => at = "waiting"
           /\ request' \in [Slots -> RequestsNow(Len(changes))]
           /\ Reads(s) => fetch' = Renewed
           /\ ~Reads(s) => fetch' = fetch
           /\ Len(Keys(request[s])) \in 0 .. 2
<1> DEFINE q == Change[request[s].op].quiet
           a == IF q THEN "resumed" ELSE IF Reads(s) THEN "waiting" ELSE "elsewhere"
           r == [request[s] EXCEPT !.step = request[s].step + 1, !.at = a]
<1>1. request[s] # None /\ request[s].at = "resumed"
  BY DEF Invalidate, At
<1>2. Len(Keys(request[s])) \in 0 .. 2
  BY <1>1, AsRequest, KeysOf
<1>3. /\ request[s].step + 1 <= Len(Keys(request[s]))
      /\ request' = [request EXCEPT ![s].step = request[s].step + 1, ![s].at = a]
      /\ fetch' = IF Reads(s) THEN Renewed ELSE fetch
  BY DEF Invalidate, Reads
<1>4. request' = [request EXCEPT ![s] = r]
  BY <1>1, <1>3, AsRequest DEF Requests
<1>5. /\ a \in {"resumed", "waiting", "elsewhere"}
      /\ a = "waiting" => Reads(s)
      /\ Reads(s) => a = "waiting"
  BY DEF Reads
<1> HIDE DEF a
<1>6. request[s].step + 1 \in 0 .. 2
  <2>1. request[s].step \in 0 .. 2
    BY <1>1, AsRequest
  <2> DEFINE i == request[s].step
             n == Len(Keys(request[s]))
  <2>2. i \in 0 .. 2 /\ n \in 0 .. 2 /\ i + 1 <= n
    BY <1>2, <1>3, <2>1
  <2> HIDE DEF i, n
  <2>3. i + 1 \in 0 .. 2
    BY <2>2
  <2> QED BY <2>3 DEF i
<1>7. /\ r \in Requests /\ r.made <= Len(changes)
      /\ r.at = a /\ r.ok = request[s].ok /\ r.op = request[s].op
      /\ r.here = request[s].here /\ r.step = request[s].step + 1
      /\ r.made = request[s].made
  BY <1>1, <1>5, <1>6, AsRequest DEF Requests
<1> HIDE DEF r
<1>8. Advanced(s, a, request[s].ok, request[s].step + 1, request[s].made)
  BY <1>1, <1>4, <1>7, RecordIsNotNone DEF Advanced, TypeOK
<1>9. request' \in [Slots -> RequestsNow(Len(changes))]
  BY <1>4, <1>7 DEF RequestsNow, TypeOK
<1>10. request[s].step < Len(Keys(request[s]))
  <2>1. request[s].step \in 0 .. 2
    BY <1>1, AsRequest
  <2> QED BY <1>2, <1>3, <2>1
<1> QED BY <1>1, <1>2, <1>3, <1>5, <1>8, <1>9, <1>10

\* Resume changes nothing but where the request is.
LEMMA ResumeStep ==
    ASSUME TypeOK, NEW s \in Slots, Resume(s)
    PROVE  /\ request[s].at = "elsewhere"
           /\ Advanced(s, "resumed", request[s].ok, request[s].step, request[s].made)
           /\ request' \in [Slots -> RequestsNow(Len(changes))]
<1> DEFINE r == [request[s] EXCEPT !.at = "resumed"]
<1>1. request[s] # None /\ request[s].at = "elsewhere"
  BY DEF Resume, At
<1>2. /\ r \in Requests /\ r.made <= Len(changes)
      /\ r.at = "resumed" /\ r.ok = request[s].ok /\ r.op = request[s].op
      /\ r.here = request[s].here /\ r.step = request[s].step
      /\ r.made = request[s].made
  BY <1>1, AsRequest DEF Requests
<1>3. request' = [request EXCEPT ![s] = r]
  BY DEF Resume
<1> HIDE DEF r
<1>4. Advanced(s, "resumed", request[s].ok, request[s].step, request[s].made)
  BY <1>1, <1>2, <1>3, RecordIsNotNone DEF Advanced, TypeOK
<1>5. request' \in [Slots -> RequestsNow(Len(changes))]
  BY <1>2, <1>3 DEF RequestsNow, TypeOK
<1> QED BY <1>1, <1>4, <1>5

\* Settle empties the slot and may open a page the change is not asked on.
LEMMA SettleStep ==
    ASSUME TypeOK, NEW s \in Slots, Settle(s)
    PROVE  /\ request[s] # None /\ request[s].at = "resumed"
           /\ request[s].step = Len(Keys(request[s]))
           /\ [request EXCEPT ![s] = None] \in [Slots -> RequestsNow(Len(changes))]
           /\ \E p \in DOMAIN Page :
                /\ Open(p, [request EXCEPT ![s] = None])
                /\ request[s].ok /\ Change[request[s].op].goes # {} =>
                     p \notin Change[request[s].op].on
<1> DEFINE rest == [request EXCEPT ![s] = None]
           goes == IF request[s].ok THEN Change[request[s].op].goes ELSE {}
<1>1. request[s] # None /\ request[s].at = "resumed" /\ request[s].op \in DOMAIN Change
  BY AsRequest DEF Settle, At
<1>2. rest \in [Slots -> RequestsNow(Len(changes))]
  BY DEF TypeOK, RequestsNow
<1>3. request[s].step = Len(Keys(request[s]))
  BY DEF Settle
<1>4. IF goes = {} THEN Open(page, rest) ELSE \E p \in goes : Open(Opened(p), rest)
  BY DEF Settle
<1> HIDE DEF rest
<1>5. CASE goes = {}
  <2>1. page \in DOMAIN Page /\ Open(page, rest)
    BY <1>4, <1>5 DEF TypeOK
  <2> QED BY <1>1, <1>2, <1>3, <1>5, <2>1 DEF rest
<1>6. CASE goes # {}
  <2>1. PICK p \in goes : Open(Opened(p), rest)
    BY <1>4, <1>6
  <2>2. goes = Change[request[s].op].goes
    BY <1>6
  <2>3. p \in DOMAIN Page /\ p \notin Change[request[s].op].on
        /\ "login" \notin Change[request[s].op].on
    BY <1>1, <2>1, <2>2, LeadsAway
  <2>4. Opened(p) \in DOMAIN Page /\ Opened(p) \notin Change[request[s].op].on
    BY <2>3, OpenedIsAPage DEF Opened
  <2> QED BY <1>1, <1>2, <1>3, <2>1, <2>4 DEF rest
<1> QED BY <1>5, <1>6

(***************************************************************************)
(* Types, and the count of the moves                                       *)
(***************************************************************************)

\* A change made to the data was a move, and so is one still asked.
AskedSlots == {s \in Slots : At(s, {"asked"})}

CountInv == Len(changes) + Cardinality(AskedSlots) <= moves

\* The slots asked can be counted.
LEMMA AskedSlotsFinite ==
    /\ IsFiniteSet(AskedSlots) /\ Cardinality(AskedSlots) \in Nat
    /\ \A s \in AskedSlots : Cardinality(AskedSlots) >= 1
<1>1. IsFiniteSet(AskedSlots)
  BY SlotsAssumption, FS_Subset DEF AskedSlots
<1>2. Cardinality(AskedSlots) \in Nat
  BY <1>1, FS_CardinalityType
<1>3. \A s \in AskedSlots : Cardinality(AskedSlots) # 0
  BY <1>1, FS_EmptySet
<1> QED BY <1>1, <1>2, <1>3

\* A retry reads what there is now.
LEMMA RetryStep ==
    ASSUME TypeOK, Retry
    PROVE  fetch' \in Readings /\ fetch'.asked = Len(changes)
<1>1. fetch \in Readings /\ fetch.tries < MaxRetries
      /\ fetch' = [fetch EXCEPT !.asked = Len(changes), !.tries = fetch.tries + 1]
  BY DEF Retry, Retried, TypeOK
<1>2. /\ fetch.late \in BOOLEAN /\ fetch.tries + 1 \in 0 .. MaxRetries
      /\ Len(changes) \in Nat
  BY <1>1, RetriesAssumption DEF Readings, TypeOK
<1>3. fetch' = [asked |-> Len(changes), late |-> fetch.late, tries |-> fetch.tries + 1]
  BY <1>1 DEF Readings
<1> QED BY <1>2, <1>3 DEF Readings

\* No step leaves the types (the whole next-state relation).
LEMMA TypeStep == TypeOK /\ RequestInv /\ CountInv /\ [Next]_vars => TypeOK'
<1> SUFFICES ASSUME TypeOK, RequestInv, CountInv, [Next]_vars PROVE TypeOK'
  OBVIOUS
<1> DEFINE n == Len(changes)
<1>1. n \in Nat /\ moves \in Nat /\ shown \in NoData .. n /\ n <= moves
      /\ moves <= MovesOf[watched]
  BY MovesAssumption DEF TypeOK
<1>2. request \in [Slots -> RequestsNow(n)]
  BY DEF TypeOK, RequestsNow
<1>3. fetch # None => fetch \in Readings /\ fetch.asked <= n
  BY DEF TypeOK
<1>4. /\ watched' = watched
  BY DEF Next, Visit, Ask, Serve, Succeed, Fail, FollowUp, Invalidate, Resume, Settle,
     Answer, Retry, GiveUp, Focus, Forget, vars
<1>5. SUFFICES /\ page' \in DOMAIN Page
               /\ changes' \in Seq(Effects) /\ Len(changes') <= moves'
               /\ shown' \in NoData .. Len(changes')
               /\ fetch' # None => fetch' \in Readings /\ fetch'.asked <= Len(changes')
               /\ last' \in {"sound", "late", "failed"}
               /\ request' \in [Slots -> RequestsNow(Len(changes'))]
               /\ moves' \in Nat /\ moves' <= MovesOf[watched]
  BY <1>4 DEF TypeOK, RequestsNow
<1>6. page \in DOMAIN Page /\ last \in {"sound", "late", "failed"}
      /\ changes \in Seq(Effects)
  BY DEF TypeOK
<1>7. CASE UNCHANGED vars
  BY <1>1, <1>2, <1>3, <1>6, <1>7 DEF vars
<1>8. ASSUME NEW p \in Near[watched], Visit(p)
      PROVE  /\ page' \in DOMAIN Page
             /\ changes' \in Seq(Effects) /\ Len(changes') = n
             /\ request' \in [Slots -> RequestsNow(n)]
             /\ fetch' = fetch \/ fetch' = Joined
             /\ UNCHANGED <<shown, last>> /\ Move
  <2>1. Opened(p) \in DOMAIN Page
    BY WatchedIsAQuery, OpenedIsAPage DEF Near
  <2>2. Open(Opened(p), request) /\ UNCHANGED <<shown, last>> /\ Move
    BY <1>8 DEF Visit
  <2> QED BY <1>2, <2>1, <2>2, Opening
<1>9. ASSUME NEW op \in Concerning[watched], NEW s \in Slots, Ask(op, s)
      PROVE  /\ request' \in [Slots -> RequestsNow(n)]
             /\ UNCHANGED <<page, changes, shown, fetch, last>> /\ Move
  <2>1. request' = [request EXCEPT ![s] = request'[s]]
        /\ request'[s] \in Requests /\ request'[s].made = 0
    BY <1>9, AskStep
  <2>2. request'[s] \in RequestsNow(n)
    BY <1>1, <2>1 DEF RequestsNow
  <2> QED BY <1>2, <1>9, <2>1, <2>2 DEF Ask
<1>10. ASSUME NEW s \in Slots, Serve(s)
       PROVE  /\ request' \in [Slots -> RequestsNow(Len(changes'))]
              /\ changes' \in Seq(Effects) /\ n <= Len(changes') /\ Len(changes') <= moves
              /\ Len(changes') \in Nat
              /\ UNCHANGED <<page, shown, fetch, last, moves>>
  <2>1. s \in AskedSlots
    BY <1>10 DEF Serve, AskedSlots
  <2>2. n + 1 <= moves
    BY <1>1, <2>1, AskedSlotsFinite DEF CountInv
  <2>3. /\ request' \in [Slots -> RequestsNow(Len(changes'))]
        /\ changes' \in Seq(Effects)
        /\ changes' = changes \/ Len(changes') = n + 1
    BY <1>10, ServeStep
  <2>4. UNCHANGED <<page, shown, fetch, last, moves>>
    BY <1>10 DEF Serve
  <2> QED BY <1>1, <2>2, <2>3, <2>4
<1>11. ASSUME NEW s \in Slots, Succeed(s)
       PROVE  /\ request' \in [Slots -> RequestsNow(n)]
              /\ changes' \in Seq(Effects) /\ Len(changes') = n
              /\ shown' \in NoData .. n
              /\ UNCHANGED <<page, fetch, last, moves>>
  <2>1. /\ request' \in [Slots -> RequestsNow(n)]
        /\ changes' \in Seq(Effects) /\ Len(changes') = n
    BY <1>11, SucceedStep
  <2>2. shown' = shown \/ shown' = request[s].made
    BY <1>11 DEF Succeed
  <2>3. request[s].made \in Nat /\ request[s].made <= n
    BY <1>11, AsRequest DEF Succeed, At
  <2>4. shown' \in NoData .. n
    BY <1>1, <2>2, <2>3 DEF NoData
  <2> QED BY <1>11, <2>1, <2>4 DEF Succeed
<1>12. ASSUME NEW s \in Slots, Fail(s)
       PROVE  /\ request' \in [Slots -> RequestsNow(n)]
              /\ fetch' = fetch \/ fetch' = Renewed
              /\ UNCHANGED <<page, changes, shown, last, moves>>
  BY <1>12, FailStep DEF Fail
<1>13. ASSUME NEW s \in Slots, Invalidate(s)
       PROVE  /\ request' \in [Slots -> RequestsNow(n)]
              /\ fetch' = fetch \/ fetch' = Renewed
              /\ UNCHANGED <<page, changes, shown, last, moves>>
  BY <1>13, InvalidateStep DEF Invalidate
<1>14. ASSUME NEW s \in Slots, Resume(s)
       PROVE  /\ request' \in [Slots -> RequestsNow(n)]
              /\ UNCHANGED <<page, changes, shown, fetch, last, moves>>
  BY <1>14, ResumeStep DEF Resume
<1>15. ASSUME NEW s \in Slots, Settle(s)
       PROVE  /\ page' \in DOMAIN Page
              /\ changes' \in Seq(Effects) /\ Len(changes') = n
              /\ request' \in [Slots -> RequestsNow(n)]
              /\ fetch' = fetch \/ fetch' = Joined
              /\ UNCHANGED <<shown, last, moves>>
  <2>1. PICK p \in DOMAIN Page : Open(p, [request EXCEPT ![s] = None])
    BY <1>15, SettleStep
  <2>2. [request EXCEPT ![s] = None] \in [Slots -> RequestsNow(n)]
    BY <1>15, SettleStep
  <2>3. UNCHANGED <<shown, last, moves>>
    BY <1>15 DEF Settle
  <2> QED BY <2>1, <2>2, <2>3, Opening
<1>16. CASE Answer
  <2>1. /\ shown' \in NoData .. n /\ fetch' = None
        /\ last' \in {"sound", "late"} /\ request' = Woken
        /\ UNCHANGED <<page, changes, moves>>
    <3>1. fetch.asked \in Nat /\ shown' \in fetch.asked .. n
      BY <1>3, <1>16 DEF Answer, Readings
    <3> QED BY <1>1, <1>16, <3>1 DEF Answer, NoData
  <2> QED BY <1>1, <1>6, <2>1, WokenAre
<1>17. CASE Retry
  BY <1>1, <1>2, <1>6, <1>17, RetryStep DEF Retry
<1>18. CASE GiveUp
  <2>1. fetch' = None /\ last' = "failed" /\ shown' = shown /\ moves' = moves
    BY <1>18 DEF GiveUp
  <2> QED BY <1>1, <1>18, <2>1, GiveUpStep
<1>19. CASE Focus
  BY <1>1, <1>2, <1>6, <1>19, AskedTyped DEF Focus
<1>20. CASE Forget
  BY <1>1, <1>2, <1>6, <1>20 DEF Forget, NoData
<1>21. CASE \E p \in Near[watched] : Visit(p)
  BY <1>1, <1>3, <1>6, <1>8, <1>21, AskedTyped, MoveTyped
<1>22. CASE \E op \in Concerning[watched], s \in Slots : Ask(op, s)
  BY <1>1, <1>3, <1>6, <1>9, <1>22, MoveTyped
<1>23. CASE \E s \in Slots : Serve(s) \/ Succeed(s) \/ Fail(s) \/ FollowUp(s)
  <2> PICK s \in Slots : Serve(s) \/ Succeed(s) \/ Fail(s) \/ FollowUp(s)
    BY <1>23
  <2>1. CASE Serve(s)
    <3>1. fetch # None => fetch.asked \in Nat
      BY <1>3 DEF Readings
    <3>2. /\ request' \in [Slots -> RequestsNow(Len(changes'))]
          /\ changes' \in Seq(Effects) /\ n <= Len(changes') /\ Len(changes') <= moves
          /\ Len(changes') \in Nat
          /\ UNCHANGED <<page, shown, fetch, last, moves>>
      BY <1>10, <2>1
    <3>3. shown' \in NoData .. Len(changes')
      BY <1>1, <3>2 DEF NoData
    <3>4. fetch' # None => fetch' \in Readings /\ fetch'.asked <= Len(changes')
      BY <1>1, <1>3, <3>1, <3>2
    <3> QED BY <1>1, <1>6, <3>2, <3>3, <3>4
  <2>2. CASE Succeed(s)
    BY <1>1, <1>3, <1>6, <1>11, <2>2
  <2>3. CASE Fail(s)
    BY <1>1, <1>3, <1>6, <1>12, <2>3, AskedTyped
  <2>4. CASE Invalidate(s)
    BY <1>1, <1>3, <1>6, <1>13, <2>4, AskedTyped
  <2>5. CASE Resume(s)
    BY <1>1, <1>3, <1>6, <1>14, <2>5
  <2>6. CASE Settle(s)
    BY <1>1, <1>3, <1>6, <1>15, <2>6, AskedTyped
  <2> QED BY <2>1, <2>2, <2>3, <2>4, <2>5, <2>6 DEF FollowUp
<1> QED BY <1>7, <1>16, <1>17, <1>18, <1>19, <1>20, <1>21, <1>22, <1>23 DEF Next

\* Each change counted was a move: Ask makes one, Serve uses it up.
LEMMA CountStep == TypeOK /\ RequestInv /\ CountInv /\ [Next]_vars => CountInv'
<1> SUFFICES ASSUME TypeOK, RequestInv, CountInv, [Next]_vars PROVE CountInv'
  OBVIOUS
<1> DEFINE n == Len(changes)
           c == Cardinality(AskedSlots)
<1>1. /\ n \in Nat /\ moves \in Nat /\ n + c <= moves
      /\ IsFiniteSet(AskedSlots) /\ c \in Nat
  BY AskedSlotsFinite, MovesAssumption DEF TypeOK, CountInv
<1>2. SUFFICES Len(changes') + Cardinality(AskedSlots') <= moves'
  BY DEF CountInv
\* No more is made or asked, and the moves stay or grow.
<1>3. ASSUME Len(changes') = n, AskedSlots' \subseteq AskedSlots,
             moves' = moves \/ moves' = moves + 1
      PROVE  Len(changes') + Cardinality(AskedSlots') <= moves'
  <2>1. Cardinality(AskedSlots') \in Nat /\ Cardinality(AskedSlots') <= c
    BY <1>1, <1>3, FS_Subset, FS_CardinalityType
  <2> QED BY <1>1, <1>3, <2>1
<1>4. ASSUME \A s \in Slots : request'[s] = None <=> request[s] = None,
             \A s \in Slots : request[s] # None =>
                request'[s].at = request[s].at \/ request'[s].at = "resumed"
      PROVE  AskedSlots' \subseteq AskedSlots
  BY <1>4 DEF AskedSlots, At
<1>5. CASE UNCHANGED vars
  BY <1>3, <1>5 DEF vars, AskedSlots, At
<1>6. ASSUME NEW s \in Slots, NEW at, NEW ok, NEW step, NEW made,
             Advanced(s, at, ok, step, made), at # "asked"
      PROVE  AskedSlots' \subseteq AskedSlots \ {s}
  BY <1>6 DEF AskedSlots, At, Advanced
<1>7. CASE \E p \in Near[watched] : Visit(p)
  <2>1. PICK p \in Near[watched] : Visit(p)
    BY <1>7
  <2>2. Opened(p) \in DOMAIN Page
    BY WatchedIsAQuery, OpenedIsAPage DEF Near
  <2>3. Open(Opened(p), request) /\ moves' = moves + 1
    BY <2>1 DEF Visit, Move
  <2>4. request \in [Slots -> RequestsNow(n)]
    BY DEF TypeOK, RequestsNow
  <2> QED BY <1>3, <1>4, <2>2, <2>3, <2>4, Opening
<1>8. CASE \E op \in Concerning[watched], s \in Slots : Ask(op, s)
  <2>1. PICK op \in Concerning[watched], s \in Slots : Ask(op, s)
    BY <1>8
  <2>2. \A t \in Slots : t # s => request'[t] = request[t]
    BY <2>1, AskStep
  <2>3. AskedSlots' \subseteq AskedSlots \union {s}
    BY <2>2 DEF AskedSlots, At
  <2>4. /\ IsFiniteSet(AskedSlots \union {s})
        /\ Cardinality(AskedSlots \union {s}) <= c + 1
    <3>1. /\ IsFiniteSet(AskedSlots \union {s})
          /\ Cardinality(AskedSlots \union {s}) = IF s \in AskedSlots THEN c ELSE c + 1
      BY <1>1, FS_AddElement
    <3> HIDE DEF c
    <3> QED BY <1>1, <3>1
  <2>5. Cardinality(AskedSlots') \in Nat /\ Cardinality(AskedSlots') <= c + 1
    <3>1. /\ IsFiniteSet(AskedSlots')
          /\ Cardinality(AskedSlots') <= Cardinality(AskedSlots \union {s})
      BY <2>3, <2>4, FS_Subset
    <3>2. Cardinality(AskedSlots') \in Nat /\ Cardinality(AskedSlots \union {s}) \in Nat
      BY <2>4, <3>1, FS_CardinalityType
    <3> QED BY <1>1, <2>4, <3>1, <3>2
  <2>6. changes' = changes /\ moves' = moves + 1
    BY <2>1 DEF Ask, Move
  <2> QED BY <1>1, <2>5, <2>6
<1>9. ASSUME NEW s \in Slots, Serve(s)
      PROVE  Len(changes') + Cardinality(AskedSlots') <= moves'
  <2>1. /\ Advanced(s, "made", request[s].ok, request[s].step, Len(changes'))
        /\ changes' = changes \/ Len(changes') = n + 1
    BY <1>9, ServeStep
  <2>2. AskedSlots' \subseteq AskedSlots \ {s} /\ s \in AskedSlots
    BY <1>6, <1>9, <2>1 DEF Serve, AskedSlots
  <2>3. IsFiniteSet(AskedSlots \ {s}) /\ Cardinality(AskedSlots \ {s}) = c - 1
    BY <1>1, <2>2, FS_RemoveElement
  <2>4. Cardinality(AskedSlots') \in Nat /\ Cardinality(AskedSlots') <= c - 1
    <3>1. /\ IsFiniteSet(AskedSlots')
          /\ Cardinality(AskedSlots') <= Cardinality(AskedSlots \ {s})
      BY <2>2, <2>3, FS_Subset
    <3> QED BY <2>3, <3>1, FS_CardinalityType
  <2>5. moves' = moves
    BY <1>9 DEF Serve
  <2> QED BY <1>1, <2>1, <2>4, <2>5
<1>10. ASSUME NEW s \in Slots, Succeed(s) \/ Fail(s) \/ Invalidate(s) \/ Resume(s)
       PROVE  Len(changes') + Cardinality(AskedSlots') <= moves'
  <2>1. Len(changes') = n /\ moves' = moves
    BY <1>10, SucceedStep DEF Succeed, Fail, Invalidate, Resume
  <2>2. \E at \in {"resumed", "waiting", "elsewhere"} :
          \E ok, step, made : Advanced(s, at, ok, step, made)
    BY <1>10, SucceedStep, FailStep, InvalidateStep, ResumeStep
  <2>3. AskedSlots' \subseteq AskedSlots
    BY <1>6, <2>2
  <2> QED BY <1>3, <2>1, <2>3
<1>11. ASSUME NEW s \in Slots, Settle(s)
       PROVE  Len(changes') + Cardinality(AskedSlots') <= moves'
  <2> DEFINE rest == [request EXCEPT ![s] = None]
  <2>1. PICK p \in DOMAIN Page : Open(p, rest)
    BY <1>11, SettleStep
  <2>2. rest \in [Slots -> RequestsNow(n)]
    BY <1>11, SettleStep
  <2>3. \A t \in Slots : rest[t] = None \/ rest[t] = request[t]
    BY DEF TypeOK
  <2> HIDE DEF rest
  <2>4. AskedSlots' \subseteq AskedSlots /\ Len(changes') = n
    BY <2>1, <2>2, <2>3, Opening DEF AskedSlots, At
  <2> QED BY <1>3, <1>11, <2>4 DEF Settle
<1>12. CASE Answer
  <2>1. request' = Woken /\ changes' = changes /\ moves' = moves
    BY <1>12 DEF Answer
  <2> QED BY <1>3, <1>4, <2>1, WokenAre
<1>13. CASE GiveUp
  BY <1>3, <1>4, <1>13, GiveUpStep DEF GiveUp
<1>14. CASE Retry \/ Focus \/ Forget
  BY <1>3, <1>14 DEF Retry, Focus, Forget, AskedSlots, At
<1> QED BY <1>5, <1>7, <1>8, <1>9, <1>10, <1>11, <1>12, <1>13, <1>14 DEF Next, FollowUp

(***************************************************************************)
(* The requests and changes of this visit                                  *)
(***************************************************************************)

\* What was made on this visit was offered on its page and touches the data.
HereInv ==
    \A k \in DOMAIN changes : changes[k].here =>
        /\ page \in Change[changes[k].op].on
        /\ changes[k].op \in Touching[watched]

\* A request that no step acts on.
LEMMA OthersStay ==
    ASSUME RequestInv, NEW t \in Slots, request[t] # None, request'[t] = request[t],
           UNCHANGED <<watched, page>>,
           \A k \in DOMAIN changes :
              k \in DOMAIN changes' /\ changes'[k].op = changes[k].op,
           fetch # None => fetch' # None
    PROVE  Consistent(t)'
<1>1. Keys(request'[t]) = Keys(request[t])
  BY DEF Keys
<1> QED BY <1>1 DEF RequestInv, Consistent

\* A request that goes on as it was, on the same page or no longer here.
LEMMA CarriedOn ==
    ASSUME RequestInv, NEW t \in Slots, request[t] # None,
           request'[t].op = request[t].op, request'[t].ok = request[t].ok,
           request'[t].step = request[t].step, request'[t].made = request[t].made,
           request'[t].at = request[t].at \/ request'[t].at = "resumed",
           request'[t].here => request[t].here /\ page' = page,
           request'[t].at = "waiting" => (fetch # None => fetch' # None),
           watched' = watched, DOMAIN changes' = DOMAIN changes,
           \A k \in DOMAIN changes : changes'[k].op = changes[k].op
    PROVE  Consistent(t)'
<1>1. Keys(request'[t]) = Keys(request[t])
  BY DEF Keys
<1> QED BY <1>1 DEF RequestInv, Consistent

\* Requests stay consistent (every continuation of the pages).
LEMMA RequestStep == TypeOK /\ RequestInv /\ [Next]_vars => RequestInv'
<1> SUFFICES ASSUME TypeOK, RequestInv, [Next]_vars,
                    NEW t \in Slots, request'[t] # None
             PROVE  Consistent(t)'
  BY DEF RequestInv
<1>1. request \in [Slots -> RequestsNow(Len(changes))]
  BY DEF TypeOK, RequestsNow
<1>2. fetch # None => Joined # None /\ Renewed # None /\ Asked # None
  BY AskedTyped, RecordIsNotNone
<1>3. CASE UNCHANGED vars
  BY <1>3, OthersStay DEF vars
<1>4. CASE \E p \in Near[watched] : Visit(p)
  <2>1. PICK p \in Near[watched] : Visit(p)
    BY <1>4
  <2>2. Opened(p) \in DOMAIN Page
    BY WatchedIsAQuery, OpenedIsAPage DEF Near
  <2>3. Open(Opened(p), request) /\ watched' = watched
    BY <2>1 DEF Visit
  <2> QED BY <1>1, <1>2, <2>2, <2>3, Opening, CarriedOn
<1>5. CASE \E op \in Concerning[watched], s \in Slots : Ask(op, s)
  <2>1. PICK op \in Concerning[watched], s \in Slots : Ask(op, s)
    BY <1>5
  <2>2. UNCHANGED <<watched, page, changes, fetch>> /\ page \in Change[op].on
    BY <2>1 DEF Ask, Offered
  <2>3. CASE t = s
    <3>1. Len(Keys(request'[t])) \in 0 .. 2
      BY <2>1, <2>3, AskStep, KeysOf
    <3>2. request'[t].step <= Len(Keys(request'[t]))
      BY <2>1, <2>3, <3>1, AskStep
    <3> QED BY <2>1, <2>2, <2>3, <3>2, AskStep DEF Consistent
  <2>4. CASE t # s
    BY <2>1, <2>2, <2>4, AskStep, OthersStay
  <2> QED BY <2>3, <2>4
<1>6. ASSUME NEW s \in Slots, Serve(s) \/ Succeed(s) \/ Fail(s) \/ Invalidate(s) \/ Resume(s),
             t # s
      PROVE  Consistent(t)'
  <2>1. request'[t] = request[t]
    BY <1>6, ServeStep, SucceedStep, FailStep, InvalidateStep, ResumeStep DEF Advanced
  <2>2. UNCHANGED <<watched, page>>
    BY <1>6 DEF Serve, Succeed, Fail, Invalidate, Resume
  <2>3. fetch # None => fetch' # None
    BY <1>2, <1>6 DEF Serve, Succeed, Fail, Invalidate, Resume
  <2>4. \A k \in DOMAIN changes : k \in DOMAIN changes' /\ changes'[k].op = changes[k].op
    <3>1. CASE Serve(s)
      <4>1. changes \in Seq(Effects) /\ changes' \in Seq(Effects)
            /\ (changes' = changes \/ Len(changes') = Len(changes) + 1)
            /\ \A k \in DOMAIN changes : changes'[k] = changes[k]
        BY <3>1, ServeStep DEF TypeOK
      <4> QED BY <4>1
    <3>2. CASE Succeed(s)
      BY <3>2, SucceedStep
    <3>3. CASE Fail(s) \/ Invalidate(s) \/ Resume(s)
      BY <3>3 DEF Fail, Invalidate, Resume
    <3> QED BY <1>6, <3>1, <3>2, <3>3
  <2> QED BY <2>1, <2>2, <2>3, <2>4, OthersStay
<1>7. CASE Serve(t)
  <2>1. /\ request[t] # None /\ request[t].at = "asked"
        /\ UNCHANGED <<watched, page>>
    BY <1>7 DEF Serve, At
  <2>2. /\ Advanced(t, "made", request[t].ok, request[t].step, Len(changes'))
        /\ changes' \in Seq(Effects) /\ Len(changes) \in Nat
    BY <1>7, ServeStep DEF TypeOK
  <2>3. Keys(request'[t]) = Keys(request[t])
    BY <2>2 DEF Keys, Advanced
  <2>4. request'[t].op \in Touching[watched] =>
          /\ Len(changes') \in DOMAIN changes'
          /\ changes'[Len(changes')].op = request'[t].op
    BY <1>7, <2>2, ServeStep DEF Advanced
  <2> QED BY <2>1, <2>2, <2>3, <2>4 DEF RequestInv, Consistent, Advanced
<1>8. CASE Succeed(t)
  <2>1. /\ request[t] # None /\ request[t].at = "made"
        /\ UNCHANGED <<watched, page, fetch>>
    BY <1>8 DEF Succeed, At
  <2>2. Advanced(t, "resumed", TRUE, 0, request[t].made)
    BY <1>8, SucceedStep
  <2>3. request'[t] \in Requests
    BY <1>8, SucceedStep DEF RequestsNow
  <2>4. request'[t].step <= Len(Keys(request'[t]))
    <3>1. Len(Keys(request'[t])) \in 0 .. 2
      BY <2>3, KeysOf
    <3> QED BY <2>2, <3>1 DEF Advanced
  <2>5. DOMAIN changes' = DOMAIN changes
        /\ \A k \in DOMAIN changes : changes'[k].op = changes[k].op
    BY <1>8, SucceedStep
  <2> QED BY <2>1, <2>2, <2>4, <2>5 DEF RequestInv, Consistent, Advanced
<1>9. CASE Fail(t)
  <2>1. UNCHANGED <<watched, page, changes>>
    BY <1>9 DEF Fail
  <2>2. Advanced(t, "resumed", FALSE, 0, request[t].made)
    BY <1>9, FailStep
  <2>3. request'[t] \in Requests
    BY <1>9, FailStep DEF RequestsNow
  <2>4. request'[t].step <= Len(Keys(request'[t]))
    <3>1. Len(Keys(request'[t])) \in 0 .. 2
      BY <2>3, KeysOf
    <3> QED BY <2>2, <3>1 DEF Advanced
  <2> QED BY <2>1, <2>2, <2>4 DEF RequestInv, Consistent, Advanced
<1>10. CASE Invalidate(t)
  <2>1. UNCHANGED <<watched, page, changes>>
    BY <1>10 DEF Invalidate
  <2>2. PICK at \in {"resumed", "waiting", "elsewhere"} :
          /\ Advanced(t, at, request[t].ok, request[t].step + 1, request[t].made)
          /\ at = "waiting" => Reads(t)
    BY <1>10, InvalidateStep
  <2>3. Keys(request'[t]) = Keys(request[t])
    BY <2>2 DEF Keys, Advanced
  <2>4. request[t].step + 1 <= Len(Keys(request[t]))
    <3>1. request[t].step \in 0 .. 2
      BY <2>2, AsRequest DEF Advanced
    <3> QED BY <1>10, <3>1, InvalidateStep
  <2>5. at = "waiting" => fetch' # None
    BY <1>10, <2>2, InvalidateStep, AskedTyped, RecordIsNotNone
  <2> QED BY <2>1, <2>2, <2>3, <2>4, <2>5 DEF RequestInv, Consistent, Advanced
<1>11. CASE Resume(t)
  <2>1. UNCHANGED <<watched, page, changes, fetch>>
    BY <1>11 DEF Resume
  <2>2. Advanced(t, "resumed", request[t].ok, request[t].step, request[t].made)
    BY <1>11, ResumeStep
  <2>3. Keys(request'[t]) = Keys(request[t])
    BY <2>2 DEF Keys, Advanced
  <2> QED BY <2>1, <2>2, <2>3 DEF RequestInv, Consistent, Advanced
<1>12. ASSUME NEW s \in Slots, Settle(s)
       PROVE  Consistent(t)'
  <2> DEFINE rest == [request EXCEPT ![s] = None]
  <2>1. PICK p \in DOMAIN Page : Open(p, rest)
    BY <1>12, SettleStep
  <2>2. rest \in [Slots -> RequestsNow(Len(changes))]
    BY <1>12, SettleStep
  <2>3. rest[t] = None \/ rest[t] = request[t]
    BY DEF TypeOK
  <2> HIDE DEF rest
  <2>4. watched' = watched
    BY <1>12 DEF Settle
  <2> QED BY <1>2, <2>1, <2>2, <2>3, <2>4, Opening, CarriedOn
<1>13. CASE Answer
  <2>1. request' = Woken /\ UNCHANGED <<watched, page, changes>>
    BY <1>13 DEF Answer
  <2> QED BY <2>1, WokenAre, CarriedOn
<1>14. CASE GiveUp
  BY <1>14, GiveUpStep, CarriedOn DEF GiveUp
<1>15. CASE Retry
  BY <1>15, RetryStep, OthersStay, RecordIsNotNone DEF Retry
<1>16. CASE Focus
  BY <1>2, <1>16, OthersStay DEF Focus
<1>17. CASE Forget
  BY <1>17, OthersStay DEF Forget
<1>18. ASSUME NEW s \in Slots, Serve(s) \/ Succeed(s) \/ Fail(s) \/ FollowUp(s)
       PROVE  Consistent(t)'
  BY <1>6, <1>7, <1>8, <1>9, <1>10, <1>11, <1>12, <1>18 DEF FollowUp
<1> QED BY <1>3, <1>4, <1>5, <1>13, <1>14, <1>15, <1>16, <1>17, <1>18 DEF Next

\* Serve appends what its request says; leaving a page clears `here`.
LEMMA HereStep == TypeOK /\ RequestInv /\ HereInv /\ [Next]_vars => HereInv'
<1> SUFFICES ASSUME TypeOK, RequestInv, HereInv, [Next]_vars,
                    NEW k \in DOMAIN changes', changes'[k].here
             PROVE  /\ page' \in Change[changes'[k].op].on
                    /\ changes'[k].op \in Touching[watched']
  BY DEF HereInv
<1>1. ASSUME k \in DOMAIN changes, changes'[k].op = changes[k].op,
             changes[k].here /\ page' = page, watched' = watched
      PROVE  /\ page' \in Change[changes'[k].op].on
             /\ changes'[k].op \in Touching[watched']
  BY <1>1 DEF HereInv
<1>2. CASE UNCHANGED vars
  BY <1>1, <1>2 DEF vars
<1>3. CASE \E p \in Near[watched] : Visit(p)
  <2>1. PICK p \in Near[watched] : Visit(p)
    BY <1>3
  <2>2. Opened(p) \in DOMAIN Page
    BY WatchedIsAQuery, OpenedIsAPage DEF Near
  <2>3. Open(Opened(p), request) /\ watched' = watched
    BY <2>1 DEF Visit
  <2>4. request \in [Slots -> RequestsNow(Len(changes))]
    BY DEF TypeOK, RequestsNow
  <2> QED BY <1>1, <2>2, <2>3, <2>4, Opening
<1>4. CASE \E op \in Concerning[watched], s \in Slots : Ask(op, s)
  BY <1>1, <1>4 DEF Ask
<1>5. ASSUME NEW s \in Slots, Serve(s)
      PROVE  /\ page' \in Change[changes'[k].op].on
             /\ changes'[k].op \in Touching[watched']
  <2>1. UNCHANGED <<watched, page>>
    BY <1>5 DEF Serve
  <2>2. CASE k \in DOMAIN changes
    <3>1. changes'[k] = changes[k]
      BY <1>5, <2>2, ServeStep
    <3> QED BY <1>1, <2>1, <2>2, <3>1
  <2>3. CASE k \notin DOMAIN changes
    <3>1. /\ request[s].op \in Touching[watched] /\ k = Len(changes')
          /\ changes'[k].op = request[s].op /\ changes'[k].here = request[s].here
      <4>1. changes \in Seq(Effects) /\ changes' \in Seq(Effects)
        BY <1>5, ServeStep DEF TypeOK
      <4>2. changes' # changes
        BY <2>3
      <4>3. Len(changes') = Len(changes) + 1
        BY <1>5, <4>2, ServeStep
      <4>4. k = Len(changes')
        BY <2>3, <4>1, <4>3
      <4> QED BY <1>5, <4>2, <4>4, ServeStep
    <3>2. request[s] # None
      BY <1>5 DEF Serve, At
    <3> QED BY <2>1, <3>1, <3>2 DEF RequestInv, Consistent
  <2> QED BY <2>2, <2>3
<1>6. ASSUME NEW s \in Slots, Succeed(s)
      PROVE  /\ page' \in Change[changes'[k].op].on
             /\ changes'[k].op \in Touching[watched']
  BY <1>1, <1>6, SucceedStep DEF Succeed
<1>7. ASSUME NEW s \in Slots, Settle(s)
      PROVE  /\ page' \in Change[changes'[k].op].on
             /\ changes'[k].op \in Touching[watched']
  <2> DEFINE rest == [request EXCEPT ![s] = None]
  <2>1. PICK p \in DOMAIN Page : Open(p, rest)
    BY <1>7, SettleStep
  <2>2. rest \in [Slots -> RequestsNow(Len(changes))] /\ watched' = watched
    BY <1>7, SettleStep DEF Settle
  <2> HIDE DEF rest
  <2> QED BY <1>1, <2>1, <2>2, Opening
<1>8. CASE GiveUp
  BY <1>1, <1>8, GiveUpStep DEF GiveUp
<1>9. CASE Answer \/ Retry \/ Focus \/ Forget
  BY <1>1, <1>9 DEF Answer, Retry, Focus, Forget
<1>10. ASSUME NEW s \in Slots, Fail(s) \/ Invalidate(s) \/ Resume(s)
       PROVE  /\ page' \in Change[changes'[k].op].on
              /\ changes'[k].op \in Touching[watched']
  BY <1>1, <1>10 DEF Fail, Invalidate, Resume
<1> QED BY <1>2, <1>3, <1>4, <1>5, <1>6, <1>7, <1>8, <1>9, <1>10 DEF Next, FollowUp

(***************************************************************************)
(* A confirmed change is shown                                             *)
(***************************************************************************)

\* The cache shows change k, or will when the reading in flight is answered,
\* unless a reading was late or failed.
Covered(k) ==
    IF fetch # None THEN fetch.late \/ k <= fetch.asked
                    ELSE k <= shown \/ last # "sound"

\* One of the keys the request has left reads q again.
ReadsAgain(r, q) == \E j \in r.step + 1 .. 2 : RereadsAt(r.op, j, q)

\* A change that succeeded still has the data read again, or opens a page that
\* does: it was asked on this visit, or is just about to.
Renewing(s) ==
    LET r == request[s]
    IN  /\ r # None /\ r.ok
        /\ \/ r.here /\ (ReadsAgain(r, watched) \/ Change[r.op].goes # {})
           \/ r.at = "resumed" /\ RereadsAt(r.op, r.step + 1, watched)

\* What was told is covered, or will be by a key or a page to come.
ShownInv ==
    watched \in Page[page] =>
        \A k \in DOMAIN changes :
            changes[k].told => Covered(k) \/ \E s \in Slots : Renewing(s)

\* A reading asked or joined now covers every change.
LEMMA CoveredAnew ==
    ASSUME TypeOK, fetch' = Asked \/ fetch' = Joined \/ fetch' = Renewed,
           NEW k \in DOMAIN changes
    PROVE  Covered(k)'
<1>1. changes \in Seq(Effects) /\ k \in 1 .. Len(changes)
  BY DEF TypeOK
<1>2. fetch' # None /\ (fetch'.late \/ fetch'.asked = Len(changes))
  BY AskedTyped, RecordIsNotNone
<1> QED BY <1>1, <1>2 DEF Covered

\* What a page shows itself is on screen.
LEMMA OnScreen ==
    ASSUME TypeOK, watched \in Page[page]
    PROVE  Active
BY OwnQueries DEF TypeOK, Active

\* A key that Invalidate passes without a reading is not one that rereads.
LEMMA PassedKey ==
    ASSUME TypeOK, RequestInv, Active, NEW s \in Slots, Invalidate(s),
           request[s].ok, ~Reads(s)
    PROVE  /\ ~RereadsAt(request[s].op, request[s].step + 1, watched)
           /\ ReadsAgain(request[s], watched) => ReadsAgain(request'[s], watched)
<1>1. /\ request[s] \in Requests /\ request[s].step \in 0 .. 2
  BY AsRequest DEF Invalidate, At
<1>2. Keys(request[s]) = Steps(request[s].op)
  BY <1>1, KeysOf
<1>3. ~RereadsAt(request[s].op, request[s].step + 1, watched)
  BY <1>2 DEF Reads, RereadsAt
<1>4. request'[s].op = request[s].op /\ request'[s].step = request[s].step + 1
  BY InvalidateStep DEF Advanced
<1>5. ASSUME NEW j \in request[s].step + 1 .. 2, RereadsAt(request[s].op, j, watched)
      PROVE  j \in request'[s].step + 1 .. 2
  BY <1>1, <1>3, <1>4, <1>5
<1> QED BY <1>3, <1>4, <1>5 DEF ReadsAgain

\* At its end a request has no key left.
LEMMA NoKeyLeft ==
    ASSUME TypeOK, NEW s \in Slots, Settle(s), request[s].ok
    PROVE  /\ ~ReadsAgain(request[s], watched)
           /\ ~RereadsAt(request[s].op, request[s].step + 1, watched)
<1>1. /\ request[s] \in Requests /\ request[s].step \in 0 .. 2
  BY AsRequest DEF Settle, At
<1>2. request[s].step = Len(Steps(request[s].op))
  BY <1>1, SettleStep, KeysOf
<1>3. \A j : j > request[s].step => ~RereadsAt(request[s].op, j, watched)
  BY <1>1, <1>2 DEF RereadsAt
<1>4. \A j \in request[s].step + 1 .. 2 : ~RereadsAt(request[s].op, j, watched)
  BY <1>1, <1>3
<1> QED BY <1>1, <1>3, <1>4 DEF ReadsAgain

\* A request a step leaves alone, or only moves on from where it waited.
LEMMA StillRenewing ==
    ASSUME NEW t \in Slots, request[t] # None, request'[t] # None,
           request'[t].op = request[t].op, request'[t].ok = request[t].ok,
           request'[t].here = request[t].here, request'[t].step = request[t].step,
           request'[t].at = request[t].at \/ request[t].at # "resumed",
           watched' = watched, Renewing(t)
    PROVE  Renewing(t)'
BY DEF Renewing, ReadsAgain

\* What was just told on its page is read again, or leads to another page.
LEMMA ToldRenews ==
    ASSUME TypeOK, RequestInv, watched \in Page[page], NEW s \in Slots, Succeed(s),
           request[s].op \in Touching[watched], request[s].here
    PROVE  Renewing(s)'
<1> DEFINE op == request[s].op
<1>1. /\ request[s].at = "made" /\ watched' = watched /\ request[s] # None
      /\ Advanced(s, "resumed", TRUE, 0, request[s].made)
  BY SucceedStep DEF Succeed, At
<1>2. op \in DOMAIN Change /\ page \in Change[op].on
  BY <1>1, AsRequest DEF RequestInv, Consistent
<1>3. Change[op].goes # {} \/ \E j \in 1 .. 2 : RereadsAt(op, j, watched)
  BY <1>2, EachChangeIsTidy DEF Tidy
<1>4. request'[s].step + 1 = 1
  BY <1>1 DEF Advanced
<1> QED BY <1>1, <1>3, <1>4 DEF Renewing, ReadsAgain, Advanced

\* A change whose answer is put in the cache has it read again first of all.
LEMMA CachedRenews ==
    ASSUME TypeOK, RequestInv, NEW s \in Slots, Succeed(s),
           Change[request[s].op].caches = watched
    PROVE  Renewing(s)'
<1> DEFINE op == request[s].op
<1>1. /\ watched' = watched /\ request[s] # None
      /\ Advanced(s, "resumed", TRUE, 0, request[s].made)
  BY SucceedStep DEF Succeed, At
<1>2. op \in DOMAIN Change
  BY <1>1, AsRequest
<1>3. RereadsAt(op, 1, watched)
  BY <1>2, EachChangeIsTidy, WatchedIsAQuery, QueryIsNotNone DEF Tidy
<1>4. request'[s].step + 1 = 1
  BY <1>1 DEF Advanced
<1> QED BY <1>1, <1>3, <1>4 DEF Renewing, Advanced

\* Only a page opened, a key read again or a reading that ends changes what
\* covers a change (onSuccess and onSettled of the pages, client.ts).
LEMMA ShownStep == TypeOK /\ RequestInv /\ ShownInv /\ [Next]_vars => ShownInv'
<1> SUFFICES ASSUME TypeOK, RequestInv, ShownInv, [Next]_vars,
                    watched' \in Page[page'],
                    NEW k \in DOMAIN changes', changes'[k].told
             PROVE  Covered(k)' \/ \E s \in Slots : Renewing(s)'
  BY DEF ShownInv
<1> DEFINE Goal == Covered(k)' \/ \E s \in Slots : Renewing(s)'
<1>1. /\ request \in [Slots -> RequestsNow(Len(changes))]
      /\ changes \in Seq(Effects) /\ page \in DOMAIN Page
  BY DEF TypeOK, RequestsNow
<1>2. ASSUME page' = page, watched' = watched, k \in DOMAIN changes, changes[k].told
      PROVE  Covered(k) \/ \E s \in Slots : Renewing(s)
  BY <1>2 DEF ShownInv
<1>3. ASSUME UNCHANGED <<shown, fetch, last>>, Covered(k)
      PROVE  Covered(k)'
  BY <1>3 DEF Covered
<1>4. ASSUME NEW t \in Slots, Renewing(t), request'[t] = request[t], watched' = watched
      PROVE  Renewing(t)'
  BY <1>4, StillRenewing DEF Renewing
<1>5. CASE UNCHANGED vars
  BY <1>2, <1>3, <1>4, <1>5 DEF vars
<1>6. CASE \E p \in Near[watched] : Visit(p)
  <2>1. PICK p \in Near[watched] : Visit(p)
    BY <1>6
  <2>2. Opened(p) \in DOMAIN Page
    BY WatchedIsAQuery, OpenedIsAPage DEF Near
  <2>3. Open(Opened(p), request) /\ UNCHANGED <<watched, shown, last>>
    BY <2>1 DEF Visit
  <2>4. CASE Opened(p) = page
    <3>1. page' = page /\ request' = request /\ changes' = changes /\ fetch' = fetch
      BY <1>1, <2>2, <2>3, <2>4, Opening
    <3> QED BY <1>2, <1>3, <1>4, <2>3, <3>1
  <2>5. CASE Opened(p) # page
    BY <1>1, <2>2, <2>3, <2>5, Opening, CoveredAnew
  <2> QED BY <2>4, <2>5
<1>7. CASE \E op \in Concerning[watched], s \in Slots : Ask(op, s)
  <2>1. PICK op \in Concerning[watched], s \in Slots : Ask(op, s)
    BY <1>7
  <2>2. UNCHANGED <<watched, page, changes, shown, fetch, last>>
    BY <2>1 DEF Ask
  <2>3. request[s] = None /\ \A t \in Slots : t # s => request'[t] = request[t]
    BY <2>1, AskStep
  <2>4. \A t \in Slots : Renewing(t) => Renewing(t)'
    BY <1>4, <2>2, <2>3 DEF Renewing
  <2> QED BY <1>2, <1>3, <2>2, <2>4
<1>8. ASSUME NEW s \in Slots, Serve(s) PROVE Goal
  <2>1. UNCHANGED <<watched, page, shown, fetch, last>>
    BY <1>8 DEF Serve
  <2>2. k \in DOMAIN changes /\ changes[k].told
    <3>1. CASE changes' = changes
      BY <3>1
    <3>2. CASE changes' # changes
      <4>1. /\ changes' \in Seq(Effects) /\ Len(changes') = Len(changes) + 1
            /\ \A i \in DOMAIN changes : changes'[i] = changes[i]
            /\ ~changes'[Len(changes')].told
        BY <1>8, <3>2, ServeStep
      <4>2. k # Len(changes')
        BY <4>1
      <4>3. k \in DOMAIN changes
        BY <1>1, <4>1, <4>2
      <4> QED BY <4>1, <4>3
    <3> QED BY <3>1, <3>2
  <2>3. request[s] # None /\ ~request[s].ok
    BY <1>8 DEF Serve, At, RequestInv, Consistent
  <2>4. \A t \in Slots : Renewing(t) => Renewing(t)'
    BY <1>4, <1>8, <2>1, <2>3, ServeStep DEF Renewing, Advanced
  <2> QED BY <1>2, <1>3, <2>1, <2>2, <2>4
<1>9. ASSUME NEW s \in Slots, Succeed(s) PROVE Goal
  <2>1. UNCHANGED <<watched, page, fetch, last>>
    BY <1>9 DEF Succeed
  <2>2. /\ k \in DOMAIN changes
        /\ changes[k].told \/ (request[s].op \in Touching[watched] /\ request[s].here)
    BY <1>9, SucceedStep
  <2>3. CASE ~changes[k].told
    BY <1>9, <2>1, <2>2, <2>3, ToldRenews
  <2>4. CASE Change[request[s].op].caches = watched
    BY <1>9, <2>4, CachedRenews
  <2>5. CASE changes[k].told /\ Change[request[s].op].caches # watched
    <3>1. shown' = shown
      BY <1>9, <2>5 DEF Succeed
    <3>2. ~request[s].ok
      BY <1>9, SucceedStep
    <3>3. \A t \in Slots : Renewing(t) => Renewing(t)'
      BY <1>4, <1>9, <2>1, <3>2, SucceedStep DEF Renewing, Advanced
    <3> QED BY <1>2, <1>3, <2>1, <2>2, <2>5, <3>1, <3>3
  <2> QED BY <2>3, <2>4, <2>5
<1>10. ASSUME NEW s \in Slots, Fail(s) PROVE Goal
  <2>1. UNCHANGED <<watched, page, changes, shown, last>>
        /\ (fetch' = fetch \/ fetch' = Renewed)
    BY <1>10 DEF Fail
  <2>2. ~request[s].ok
    BY <1>10, FailStep
  <2>3. \A t \in Slots : Renewing(t) => Renewing(t)'
    BY <1>4, <1>10, <2>1, <2>2, FailStep DEF Renewing, Advanced
  <2> QED BY <1>2, <1>3, <2>1, <2>3, CoveredAnew
<1>11. ASSUME NEW s \in Slots, Invalidate(s) PROVE Goal
  <2>1. UNCHANGED <<watched, page, changes, shown, last>>
    BY <1>11 DEF Invalidate
  <2>2. CASE Reads(s)
    BY <1>11, <2>1, <2>2, InvalidateStep, CoveredAnew
  <2>3. CASE ~Reads(s)
    <3>1. fetch' = fetch
      BY <1>11, <2>3, InvalidateStep
    <3>2. \A t \in Slots : t # s => request'[t] = request[t]
      BY <1>11, InvalidateStep DEF Advanced
    <3>3. /\ request'[s] # None /\ request'[s].op = request[s].op
          /\ request'[s].ok = request[s].ok /\ request'[s].here = request[s].here
      BY <1>11, InvalidateStep DEF Advanced
    <3>4. Renewing(s) => Renewing(s)'
      <4> SUFFICES ASSUME Renewing(s) PROVE Renewing(s)'
        OBVIOUS
      <4>1. request[s].ok /\ Active
        BY <2>1, OnScreen DEF Renewing
      <4>2. /\ ~RereadsAt(request[s].op, request[s].step + 1, watched)
            /\ ReadsAgain(request[s], watched) => ReadsAgain(request'[s], watched)
        BY <1>11, <2>3, <4>1, PassedKey
      <4>3. request[s].here /\ (ReadsAgain(request[s], watched)
                                  \/ Change[request[s].op].goes # {})
        BY <4>2 DEF Renewing
      <4>4. ReadsAgain(request'[s], watched) \/ Change[request'[s].op].goes # {}
        BY <3>3, <4>2, <4>3
      <4> QED BY <2>1, <3>3, <4>1, <4>3, <4>4 DEF Renewing
    <3>5. \A t \in Slots : Renewing(t) => Renewing(t)'
      BY <1>4, <2>1, <3>2, <3>4
    <3> QED BY <1>2, <1>3, <2>1, <3>1, <3>5
  <2> QED BY <2>2, <2>3
<1>12. ASSUME NEW s \in Slots, Resume(s) PROVE Goal
  <2>1. UNCHANGED <<watched, page, changes, shown, fetch, last>>
    BY <1>12 DEF Resume
  <2>2. \A t \in Slots : Renewing(t) => Renewing(t)'
    <3> SUFFICES ASSUME NEW t \in Slots, Renewing(t) PROVE Renewing(t)'
      OBVIOUS
    <3>1. CASE t # s
      BY <1>4, <1>12, <2>1, <3>1, ResumeStep DEF Advanced
    <3>2. CASE t = s
      BY <1>12, <2>1, <3>2, ResumeStep, StillRenewing DEF Advanced
    <3> QED BY <3>1, <3>2
  <2> QED BY <1>2, <1>3, <2>1, <2>2
<1>13. ASSUME NEW s \in Slots, Settle(s) PROVE Goal
  <2> DEFINE rest == [request EXCEPT ![s] = None]
  <2>1. PICK p \in DOMAIN Page :
          /\ Open(p, rest)
          /\ request[s].ok /\ Change[request[s].op].goes # {} =>
               p \notin Change[request[s].op].on
    BY <1>13, SettleStep
  <2>2. rest \in [Slots -> RequestsNow(Len(changes))]
    BY <1>13, SettleStep
  <2>3. \A t \in Slots : t # s => rest[t] = request[t]
    BY DEF TypeOK
  <2> HIDE DEF rest
  <2>4. UNCHANGED <<watched, shown, last>> /\ request[s] # None
    BY <1>13, SettleStep DEF Settle
  <2>5. page' = p /\ DOMAIN changes' = DOMAIN changes
    BY <2>1, <2>2, Opening
  <2>6. CASE p # page
    <3>1. fetch' = Joined
      BY <2>1, <2>2, <2>4, <2>5, <2>6, Opening
    <3> QED BY <2>5, <3>1, CoveredAnew
  <2>7. CASE p = page
    <3>1. request' = rest /\ changes' = changes /\ fetch' = fetch
      BY <2>1, <2>2, <2>7, Opening
    <3>2. ~Renewing(s)
      <4>1. request[s].here => page \in Change[request[s].op].on
        BY <2>4 DEF RequestInv, Consistent
      <4>2. request[s].ok => /\ ~ReadsAgain(request[s], watched)
                             /\ ~RereadsAt(request[s].op, request[s].step + 1, watched)
        BY <1>13, NoKeyLeft
      <4> QED BY <2>1, <2>7, <4>1, <4>2 DEF Renewing
    <3>3. \A t \in Slots : Renewing(t) => Renewing(t)'
      BY <1>4, <2>3, <2>4, <3>1, <3>2
    <3> QED BY <1>2, <1>3, <2>4, <2>5, <2>7, <3>1, <3>3
  <2> QED BY <2>6, <2>7
<1>14. CASE Answer
  <2>1. /\ fetch # None /\ fetch' = None /\ Quiet /\ request' = Woken
        /\ UNCHANGED <<watched, page, changes>>
        /\ shown' \in fetch.asked .. Len(changes)
        /\ last' = IF fetch.late THEN "late" ELSE "sound"
    BY <1>14 DEF Answer
  <2>2. Covered(k) => Covered(k)'
    <3>1. fetch \in Readings
      BY <2>1 DEF TypeOK
    <3>2. fetch.asked \in Nat /\ Len(changes) \in Nat
      BY <1>1, <3>1 DEF Readings
    <3>3. k \in Nat
      BY <1>1, <2>1
    <3>4. k <= fetch.asked => k <= shown'
      BY <2>1, <3>2, <3>3
    <3> QED BY <2>1, <3>4 DEF Covered
  <2>3. \A t \in Slots : Renewing(t) => Renewing(t)'
    <3> SUFFICES ASSUME NEW t \in Slots, Renewing(t) PROVE Renewing(t)'
      OBVIOUS
    <3>1. request[t] # None /\ request[t].at # "resumed"
      BY <2>1 DEF Renewing, Quiet, At
    <3> QED BY <2>1, <3>1, WokenAre, StillRenewing
  <2> QED BY <1>2, <2>1, <2>2, <2>3
<1>15. CASE Retry
  <2>1. fetch' # None /\ fetch'.asked = Len(changes) /\ changes' = changes
    BY <1>15, RetryStep, RecordIsNotNone DEF Retry
  <2>2. k <= Len(changes)
    BY <1>1, <2>1
  <2> QED BY <2>1, <2>2 DEF Covered
<1>16. CASE GiveUp
  BY <1>16 DEF GiveUp, Covered
<1>17. CASE Focus
  BY <1>17, CoveredAnew DEF Focus
<1>18. CASE Forget
  BY <1>18, OnScreen DEF Forget
<1>19. CASE \E s \in Slots : Serve(s) \/ Succeed(s) \/ Fail(s) \/ FollowUp(s)
  BY <1>8, <1>9, <1>10, <1>11, <1>12, <1>13, <1>19 DEF FollowUp
<1> QED BY <1>5, <1>6, <1>7, <1>14, <1>15, <1>16, <1>17, <1>18, <1>19 DEF Next

(***************************************************************************)
(* Nothing is asked twice                                                  *)
(***************************************************************************)

\* The success of change k is being followed up and will have the data read
\* again, or it waits for that.
FollowedUp(k, s) ==
    LET r == request[s]
    IN  r # None /\ r.ok /\ r.here /\ r.op = changes[k].op /\ ReadsAgain(r, watched)

WaitsFor(k, s) ==
    LET r == request[s]
    IN  r # None /\ r.here /\ r.op = changes[k].op /\ r.at = "waiting"

\* What was told on this visit, and is not offered while pending, is pending as
\* long as the list does not show it done.
Finished(k) ==
    /\ changes[k].told /\ changes[k].here
    /\ Change[changes[k].op].consumes = watched
    /\ Change[changes[k].op].guarded

AskInv ==
    \A k \in DOMAIN changes : Finished(k) =>
        /\ Covered(k) \/ \E s \in Slots : FollowedUp(k, s)
        /\ k <= shown \/ last # "sound" \/ \E s \in Slots : FollowedUp(k, s) \/ WaitsFor(k, s)

\* What consumes the query followed is on a page that shows it, and rereads it.
LEMMA Consuming ==
    ASSUME TypeOK, HereInv, NEW k \in DOMAIN changes, changes[k].here,
           Change[changes[k].op].consumes = watched
    PROVE  /\ watched \in Page[page] /\ Active
           /\ watched # "preview"
           /\ \E j \in 1 .. 2 : RereadsAt(changes[k].op, j, watched)
<1> DEFINE op == changes[k].op
<1>1. op \in DOMAIN Change
  <2>1. changes[k] \in Effects
    BY DEF TypeOK
  <2> QED BY <2>1 DEF Effects
<1>2. page \in Change[op].on /\ op \in Touching[watched]
  BY DEF HereInv
<1>3. watched # None
  BY WatchedIsAQuery, QueryIsNotNone
<1>4. watched # "preview" /\ Change[op].goes = {} /\ watched \in Page[page]
  BY <1>1, <1>2, <1>3, EachChangeIsTidy DEF Tidy
<1>5. \E j \in 1 .. 2 : RereadsAt(op, j, watched)
  BY <1>1, <1>2, <1>4, EachChangeIsTidy DEF Tidy
<1> QED BY <1>4, <1>5, OnScreen

\* A request in slot t that goes on in the same way.
LEMMA StillFollowed ==
    ASSUME NEW t \in Slots, NEW k \in DOMAIN changes,
           request[t] # None, request'[t] # None,
           request'[t].op = request[t].op, request'[t].ok = request[t].ok,
           request'[t].here = request[t].here, request'[t].step = request[t].step,
           watched' = watched, changes'[k].op = changes[k].op
    PROVE  /\ FollowedUp(k, t) => FollowedUp(k, t)'
           /\ WaitsFor(k, t) /\ request'[t].at = "waiting" => WaitsFor(k, t)'
BY DEF FollowedUp, WaitsFor, ReadsAgain

\* What was told of a row stays pending until the list shows it done.
LEMMA AskInvStep == TypeOK /\ RequestInv /\ HereInv /\ AskInv /\ [Next]_vars => AskInv'
<1> DEFINE Read(k) == Covered(k) \/ \E s \in Slots : FollowedUp(k, s)
           Held(k) == \/ k <= shown \/ last # "sound"
                      \/ \E s \in Slots : FollowedUp(k, s) \/ WaitsFor(k, s)
<1> SUFFICES ASSUME TypeOK, RequestInv, HereInv, AskInv, [Next]_vars,
                    NEW k \in DOMAIN changes', Finished(k)'
             PROVE  Read(k)' /\ Held(k)'
  BY DEF AskInv
<1> DEFINE Goal == Read(k)' /\ Held(k)'
<1>1. /\ request \in [Slots -> RequestsNow(Len(changes))]
      /\ changes \in Seq(Effects) /\ page \in DOMAIN Page
  BY DEF TypeOK, RequestsNow
\* An old change that is here, told before, and goes on as it was.
<1>2. ASSUME k \in DOMAIN changes, changes'[k].op = changes[k].op, watched' = watched,
             changes[k].here, changes[k].told
      PROVE  /\ watched \in Page[page] /\ Active /\ watched # "preview"
             /\ Read(k) /\ Held(k)
  BY <1>2, Consuming DEF AskInv, Finished
<1>3. ASSUME UNCHANGED <<shown, fetch, last>>, k \in DOMAIN changes,
             changes'[k].op = changes[k].op, watched' = watched,
             changes[k].here, changes[k].told,
             \A t \in Slots :
                /\ FollowedUp(k, t) => FollowedUp(k, t)'
                /\ WaitsFor(k, t) => WaitsFor(k, t)'
      PROVE  Goal
  <2>1. Covered(k) => Covered(k)'
    BY <1>3 DEF Covered
  <2> QED BY <1>2, <1>3, <2>1
<1>4. ASSUME NEW t \in Slots, request'[t] = request[t], k \in DOMAIN changes,
             changes'[k].op = changes[k].op, watched' = watched
      PROVE  /\ FollowedUp(k, t) => FollowedUp(k, t)'
             /\ WaitsFor(k, t) => WaitsFor(k, t)'
  BY <1>4 DEF FollowedUp, WaitsFor, ReadsAgain
<1>5. CASE UNCHANGED vars
  BY <1>3, <1>4, <1>5 DEF vars, Finished
<1>6. CASE \E p \in Near[watched] : Visit(p)
  <2>1. PICK p \in Near[watched] : Visit(p)
    BY <1>6
  <2>2. Opened(p) \in DOMAIN Page
    BY WatchedIsAQuery, OpenedIsAPage DEF Near
  <2>3. Open(Opened(p), request) /\ UNCHANGED <<watched, shown, last>>
    BY <2>1 DEF Visit
  <2>4. Opened(p) = page
    BY <1>1, <2>2, <2>3, Opening DEF Finished
  <2>5. request' = request /\ changes' = changes /\ fetch' = fetch
    BY <1>1, <2>2, <2>3, <2>4, Opening
  <2> QED BY <1>3, <1>4, <2>3, <2>5 DEF Finished
<1>7. CASE \E op \in Concerning[watched], s \in Slots : Ask(op, s)
  <2>1. PICK op \in Concerning[watched], s \in Slots : Ask(op, s)
    BY <1>7
  <2>2. UNCHANGED <<watched, page, changes, shown, fetch, last>>
    BY <2>1 DEF Ask
  <2>3. request[s] = None /\ \A t \in Slots : t # s => request'[t] = request[t]
    BY <2>1, AskStep
  <2>4. ~FollowedUp(k, s) /\ ~WaitsFor(k, s)
    BY <2>3 DEF FollowedUp, WaitsFor
  <2> QED BY <1>3, <1>4, <2>2, <2>3, <2>4 DEF Finished
<1>8. ASSUME NEW s \in Slots, Serve(s) PROVE Goal
  <2>1. UNCHANGED <<watched, page, shown, fetch, last>>
    BY <1>8 DEF Serve
  <2>2. k \in DOMAIN changes /\ changes'[k] = changes[k]
    <3>1. CASE changes' = changes
      BY <3>1
    <3>2. CASE changes' # changes
      <4>1. /\ changes' \in Seq(Effects) /\ Len(changes') = Len(changes) + 1
            /\ \A i \in DOMAIN changes : changes'[i] = changes[i]
            /\ ~changes'[Len(changes')].told
        BY <1>8, <3>2, ServeStep
      <4>2. k # Len(changes')
        BY <4>1 DEF Finished
      <4>3. k \in DOMAIN changes
        BY <1>1, <4>1, <4>2
      <4> QED BY <4>1, <4>3
    <3> QED BY <3>1, <3>2
  <2>3. /\ request[s] # None /\ ~request[s].ok /\ request[s].at = "asked"
        /\ \A t \in Slots : t # s => request'[t] = request[t]
    BY <1>8, ServeStep DEF Serve, At, RequestInv, Consistent, Advanced
  <2>4. ~FollowedUp(k, s) /\ ~WaitsFor(k, s)
    BY <2>3 DEF FollowedUp, WaitsFor
  <2> QED BY <1>3, <1>4, <2>1, <2>2, <2>3, <2>4 DEF Finished
<1>9. ASSUME NEW s \in Slots, Succeed(s) PROVE Goal
  <2>1. UNCHANGED <<watched, page, fetch, last>>
    BY <1>9 DEF Succeed
  <2>2. /\ k \in DOMAIN changes
        /\ changes'[k].op = changes[k].op /\ changes[k].here
        /\ \/ changes[k].told
           \/ /\ k = request[s].made
              /\ request[s].op \in Touching[watched] /\ request[s].here
    BY <1>9, SucceedStep DEF Finished
  <2>3. Advanced(s, "resumed", TRUE, 0, request[s].made)
        /\ request[s].at = "made" /\ ~request[s].ok
    BY <1>9, SucceedStep
  <2>4. Change[changes[k].op].consumes = watched
    BY <2>1, <2>2 DEF Finished
  <2>5. CASE ~changes[k].told
    <3>1. changes[k].op = request[s].op
      BY <2>2, <2>3, <2>5 DEF RequestInv, Consistent, Advanced
    <3>2. \E j \in 1 .. 2 : RereadsAt(changes[k].op, j, watched)
      BY <2>2, <2>4, Consuming
    <3>3. request'[s].step + 1 = 1
      BY <2>3 DEF Advanced
    <3>4. ReadsAgain(request'[s], watched)
      BY <2>3, <3>1, <3>2, <3>3 DEF ReadsAgain, Advanced
    <3>5. FollowedUp(k, s)'
      BY <2>1, <2>2, <2>3, <2>5, <3>1, <3>4 DEF FollowedUp, Advanced, ReadsAgain
    <3> QED BY <3>5
  <2>6. CASE changes[k].told
    <3>1. watched # "preview" /\ watched # None
      BY <1>2, <2>1, <2>2, <2>6, WatchedIsAQuery, QueryIsNotNone
    <3>2. request[s].op \in DOMAIN Change
      BY <2>3, AsRequest DEF Advanced
    <3>3. Change[request[s].op].caches # watched
      BY <3>1, <3>2, EachChangeIsTidy DEF Tidy
    <3>4. shown' = shown
      BY <1>9, <3>3 DEF Succeed
    <3>5. ~FollowedUp(k, s) /\ ~WaitsFor(k, s)
      BY <2>3 DEF FollowedUp, WaitsFor
    <3> QED BY <1>3, <1>4, <2>1, <2>2, <2>3, <2>6, <3>4, <3>5 DEF Advanced
  <2> QED BY <2>5, <2>6
<1>10. ASSUME NEW s \in Slots, Fail(s) PROVE Goal
  <2>1. UNCHANGED <<watched, page, changes, shown, last>>
        /\ (fetch' = fetch \/ fetch' = Renewed)
    BY <1>10 DEF Fail
  <2>2. /\ ~request[s].ok /\ request[s].at # "waiting"
        /\ \A t \in Slots : t # s => request'[t] = request[t]
    BY <1>10, FailStep DEF Advanced
  <2>3. ~FollowedUp(k, s) /\ ~WaitsFor(k, s)
    BY <2>2 DEF FollowedUp, WaitsFor
  <2>4. \A t \in Slots : /\ FollowedUp(k, t) => FollowedUp(k, t)'
                         /\ WaitsFor(k, t) => WaitsFor(k, t)'
    BY <1>4, <2>1, <2>2, <2>3
  <2>5. CASE fetch' = fetch
    BY <1>3, <2>1, <2>4, <2>5 DEF Finished
  <2>6. CASE fetch' = Renewed
    <3>1. Covered(k)'
      BY <2>1, <2>6, CoveredAnew
    <3>2. Held(k)
      BY <1>2, <2>1 DEF Finished
    <3> QED BY <2>1, <2>4, <3>1, <3>2
  <2> QED BY <2>1, <2>5, <2>6
<1>11. ASSUME NEW s \in Slots, Invalidate(s) PROVE Goal
  <2>1. UNCHANGED <<watched, page, changes, shown, last>>
    BY <1>11 DEF Invalidate
  <2>2. /\ \A t \in Slots : t # s => request'[t] = request[t]
        /\ request[s].at = "resumed" /\ request'[s] # None
        /\ request'[s].op = request[s].op /\ request'[s].ok = request[s].ok
        /\ request'[s].here = request[s].here
        /\ Reads(s) => request'[s].at = "waiting"
    BY <1>11, InvalidateStep DEF Advanced
  <2>3. ~WaitsFor(k, s)
    BY <2>2 DEF WaitsFor
  <2>4. \A t \in Slots : t # s => /\ FollowedUp(k, t) => FollowedUp(k, t)'
                                  /\ WaitsFor(k, t) => WaitsFor(k, t)'
    BY <1>4, <2>1, <2>2
  <2>5. Active /\ Read(k) /\ Held(k)
    BY <1>2, <2>1 DEF Finished
  <2>6. CASE Reads(s)
    <3>1. Covered(k)'
      BY <1>11, <2>1, <2>6, InvalidateStep, CoveredAnew
    <3>2. FollowedUp(k, s) => WaitsFor(k, s)'
      BY <2>1, <2>2, <2>6 DEF FollowedUp, WaitsFor
    <3> QED BY <2>1, <2>3, <2>4, <2>5, <3>1, <3>2
  <2>7. CASE ~Reads(s)
    <3>1. FollowedUp(k, s) => FollowedUp(k, s)'
      <4> SUFFICES ASSUME FollowedUp(k, s) PROVE FollowedUp(k, s)'
        OBVIOUS
      <4>1. request[s].ok /\ ReadsAgain(request[s], watched)
        BY DEF FollowedUp
      <4>2. ReadsAgain(request'[s], watched)
        BY <1>11, <2>5, <2>7, <4>1, PassedKey
      <4> QED BY <2>1, <2>2, <4>2 DEF FollowedUp, ReadsAgain
    <3>2. fetch' = fetch
      BY <1>11, <2>7, InvalidateStep
    <3> QED BY <1>3, <2>1, <2>3, <2>4, <3>1, <3>2 DEF Finished
  <2> QED BY <2>6, <2>7
<1>12. ASSUME NEW s \in Slots, Resume(s) PROVE Goal
  <2>1. UNCHANGED <<watched, page, changes, shown, fetch, last>>
    BY <1>12 DEF Resume
  <2>2. /\ request[s].at = "elsewhere"
        /\ Advanced(s, "resumed", request[s].ok, request[s].step, request[s].made)
    BY <1>12, ResumeStep
  <2>3. ~WaitsFor(k, s)
    BY <2>2 DEF WaitsFor
  <2>4. FollowedUp(k, s) => FollowedUp(k, s)'
    BY <2>1, <2>2, StillFollowed DEF Advanced
  <2> QED BY <1>3, <1>4, <2>1, <2>2, <2>3, <2>4 DEF Advanced, Finished
<1>13. ASSUME NEW s \in Slots, Settle(s) PROVE Goal
  <2> DEFINE rest == [request EXCEPT ![s] = None]
  <2>1. PICK p \in DOMAIN Page : Open(p, rest)
    BY <1>13, SettleStep
  <2>2. rest \in [Slots -> RequestsNow(Len(changes))]
    BY <1>13, SettleStep
  <2>3. \A t \in Slots : t # s => rest[t] = request[t]
    BY DEF TypeOK
  <2> HIDE DEF rest
  <2>4. UNCHANGED <<watched, shown, last>> /\ request[s].at = "resumed"
    BY <1>13, SettleStep DEF Settle
  <2>5. p = page
    BY <2>1, <2>2, Opening DEF Finished
  <2>6. request' = rest /\ changes' = changes /\ fetch' = fetch
    BY <2>1, <2>2, <2>5, Opening
  <2>7. ~FollowedUp(k, s) /\ ~WaitsFor(k, s)
    BY <1>13, <2>4, NoKeyLeft DEF FollowedUp, WaitsFor
  <2> QED BY <1>3, <1>4, <2>3, <2>4, <2>6, <2>7 DEF Finished
<1>14. CASE Answer
  <2>1. /\ fetch # None /\ fetch' = None /\ request' = Woken
        /\ UNCHANGED <<watched, page, changes>>
        /\ shown' \in fetch.asked .. Len(changes)
        /\ last' = IF fetch.late THEN "late" ELSE "sound"
    BY <1>14 DEF Answer
  <2>2. Covered(k) => Covered(k)' /\ (k <= shown' \/ last' # "sound")
    <3>1. fetch \in Readings
      BY <2>1 DEF TypeOK
    <3>2. fetch.asked \in Nat /\ Len(changes) \in Nat
      BY <1>1, <3>1 DEF Readings
    <3>3. k \in Nat
      BY <1>1, <2>1
    <3>4. k <= fetch.asked => k <= shown'
      BY <2>1, <3>2, <3>3
    <3> QED BY <2>1, <3>4 DEF Covered
  <2>3. \A t \in Slots : FollowedUp(k, t) => FollowedUp(k, t)'
    <3> SUFFICES ASSUME NEW t \in Slots, FollowedUp(k, t) PROVE FollowedUp(k, t)'
      OBVIOUS
    <3>1. request[t] # None
      BY DEF FollowedUp
    <3> QED BY <2>1, <3>1, WokenAre, StillFollowed
  <2>4. Read(k)
    BY <1>2, <2>1 DEF Finished
  <2> QED BY <2>2, <2>3, <2>4
<1>15. CASE Retry
  <2>1. /\ fetch' # None /\ fetch'.asked = Len(changes)
        /\ UNCHANGED <<watched, page, changes, shown, last, request>>
    BY <1>15, RetryStep, RecordIsNotNone DEF Retry
  <2>2. Covered(k)'
    BY <1>1, <2>1 DEF Covered
  <2>3. Held(k)
    BY <1>2, <2>1 DEF Finished
  <2> QED BY <1>4, <2>1, <2>2, <2>3
<1>16. CASE GiveUp
  BY <1>16 DEF GiveUp, Covered
<1>17. CASE Focus
  <2>1. UNCHANGED <<watched, page, changes, shown, last, request>> /\ fetch' = Asked
    BY <1>17 DEF Focus
  <2>2. Covered(k)'
    BY <2>1, CoveredAnew
  <2>3. Held(k)
    BY <1>2, <2>1 DEF Finished
  <2> QED BY <1>4, <2>1, <2>2, <2>3
<1>18. CASE Forget
  BY <1>2, <1>18 DEF Forget, Finished
<1>19. CASE \E s \in Slots : Serve(s) \/ Succeed(s) \/ Fail(s) \/ FollowUp(s)
  BY <1>8, <1>9, <1>10, <1>11, <1>12, <1>13, <1>19 DEF FollowUp
<1> QED BY <1>5, <1>6, <1>7, <1>14, <1>15, <1>16, <1>17, <1>18, <1>19 DEF Next

(***************************************************************************)
(* The theorems                                                            *)
(***************************************************************************)

\* The inductive invariant.
IInv == TypeOK /\ RequestInv /\ CountInv /\ HereInv /\ ShownInv /\ AskInv

\* Nothing is asked, made or told at first.
LEMMA InitStep == Init => IInv
<1> SUFFICES ASSUME Init PROVE IInv
  OBVIOUS
<1>1. /\ watched \in DOMAIN Query /\ page \in DOMAIN Page
      /\ MovesOf[watched] \in Nat
  BY MovesAssumption DEF Init, Near
<1>2. /\ changes \in Seq(Effects) /\ Len(changes) = 0 /\ DOMAIN changes = {}
      /\ shown = NoData /\ moves = 0 /\ last = "sound"
      /\ request = [s \in Slots |-> None]
  BY DEF Init
<1>3. fetch \in Readings /\ fetch.asked = 0
  BY RetriesAssumption DEF Init, Readings
<1>4. TypeOK
  <2>1. \A s \in Slots : request[s] = None
    BY <1>2
  <2>2. request \in [Slots -> RequestsNow(0)]
    BY <1>2 DEF RequestsNow
  <2>3. shown \in NoData .. 0
    BY <1>2 DEF NoData
  <2> QED BY <1>1, <1>2, <1>3, <2>2, <2>3 DEF TypeOK, RequestsNow, Init
<1>5. CountInv
  <2>1. AskedSlots = {}
    BY <1>2 DEF AskedSlots, At
  <2>2. Cardinality(AskedSlots) = 0
    BY <2>1, FS_EmptySet
  <2> QED BY <1>2, <2>2 DEF CountInv
<1>6. RequestInv
  BY <1>2 DEF RequestInv
<1>7. HereInv /\ ShownInv /\ AskInv
  BY <1>2 DEF HereInv, ShownInv, AskInv
<1> QED BY <1>4, <1>5, <1>6, <1>7 DEF IInv

\* It is inductive.
LEMMA InvStep == IInv /\ [Next]_vars => IInv'
BY TypeStep, RequestStep, CountStep, HereStep, ShownStep, AskInvStep DEF IInv

\* It always holds.
LEMMA Inductive == Spec => []IInv
BY InitStep, InvStep, PTL DEF Spec

\* Every variable keeps its type, for any bounds on slots, retries and moves:
\* a reading or a request never counts changes that are not there, and a
\* reading is not retried beyond MAX_QUERY_RETRIES (client.ts).
THEOREM TypesCorrect == Spec => []TypeOK
<1>1. IInv => TypeOK
  BY DEF IInv
<1> QED BY Inductive, <1>1, PTL

\* At rest nobody is renewing, so what was told is covered.
LEMMA ShownIsEnough == TypeOK /\ RequestInv /\ ShownInv => OwnChangesAreShown
<1> SUFFICES ASSUME TypeOK, RequestInv, ShownInv,
                    watched \in Page[page], fetch = None, last = "sound", Quiet,
                    \A s \in Slots : ~(At(s, {"waiting", "elsewhere"}) /\ request[s].here),
                    NEW k \in DOMAIN changes, changes[k].told
             PROVE  k <= shown
  BY DEF OwnChangesAreShown
<1>1. ASSUME NEW s \in Slots, Renewing(s)
      PROVE  FALSE
  <2>1. request[s] # None /\ request[s].ok
    BY <1>1 DEF Renewing
  <2>2. request[s].at \in {"waiting", "elsewhere", "resumed"}
    BY <2>1, AsRequest DEF RequestInv, Consistent
  <2>3. request[s].at # "resumed"
    BY <2>1 DEF Quiet, At
  <2>4. request[s].here
    BY <1>1, <2>3 DEF Renewing
  <2> QED BY <2>1, <2>2, <2>3, <2>4 DEF At
<1>2. Covered(k)
  BY <1>1 DEF ShownInv
<1> QED BY <1>2 DEF Covered

\* A page whose own last reading succeeded shows every change it was told of,
\* once what followed is over (every onSuccess of the pages).
THEOREM ConfirmedIsShown == Spec => []OwnChangesAreShown
<1>1. IInv => OwnChangesAreShown
  BY ShownIsEnough DEF IInv
<1> QED BY Inductive, <1>1, PTL

\* Only Ask fills a slot.
LEMMA NothingElseAsks ==
    ASSUME TypeOK, RequestInv, [Next]_vars, NEW s \in Slots, request[s] = None,
           request'[s] # None
    PROVE  \E op \in Concerning[watched] : Ask(op, s)
<1>1. request \in [Slots -> RequestsNow(Len(changes))] /\ page \in DOMAIN Page
  BY DEF TypeOK, RequestsNow
<1>2. ~UNCHANGED vars
  BY DEF vars
<1>3. ASSUME NEW p \in Near[watched], Visit(p)
      PROVE  FALSE
  <2>1. Opened(p) \in DOMAIN Page
    BY WatchedIsAQuery, OpenedIsAPage DEF Near
  <2>2. Open(Opened(p), request)
    BY <1>3 DEF Visit
  <2> QED BY <1>1, <2>1, <2>2, Opening
<1>4. ASSUME NEW t \in Slots, Serve(t) \/ Succeed(t) \/ Fail(t) \/ Invalidate(t) \/ Resume(t)
      PROVE  FALSE
  BY <1>4, ServeStep, SucceedStep, FailStep, InvalidateStep, ResumeStep DEF Advanced
<1>5. ASSUME NEW t \in Slots, Settle(t)
      PROVE  FALSE
  <2> DEFINE rest == [request EXCEPT ![t] = None]
  <2>1. PICK p \in DOMAIN Page : Open(p, rest)
    BY <1>5, SettleStep
  <2>2. rest \in [Slots -> RequestsNow(Len(changes))]
    BY <1>5, SettleStep
  <2>3. rest[s] = None
    BY DEF TypeOK
  <2> HIDE DEF rest
  <2> QED BY <2>1, <2>2, <2>3, Opening
<1>6. ~Answer
  BY WokenAre DEF Answer
<1>7. ~GiveUp
  BY GiveUpStep
<1>8. ~Retry /\ ~Focus /\ ~Forget
  BY DEF Retry, Focus, Forget
<1>9. ASSUME NEW op \in Concerning[watched], NEW t \in Slots, Ask(op, t)
      PROVE  Ask(op, s)
  <2>1. t = s
    BY <1>9, AskStep
  <2> QED BY <1>9, <2>1
<1> QED BY <1>2, <1>3, <1>4, <1>5, <1>6, <1>7, <1>8, <1>9 DEF Next, FollowUp

\* A button that asks again was offered, so the list did not show its row done,
\* and was not pending, so nobody waited for that.
LEMMA AskedOnce ==
    ASSUME IInv, [Next]_vars, NEW op \in DOMAIN Change \ {"revokeKey", "adminRevokeKey"},
           Asks(op), Change[op].consumes = watched, last = "sound",
           NEW k \in DOMAIN changes
    PROVE  ~(changes[k].op = op /\ changes[k].here /\ changes[k].told)
<1> SUFFICES ASSUME changes[k].op = op, changes[k].here, changes[k].told
             PROVE  FALSE
  OBVIOUS
<1> USE DEF IInv
<1>1. PICK s \in Slots : request[s] = None /\ request'[s] # None /\ request'[s].op = op
  BY DEF Asks
<1>2. PICK o \in Concerning[watched] : Ask(o, s)
  BY <1>1, NothingElseAsks
<1>3. Ask(op, s)
  BY <1>1, <1>2, AskStep
<1>4. Change[op].guarded
  BY WatchedIsAQuery, QueryIsNotNone, EachChangeIsTidy DEF Tidy
<1>5. Finished(k)
  BY <1>4 DEF Finished
<1>6. k <= shown \/ \E t \in Slots : FollowedUp(k, t) \/ WaitsFor(k, t)
  BY <1>5 DEF AskInv
<1>7. CASE k <= shown
  <2>1. changes \in Seq(Effects) /\ shown \in Int
    BY DEF TypeOK, NoData
  <2>2. k \in 1 .. shown
    BY <1>7, <2>1
  <2> QED BY <1>3, <2>2 DEF Ask, Offered
<1>8. CASE \E t \in Slots : FollowedUp(k, t) \/ WaitsFor(k, t)
  <2>1. Pending(op)
    BY <1>8 DEF FollowedUp, WaitsFor, Pending
  <2> QED BY <1>3, <1>4, <2>1 DEF Ask
<1> QED BY <1>6, <1>7, <1>8

\* What was removed, linked or answered on a visit is not asked again while the
\* list can be read (DeleteRow, events.tsx, and the dialogs like it).
THEOREM AskedAtMostOnce == Spec => NothingIsAskedTwice
<1>1. IInv /\ [Next]_vars =>
        [\A op \in DOMAIN Change \ {"revokeKey", "adminRevokeKey"} :
           (Asks(op) /\ Change[op].consumes = watched /\ last = "sound")
             => \A k \in DOMAIN changes :
                   ~(changes[k].op = op /\ changes[k].here /\ changes[k].told)]_vars
  BY AskedOnce
<1> QED BY Inductive, <1>1, PTL DEF Spec, NothingIsAskedTwice

===============================================================================
