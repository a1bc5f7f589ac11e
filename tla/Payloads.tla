------------------------------ MODULE Payloads ------------------------------
(* What the web client and the server exchange (src/frontend/lib/src: the      *)
(* models and the operations of the API client), as far as the pages tell it   *)
(* apart: a payload is the set of facts of the database it shows, and a        *)
(* request the set of facts it may write.                                      *)
(*                                                                             *)
(*   names, pictures, emails, preferences, active: of the members              *)
(*   passwords, passkeys, devices, keys: what members sign in or act with      *)
(*   groups, belongs, grants, roles, lists: the groups, who belongs to them,   *)
(*     what they grant, the roles, the state of their mailing lists            *)
(*   memberships, orders: linked and unlinked HelloAsso orders                 *)
(*   events, answers, history; files, inbox, invitations, system               *)

(***************************************************************************)
(* Models: what an answer shows                                            *)
(***************************************************************************)

MinimalGroup == {"groups"}
Profile == {"names", "pictures", "preferences", "emails", "active", "belongs",
            "memberships", "passwords"} \union MinimalGroup
Role == {"roles"}
Group == {"groups", "lists", "grants", "belongs"} \union Role \union Profile
RoleDetail == {"roles", "grants", "belongs"} \union MinimalGroup
PublicInstrument == {"groups"}
SessionInfo == {"names", "emails"}

MembershipHistoryItem == {"memberships"}
MembershipInfo == MembershipHistoryItem
UnlinkedMembership == {"orders"}

Passkey == {"passkeys"}
ApiKey == {"keys"}
ApiKeyOwner == {"names"}
AdminApiKey == ApiKey \union ApiKeyOwner
AdminMember ==
    {"names", "emails", "active", "preferences", "passwords", "passkeys", "devices",
     "keys", "memberships", "belongs"} \union MinimalGroup

Event == {"events"}
Response == {"answers"}
ResponseChangeUser == {"names"}
ResponseChange == {"history"} \union Event \union ResponseChangeUser

MyStats == {"answers", "events"}
GlobalStats == {"answers", "events"}
RankingInfo == {"answers", "events"}
UserRankingItem == Profile \union RankingInfo
SeasonRanking == UserRankingItem
UserRankings == SeasonRanking

MailingListPreview == {"lists", "emails", "preferences", "active", "belongs"}
InboxEmail == {"inbox"}
FileAuthor == {"names"}
FileOrFolder == {"files"} \union FileAuthor
IntegrationStatus == {"system"}
SystemStatus == IntegrationStatus

(***************************************************************************)
(* Models: what a request writes                                           *)
(***************************************************************************)

MyProfileUpdate == {"names", "pictures", "preferences"}
ProfileUpdate == MyProfileUpdate \union {"belongs"}
ProfileCreate == ProfileUpdate \union {"emails", "active"}
GroupCreate == {"groups", "grants", "lists"}
GroupUpdate == {"groups", "grants", "lists"}
EventCreate == {"events"}
ResponseCreate == {"answers", "history"}
Res == Event \union MyProfileUpdate \union Response
ApiKeyCreate == {"keys"}
ApiKeyCreated == ApiKeyCreate
MembershipLinkRequest == {"memberships"}
InvitationCreate == {"invitations"}
InvitationCreated == InvitationCreate
PasskeySignal == {"passkeys"}

(***************************************************************************)
(* Operations that read                                                    *)
(***************************************************************************)

GetMyProfile == Profile
GetProfile == Profile
ListProfiles == Profile
GetMyPermissions == {"grants", "belongs"}
GetMyMembership == MembershipInfo
GetProfileMembership == MembershipInfo
ListSessions == SessionInfo
ListEvents == Event
GetEvent == Event
ListResponses == Response
ListResponseChanges == ResponseChange
GetResponseByToken == Res
GetMyStats == MyStats
GetGlobalStats == GlobalStats
GetUserRankings == UserRankings
GetEmails == InboxEmail
ListFiles == FileOrFolder
ListMyApiKeys == ApiKey
ListPasskeys == Passkey
ListGroups == Group
GetGroup == Group
ListRoles == Role
ListInstruments == PublicInstrument
PreviewMailingList == MailingListPreview
ListUnlinkedMemberships == UnlinkedMembership
ListMembers == AdminMember
ListRoleDetails == RoleDetail
ListApiKeys == AdminApiKey
GetSystemStatus == SystemStatus

(***************************************************************************)
(* Operations that write                                                   *)
(***************************************************************************)

UpdateMyProfile == MyProfileUpdate
UpdateProfile == ProfileUpdate
CreateProfile == ProfileCreate
DeleteProfile == {"active"}
CreateEvent == EventCreate
UpdateEvent == EventCreate
(* An event takes its answers with it, and their history. *)
DeleteEvent == {"events", "answers", "history"}
CreateResponse == ResponseCreate
CreateResponseByToken == ResponseCreate
CreateGroup == GroupCreate
UpdateGroup == GroupUpdate
SyncMailingList == {"lists"}
CreateMyApiKey == ApiKeyCreated
RevokeMyApiKey == {"keys"}
RevokeApiKey == {"keys"}
RegisterPasskey == {"passkeys"}
DeletePasskey == PasskeySignal
LinkMembership == {"orders"} \union MembershipLinkRequest
DeleteMembership == {"orders"}
CreateInvitation == InvitationCreated
SendTestEmail == {}

=============================================================================
