----------------------------- MODULE Membership -----------------------------
(***************************************************************************)
(* Memberships: rows kept from what two sources notify.                    *)
(*                                                                         *)
(* HelloAsso and the Cercle Montfortais notify memberships to webhooks     *)
(* that upsert one row per (source, source_id).  A row is linked to the    *)
(* member who has the adherent's address: when the row is ingested if the  *)
(* member exists, when the member is created otherwise.  The staff links   *)
(* and deletes rows by hand, and a daily purge removes unlinked old ones.  *)
(*                                                                         *)
(* Every handler here is `async` and holds the event loop from its first   *)
(* query to its commit, so one handler is one step.  create_profile alone  *)
(* commits twice, and the process may die in between.  Notifications take  *)
(* any time and any order: a source that gets no 200 sends again, for      *)
(* hours, and the answer itself may be lost after the rows were committed. *)
(***************************************************************************)
EXTENDS Naturals, FiniteSets

CONSTANTS
    Members,           \* ids of the accounts
    Addresses,         \* email addresses as typed
    Lower,             \* func.lower on an address
    HelloAssoItems,    \* membership items of HelloAsso orders
    CercleItems,       \* adhesions of the Cercle Montfortais
    MaxSold,           \* memberships bought (bound)
    MaxReports,        \* times a source reports an item (bound)
    MaxSeason,         \* seasons (bound)
    MayGiveUp,         \* a source stops sending after 27 hours
    None

Items == HelloAssoItems \cup CercleItems

ASSUME MembershipAssumption ==
    /\ Lower \in [Addresses -> Addresses]
    /\ MaxSold \in Nat /\ MaxReports \in Nat /\ MaxSeason \in Nat
    /\ MayGiveUp \in BOOLEAN
    /\ HelloAssoItems \cap CercleItems = {}
    /\ None \notin Members \cup Addresses \cup Nat

\* HelloAsso's item states, as far as the code tells them apart.
VALID_STATES == {"Processed", "Registered"}
ItemStates == {"Processed", "Refunded"}

VARIABLES
    email,      \* UserDB.email of the accounts, None before they exist
    row,        \* HelloAssoMembershipDB by (source, source_id)
    source,     \* what each source holds of an item
    transit,    \* notifications a source will send, or send again
    season,     \* the current season
    told,       \* history: the report of each item that was ingested last
    cutShort    \* history: accounts create_profile committed but did not link

vars == <<email, row, source, transit, season, told, cutShort>>

-----------------------------------------------------------------------------

Seasons == 0 .. MaxSeason
Optional(S) == S \cup {None}

\* `old` stands for a received_at before the purge's cutoff.
Rows ==
    [user : Optional(Members), address : Optional(Addresses),
     state : ItemStates \cup {"none", "Unknown"}, season : Seasons,
     old : BOOLEAN]

NoRow == [user |-> None, address |-> None, state |-> "none", season |-> 0,
          old |-> FALSE]

Stored(k) == row[k] # NoRow

\* A state or a date the notification leaves out is None.  The number of the
\* report tells two notifications of one content apart.
Notifications ==
    [item : Items, report : 1 .. MaxReports, address : Optional(Addresses),
     state : Optional(ItemStates), date : Optional(Seasons)]

\* `dates` are all those the source gave, the present one included.
Holdings ==
    [reports : 0 .. MaxReports, address : Optional(Addresses),
     state : ItemStates \cup {"none"}, date : Optional(Seasons),
     dates : SUBSET Optional(Seasons)]

Unsold == [reports |-> 0, address |-> None, state |-> "none", date |-> None,
           dates |-> {}]

TypeOK ==
    /\ email \in [Members -> Optional(Addresses)]
    /\ row \in [Items -> Rows]
    /\ source \in [Items -> Holdings]
    /\ transit \in SUBSET Notifications
    /\ season \in Seasons
    /\ told \in [Items -> 0 .. MaxReports]
    /\ cutShort \in SUBSET Members
    /\ \A k \in Items :
          /\ row[k].user # None => email[row[k].user] # None
          /\ row[k].state = "none" => row[k] = NoRow
          /\ source[k].state = "none" => source[k] = Unsold

Init ==
    /\ email = [m \in Members |-> None]
    /\ row = [k \in Items |-> NoRow]
    /\ source = [k \in Items |-> Unsold]
    /\ transit = {}
    /\ season = 0
    /\ told = [k \in Items |-> 0]
    /\ cutShort = {}

-----------------------------------------------------------------------------
(* Addresses and members.                                                  *)

\* Whether two addresses are equal but for their case; None is no address.
SameAddress(a, b) == a # None /\ b # None /\ Lower[a] = Lower[b]

MembersWith(a) == {m \in Members : SameAddress(email[m], a)}

BugCaseSensitive(a) ==
    LET found == {m \in Members : a # None /\ email[m] = a}
    IN  IF found = {} THEN {None} ELSE found

\* The accounts _member_id_by_email may return: the query has no order.
MemberIdByEmail(a) ==
    IF MembersWith(a) = {} THEN {None} ELSE MembersWith(a)

BugEveryOrphan(m, a) ==
    [k \in Items |->
        IF Stored(k) /\ row[k].user = None
        THEN [row[k] EXCEPT !.user = m]
        ELSE row[k]]

\* link_orphan_memberships_for_user, for an account m with address a.
LinkOrphans(m, a) ==
    [k \in Items |->
        IF Stored(k) /\ row[k].user = None /\ SameAddress(row[k].address, a)
        THEN [row[k] EXCEPT !.user = m]
        ELSE row[k]]

-----------------------------------------------------------------------------
(* The sources, outside src/.                                              *)

\* What a notification says of the state s: the Cercle nothing, HelloAsso may
\* leave out a state that did not change.
StatesGiven(k, s) ==
    IF k \in CercleItems THEN {None}
    ELSE IF s = source[k].state THEN {s, None}
    ELSE {s}

\* A source notifies what it now holds of k: the adherent's address a, the
\* state s and the date d.
Report(k, a, s, d) ==
    /\ source[k].reports < MaxReports
    /\ source' = [source EXCEPT ![k] =
                     [reports |-> @.reports + 1, address |-> a, state |-> s,
                      date |-> d, dates |-> @.dates \cup {d}]]
    /\ \E given \in StatesGiven(k, s) :
          transit' = transit \cup
              {[item |-> k, report |-> source'[k].reports, address |-> a,
                state |-> given, date |-> d]}
    /\ UNCHANGED <<email, row, season, told, cutShort>>

\* Somebody buys a membership.
Sell(k, a, d) ==
    /\ source[k] = Unsold
    /\ Cardinality({i \in Items : source[i] # Unsold}) < MaxSold
    /\ Report(k, a, "Processed", d)

\* HelloAsso: an item changes state, its order gets a missing address or
\* another date.
ChangeOrder(k, a, s, d) ==
    /\ k \in HelloAssoItems /\ source[k] # Unsold
    /\ source[k].address \in {None, a}
    /\ Report(k, a, s, d)

\* The Cercle: a member is edited, the date of the adhesion corrected.
EditAdhesion(k, a, d) ==
    /\ k \in CercleItems /\ source[k] # Unsold
    /\ Report(k, a, source[k].state, d)

\* HelloAsso gives up after 27 hours.
GiveUp(n) ==
    /\ MayGiveUp
    /\ transit' = transit \ {n}
    /\ UNCHANGED <<email, row, source, season, told, cutShort>>

-----------------------------------------------------------------------------
(* The webhooks.                                                           *)

\* The season of a notification: of its date, else of its reception.
SeasonOf(n) == IF n.date = None THEN season ELSE n.date

\* ingest_notification: the row r of an item, NoRow if there is none, after
\* n; u is the member found.
IngestedHelloAsso(r, n, u) ==
    [user |-> IF r.user = None THEN u ELSE r.user,
     address |-> IF r.address = None THEN n.address ELSE r.address,
     state |-> IF n.state # None THEN n.state
               ELSE IF r = NoRow THEN "Unknown" ELSE r.state,
     season |-> IF r = NoRow THEN SeasonOf(n) ELSE r.season,
     old |-> r.old]

\* Mutant: the date first notified stays.
BugFirstDate(r, n, u) ==
    [user |-> IF r.user = None THEN u ELSE r.user, address |-> n.address,
     season |-> IF r = NoRow THEN SeasonOf(n) ELSE r.season,
     state |-> "Processed", old |-> r.old]

\* ingest_cercle_notification.
IngestedCercle(r, n, u) ==
    [user |-> IF r.user = None THEN u ELSE r.user, address |-> n.address,
     season |-> SeasonOf(n), state |-> "Processed", old |-> r.old]

BugRelink(r, n, u) ==
    IF n.item \in CercleItems
    THEN [IngestedCercle(r, n, u) EXCEPT !.user = u]
    ELSE IngestedHelloAsso(r, n, u)

Ingested(r, n, u) ==
    IF n.item \in CercleItems
    THEN IngestedCercle(r, n, u)
    ELSE IngestedHelloAsso(r, n, u)

\* A webhook call for n.  A source that is not answered 200, because the
\* call failed or the answer was lost, keeps n and sends it again.
Deliver(n, answered) ==
    /\ \E u \in MemberIdByEmail(n.address) :
          row' = [row EXCEPT ![n.item] = Ingested(@, n, u)]
    /\ transit' = IF answered THEN transit \ {n} ELSE transit
    /\ told' = [told EXCEPT ![n.item] = n.report]
    /\ UNCHANGED <<email, source, season, cutShort>>

-----------------------------------------------------------------------------
(* Members, the staff and time.                                            *)

\* UserDB.email is unique, in the case it was typed in.
Free(a) == \A m \in Members : email[m] # a

\* create_profile, which commits the account and then the links; with `dies`
\* the process ends between the two.
CreateProfile(m, a, dies) ==
    /\ email[m] = None /\ Free(a)
    /\ email' = [email EXCEPT ![m] = a]
    /\ row' = IF dies THEN row ELSE LinkOrphans(m, a)
    /\ cutShort' = IF dies THEN cutShort \cup {m} ELSE cutShort
    /\ UNCHANGED <<source, transit, season, told>>

\* accept_invitation: the address comes in lower case, one commit.
AcceptInvitation(m, a) ==
    /\ email[m] = None /\ Free(a) /\ Lower[a] = a
    /\ email' = [email EXCEPT ![m] = a]
    /\ row' = LinkOrphans(m, a)
    /\ UNCHANGED <<source, transit, season, told, cutShort>>

BugNoMember(k, m) ==
    /\ Stored(k)
    /\ row' = [row EXCEPT ![k].user = m]
    /\ UNCHANGED <<email, source, transit, season, told, cutShort>>

\* link_membership takes a linked row as well as an unlinked one.
LinkMembership(k, m) ==
    /\ Stored(k) /\ email[m] # None
    /\ row' = [row EXCEPT ![k].user = m]
    /\ UNCHANGED <<email, source, transit, season, told, cutShort>>

DeleteMembership(k) ==
    /\ Stored(k)
    /\ row' = [row EXCEPT ![k] = NoRow]
    /\ UNCHANGED <<email, source, transit, season, told, cutShort>>

\* purge_unlinked_memberships, in the daily clean-up.
PurgeUnlinked ==
    /\ row' = [k \in Items |->
                  IF row[k].user = None /\ row[k].old THEN NoRow ELSE row[k]]
    /\ UNCHANGED <<email, source, transit, season, told, cutShort>>

\* unlinked_membership_ttl_days pass since k was received.
Age(k) ==
    /\ Stored(k)
    /\ row' = [row EXCEPT ![k].old = TRUE]
    /\ UNCHANGED <<email, source, transit, season, told, cutShort>>

\* The first of September.
NewSeason ==
    /\ season < MaxSeason
    /\ season' = season + 1
    /\ UNCHANGED <<email, row, source, transit, told, cutShort>>

Next ==
    \/ \E k \in Items, a \in Optional(Addresses), d \in {None, season} :
          Sell(k, a, d)
    \/ \E k \in Items, a \in Optional(Addresses), s \in ItemStates,
         d \in {None} \cup 0 .. season : ChangeOrder(k, a, s, d)
    \/ \E k \in Items, a \in Optional(Addresses), d \in {None} \cup 0 .. season :
          EditAdhesion(k, a, d)
    \/ \E n \in transit : GiveUp(n)
    \/ \E n \in transit, answered \in BOOLEAN : Deliver(n, answered)
    \/ \E m \in Members, a \in Addresses, dies \in BOOLEAN :
          CreateProfile(m, a, dies)
    \/ \E m \in Members, a \in Addresses : AcceptInvitation(m, a)
    \/ \E k \in Items, m \in Members : LinkMembership(k, m)
    \/ \E k \in Items : DeleteMembership(k)
    \/ PurgeUnlinked
    \/ \E k \in Items : Age(k)
    \/ NewSeason

Spec == Init /\ [][Next]_vars

-----------------------------------------------------------------------------
(* What holds.                                                             *)

\* A row stays unlinked only if no account has the adherent's address,
\* whichever came first, the account or the notification, and however often
\* the Cercle corrected the address.  The accounts create_profile did not
\* live to link are the exception, until their next notification.
NoMissedLink ==
    \A k \in Items :
        Stored(k) /\ row[k].user = None
            => MembersWith(row[k].address) \subseteq cutShort

\* A link once made stays, through notifications late, repeated or
\* corrected, new accounts of the same address and the purge: only the staff
\* moves it or deletes its row.
LinksAreKept ==
    [][\A k \in Items :
          row[k].user # None /\ row'[k].user # row[k].user =>
              \/ DeleteMembership(k)
              \/ \E m \in Members : LinkMembership(k, m)]_vars

\* The code links a row by the adherent's address alone, that of the row or
\* of the notification at hand: nobody gets another's membership.
LinkedByAddress ==
    [][\A k \in Items, m \in Members :
          row[k].user # m /\ row'[k].user = m =>
              \/ LinkMembership(k, m)
              \/ SameAddress(email'[m], row'[k].address)
              \/ \E n \in transit :
                    n.item = k /\ SameAddress(email[m], n.address)]_vars

\* A membership whose reports were all dated counts for the season of one of
\* those dates, never for one in which it was merely ingested, late, again or
\* anew.  An adhesion the Cercle corrects moves to the season of the corrected
\* date: it has it whenever the newest notification was the last ingested.
SeasonIsTheSources ==
    \A k \in Items : Stored(k) =>
        /\ None \notin source[k].dates => row[k].season \in source[k].dates
        /\ /\ k \in CercleItems /\ source[k].date # None
           /\ told[k] = source[k].reports
           => row[k].season = source[k].date

=============================================================================
