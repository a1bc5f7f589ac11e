-------------------------- MODULE MembershipProofs --------------------------
(***************************************************************************)
(* Proofs about Membership, for any number of accounts, addresses, items,  *)
(* notifications and seasons.                                              *)
(***************************************************************************)
EXTENDS Membership, TLAPS

USE DEF Optional, Items

\* The member a notification is linked to is none, or an account that has
\* the notified address.
LEMMA FoundHasAddress ==
    ASSUME NEW a, NEW u \in MemberIdByEmail(a)
    PROVE  \/ u = None /\ MembersWith(a) = {}
           \/ u \in Members /\ SameAddress(email[u], a)
BY DEF MemberIdByEmail, MembersWith

\* The row that ingestion leaves is well formed: both sources, whether the
\* row existed or not.
LEMMA IngestedRow ==
    ASSUME TypeOK, NEW n \in transit, NEW u \in Optional(Members)
    PROVE  /\ n.item \in Items
           /\ Ingested(row[n.item], n, u) \in Rows
           /\ Ingested(row[n.item], n, u).state # "none"
           /\ Ingested(row[n.item], n, u).user
                = IF row[n.item].user = None THEN u ELSE row[n.item].user
<1> DEFINE r == row[n.item]
<1>1. n \in Notifications /\ n.item \in Items
  BY DEF TypeOK, Notifications
<1>2. r \in Rows /\ season \in Seasons
  BY <1>1 DEF TypeOK
<1>3. SeasonOf(n) \in Seasons
  BY <1>1, <1>2 DEF SeasonOf, Notifications
<1>4. CASE n.item \in CercleItems
  <2>1. Ingested(r, n, u) = IngestedCercle(r, n, u)
    BY <1>4 DEF Ingested
  <2> QED
    BY <1>1, <1>2, <1>3, <2>1
       DEF IngestedCercle, Rows, Notifications, ItemStates
<1>5. CASE n.item \notin CercleItems
  <2>1. Ingested(r, n, u) = IngestedHelloAsso(r, n, u)
    BY <1>5 DEF Ingested
  <2>2. r = NoRow \/ r.state # "none"
    BY <1>1 DEF TypeOK
  <2>3. n.state # None => n.state \in ItemStates
    BY <1>1 DEF Notifications
  <2>4. IngestedHelloAsso(r, n, u).state \in ItemStates \cup {"Unknown"}
    BY <1>2, <2>2, <2>3 DEF IngestedHelloAsso, Rows
  <2>5. n.address \in Optional(Addresses)
    BY <1>1 DEF Notifications
  <2> DEFINE h == IngestedHelloAsso(r, n, u)
  <2>6. /\ h.user \in Optional(Members) /\ h.address \in Optional(Addresses)
        /\ h.state \in ItemStates \cup {"Unknown"}
        /\ h.season \in Seasons /\ h.old \in BOOLEAN
    BY <1>2, <1>3, <2>4, <2>5 DEF IngestedHelloAsso, Rows
  <2>7. h = [user |-> h.user, address |-> h.address, state |-> h.state,
             season |-> h.season, old |-> h.old]
    BY DEF IngestedHelloAsso
  <2>8. h.user = IF r.user = None THEN u ELSE r.user
    BY DEF IngestedHelloAsso
  <2> HIDE DEF h
  <2>9. h \in Rows /\ h.state # "none"
    BY <2>6, <2>7 DEF Rows, ItemStates
  <2> QED
    BY <1>1, <2>1, <2>8, <2>9 DEF h
<1> QED
  BY <1>1, <1>4, <1>5

\* NoRow is a row, and it is not linked.
LEMMA NoRowIsARow == /\ NoRow \in Rows /\ NoRow.user = None
                     /\ NoRow.state = "none"
BY MembershipAssumption DEF NoRow, Rows, Seasons

\* Linking orphans keeps the rows well formed.
LEMMA OrphansTyped ==
    ASSUME TypeOK, NEW m \in Members, NEW a \in Addresses
    PROVE  LinkOrphans(m, a) \in [Items -> Rows]
<1>1. ASSUME NEW i \in Items
      PROVE  [row[i] EXCEPT !.user = m] \in Rows
  BY <1>1 DEF TypeOK, Rows
<1> QED
  BY <1>1 DEF TypeOK, LinkOrphans

\* It links to m the unlinked rows with the address a, and changes no more.
LEMMA LinkedOrphans ==
    ASSUME TypeOK, NEW m \in Members, NEW a \in Addresses, NEW k \in Items
    PROVE  LET r == LinkOrphans(m, a)[k]
               mine == /\ Stored(k) /\ row[k].user = None
                       /\ SameAddress(row[k].address, a)
           IN  /\ r.user = IF mine THEN m ELSE row[k].user
               /\ r.address = row[k].address
               /\ r.state = row[k].state
               /\ r.season = row[k].season
               /\ ~mine => r = row[k]
<1>1. row[k] \in Rows
  BY DEF TypeOK
<1>2. /\ [row[k] EXCEPT !.user = m].user = m
      /\ [row[k] EXCEPT !.user = m].address = row[k].address
      /\ [row[k] EXCEPT !.user = m].state = row[k].state
      /\ [row[k] EXCEPT !.user = m].season = row[k].season
  BY <1>1 DEF Rows
<1>3. LinkOrphans(m, a)[k] =
        IF Stored(k) /\ row[k].user = None /\ SameAddress(row[k].address, a)
        THEN [row[k] EXCEPT !.user = m]
        ELSE row[k]
  BY DEF LinkOrphans
<1> QED
  BY <1>2, <1>3

\* A report keeps the data well formed.
LEMMA ReportTyped ==
    ASSUME TypeOK, NEW k \in Items, NEW a \in Optional(Addresses),
           NEW s \in ItemStates, NEW d \in Optional(Seasons),
           Report(k, a, s, d)
    PROVE  TypeOK'
<1> DEFINE held == [reports |-> source[k].reports + 1, address |-> a,
                    state |-> s, date |-> d,
                    dates |-> source[k].dates \cup {d}]
           sent(given) == [item |-> k, report |-> source[k].reports + 1,
                           address |-> a, state |-> given, date |-> d]
<1>1. held \in Holdings /\ held.state # "none"
  BY MembershipAssumption DEF Report, TypeOK, Holdings, ItemStates
<1>2. source' = [source EXCEPT ![k] = held]
  BY DEF Report
<1>3. source'[k].reports = source[k].reports + 1
  BY <1>2 DEF TypeOK
<1>4. PICK given \in StatesGiven(k, s) : transit' = transit \cup {sent(given)}
  BY <1>3 DEF Report
<1>5. given \in Optional(ItemStates)
  BY DEF StatesGiven
<1>6. sent(given) \in Notifications
  <2>1. source[k].reports + 1 \in 1 .. MaxReports
    BY MembershipAssumption DEF Report, TypeOK, Holdings
  <2> QED
    BY <1>5, <2>1 DEF Notifications
<1>7. UNCHANGED <<email, row, season, told, cutShort>>
  BY DEF Report
<1>8. held.state # "none" /\ sent(given) \in Notifications /\ held \in Holdings
  BY <1>1, <1>6
<1> HIDE DEF held, sent
<1>9. source' \in [Items -> Holdings] /\ transit' \in SUBSET Notifications
  BY <1>2, <1>4, <1>8 DEF TypeOK
<1>10. \A i \in Items : source'[i].state = "none" => source'[i] = Unsold
  BY <1>2, <1>8 DEF TypeOK
<1> QED
  BY <1>7, <1>9, <1>10 DEF TypeOK

\* The data are well formed, a linked row is linked to an account, and a row
\* without a state is no row: create_profile, the webhooks, the staff and the
\* purge keep it so.
THEOREM TypeCorrect == Spec => []TypeOK
<1>1. Init => TypeOK
  BY MembershipAssumption, NoRowIsARow
     DEF Init, TypeOK, Rows, NoRow, Unsold, Holdings, Seasons
<1>2. TypeOK /\ [Next]_vars => TypeOK'
  <2> SUFFICES ASSUME TypeOK, [Next]_vars
               PROVE  TypeOK'
    OBVIOUS
  <2>1. season \in Seasons
    BY DEF TypeOK
  <2>2. ASSUME NEW k \in Items, NEW a \in Optional(Addresses),
               NEW d \in {None, season}, Sell(k, a, d)
        PROVE  TypeOK'
    BY <2>1, <2>2, ReportTyped DEF Sell, ItemStates
  <2>3. ASSUME NEW k \in Items, NEW a \in Optional(Addresses),
               NEW s \in ItemStates, NEW d \in {None} \cup 0 .. season,
               ChangeOrder(k, a, s, d)
        PROVE  TypeOK'
    <3>1. d \in Optional(Seasons)
      BY <2>1, MembershipAssumption DEF Seasons
    <3> QED
      BY <2>3, <3>1, ReportTyped DEF ChangeOrder
  <2>4. ASSUME NEW k \in Items, NEW a \in Optional(Addresses),
               NEW d \in {None} \cup 0 .. season, EditAdhesion(k, a, d)
        PROVE  TypeOK'
    <3>1. /\ d \in Optional(Seasons)
          /\ source[k].state \in ItemStates
      BY <2>1, <2>4, MembershipAssumption
         DEF EditAdhesion, TypeOK, Holdings, Seasons
    <3> QED
      BY <2>4, <3>1, ReportTyped DEF EditAdhesion
  <2>5. ASSUME NEW n \in transit, GiveUp(n)
        PROVE  TypeOK'
    BY <2>5 DEF GiveUp, TypeOK, Rows
  <2>6. ASSUME NEW n \in transit, NEW answered \in BOOLEAN,
               Deliver(n, answered)
        PROVE  TypeOK'
    <3>1. PICK u \in MemberIdByEmail(n.address) :
              row' = [row EXCEPT ![n.item] = Ingested(row[n.item], n, u)]
      BY <2>6 DEF Deliver
    <3>2. u \in Optional(Members) /\ (u # None => email[u] # None)
      BY FoundHasAddress DEF SameAddress
    <3>3. /\ n.item \in Items
          /\ Ingested(row[n.item], n, u) \in Rows
          /\ Ingested(row[n.item], n, u).state # "none"
          /\ Ingested(row[n.item], n, u).user \in {row[n.item].user, u}
      BY <3>2, IngestedRow
    <3>4. told' \in [Items -> 0 .. MaxReports]
      BY <2>6, <3>3, MembershipAssumption DEF Deliver, TypeOK, Notifications
    <3> QED
      BY <2>6, <3>1, <3>2, <3>3, <3>4 DEF Deliver, TypeOK
  <2>7. ASSUME NEW m \in Members, NEW a \in Addresses,
               row' \in {row, LinkOrphans(m, a)},
               email' = [email EXCEPT ![m] = a],
               cutShort' \in {cutShort, cutShort \cup {m}},
               UNCHANGED <<source, transit, season, told>>
        PROVE  TypeOK'
    <3>1. row' \in [Items -> Rows]
      BY <2>7, OrphansTyped DEF TypeOK
    <3>2. ASSUME NEW k \in Items
          PROVE  /\ row'[k].user \in {m, row[k].user}
                 /\ row'[k].state = "none" => row'[k] = NoRow
      BY <2>7, <3>2, LinkedOrphans DEF TypeOK, Stored
    <3>3. \A k \in Items : row'[k].user # None => email'[row'[k].user] # None
      BY <2>7, <3>2, MembershipAssumption DEF TypeOK
    <3> QED
      BY <2>7, <3>1, <3>2, <3>3 DEF TypeOK
  <2>8. ASSUME NEW m \in Members, NEW a \in Addresses,
               NEW dies \in BOOLEAN, CreateProfile(m, a, dies)
        PROVE  TypeOK'
    BY <2>7, <2>8 DEF CreateProfile
  <2>9. ASSUME NEW m \in Members, NEW a \in Addresses,
               AcceptInvitation(m, a)
        PROVE  TypeOK'
    BY <2>7, <2>9 DEF AcceptInvitation
  <2>10. ASSUME NEW k \in Items, NEW m \in Members, LinkMembership(k, m)
         PROVE  TypeOK'
    <3>1. /\ [row[k] EXCEPT !.user = m] \in Rows
          /\ [row[k] EXCEPT !.user = m].user = m
          /\ [row[k] EXCEPT !.user = m].state = row[k].state
      BY DEF TypeOK, Rows
    <3> QED
      BY <2>10, <3>1 DEF LinkMembership, TypeOK, Stored
  <2>11. ASSUME NEW k \in Items, DeleteMembership(k)
         PROVE  TypeOK'
    BY <2>11, NoRowIsARow DEF DeleteMembership, TypeOK
  <2>12. CASE PurgeUnlinked
    BY <2>12, NoRowIsARow DEF PurgeUnlinked, TypeOK
  <2>13. ASSUME NEW k \in Items, Age(k)
         PROVE  TypeOK'
    <3>1. /\ [row[k] EXCEPT !.old = TRUE] \in Rows
          /\ [row[k] EXCEPT !.old = TRUE].user = row[k].user
          /\ [row[k] EXCEPT !.old = TRUE].state = row[k].state
      BY DEF TypeOK, Rows
    <3> QED
      BY <2>13, <3>1 DEF Age, TypeOK, Stored
  <2>14. CASE NewSeason
    BY <2>14, MembershipAssumption DEF NewSeason, TypeOK, Seasons
  <2>15. CASE UNCHANGED vars
    BY <2>15 DEF vars, TypeOK
  <2> QED
    BY <2>2, <2>3, <2>4, <2>5, <2>6, <2>8, <2>9, <2>10, <2>11, <2>12, <2>13,
       <2>14, <2>15 DEF Next
<1> QED
  BY <1>1, <1>2, PTL DEF Spec

\* Every unlinked row has been tried against every account: webhooks look for
\* an account, account creation looks for rows, and no step but a creation
\* cut short lets the two miss each other.
THEOREM NobodyMissed == Spec => []NoMissedLink
<1>1. Init => NoMissedLink
  BY DEF Init, NoMissedLink, Stored
<1>2. TypeOK /\ NoMissedLink /\ [Next]_vars => NoMissedLink'
  <2> SUFFICES ASSUME TypeOK, NoMissedLink, [Next]_vars,
                      NEW k \in Items, Stored(k)', row'[k].user = None,
                      NEW o \in Members,
                      SameAddress(email'[o], row'[k].address)
               PROVE  o \in cutShort'
    BY DEF NoMissedLink, MembersWith
  <2>1. ASSUME row'[k] = row[k], email' = email, cutShort' = cutShort
        PROVE  o \in cutShort'
    BY <2>1 DEF NoMissedLink, MembersWith, Stored
  <2>2. ASSUME NEW i \in Items, NEW a, NEW s, NEW d, Report(i, a, s, d)
        PROVE  o \in cutShort'
    BY <2>1, <2>2 DEF Report
  <2>3. ASSUME NEW n \in transit, GiveUp(n)
        PROVE  o \in cutShort'
    BY <2>1, <2>3 DEF GiveUp
  <2>4. ASSUME NEW n \in transit, NEW answered \in BOOLEAN,
               Deliver(n, answered)
        PROVE  o \in cutShort'
    <3>1. PICK u \in MemberIdByEmail(n.address) :
              row' = [row EXCEPT ![n.item] = Ingested(row[n.item], n, u)]
      BY <2>4 DEF Deliver
    <3>2. CASE n.item # k
      BY <2>1, <2>4, <3>1, <3>2 DEF Deliver
    <3>3. CASE n.item = k
      <4>1. row'[k] = Ingested(row[k], n, u)
        BY <3>1, <3>3 DEF TypeOK
      <4>2. u \in Optional(Members)
        BY FoundHasAddress
      <4>3. row[k].user = None /\ u = None
        BY <3>3, <4>1, <4>2, IngestedRow
      <4>4. MembersWith(n.address) = {}
        BY <4>3, FoundHasAddress, MembershipAssumption
      <4>5. email' = email /\ cutShort' = cutShort
        BY <2>4 DEF Deliver
      <4>6. row'[k].address \in {row[k].address, n.address}
        BY <4>1 DEF Ingested, IngestedCercle, IngestedHelloAsso
      <4>7. row'[k].address # n.address
        BY <4>4, <4>5 DEF MembersWith
      <4>8. row'[k].address = row[k].address /\ row[k].address # None
        BY <4>6, <4>7 DEF SameAddress
      <4>9. Stored(k)
        BY <4>8 DEF Stored, NoRow
      <4> QED
        BY <4>3, <4>5, <4>8, <4>9 DEF NoMissedLink, MembersWith
    <3> QED
      BY <3>2, <3>3
  <2>5. ASSUME NEW m \in Members, NEW a \in Addresses, email[m] = None,
               row' = LinkOrphans(m, a), email' = [email EXCEPT ![m] = a],
               cutShort' = cutShort
        PROVE  o \in cutShort'
    <3>1. row'[k] = row[k]
      BY <2>5, LinkedOrphans, MembershipAssumption
    <3>2. Stored(k) /\ ~SameAddress(row[k].address, a)
      BY <2>5, <3>1, LinkedOrphans, MembershipAssumption DEF Stored
    <3>3. o # m
      BY <2>5, <3>1, <3>2 DEF SameAddress, TypeOK
    <3> QED
      BY <2>5, <3>1, <3>2, <3>3 DEF NoMissedLink, MembersWith, TypeOK
  <2>6. ASSUME NEW m \in Members, NEW a \in Addresses,
               NEW dies \in BOOLEAN, CreateProfile(m, a, dies)
        PROVE  o \in cutShort'
    <3>1. CASE dies
      <4>1. /\ row' = row /\ cutShort' = cutShort \cup {m}
            /\ email' = [email EXCEPT ![m] = a]
        BY <2>6, <3>1 DEF CreateProfile
      <4>2. CASE o = m
        BY <4>1, <4>2
      <4>3. CASE o # m
        BY <4>1, <4>3 DEF NoMissedLink, MembersWith, Stored, TypeOK
      <4> QED
        BY <4>2, <4>3
    <3>2. CASE ~dies
      BY <2>5, <2>6, <3>2 DEF CreateProfile
    <3> QED
      BY <3>1, <3>2
  <2>7. ASSUME NEW m \in Members, NEW a \in Addresses,
               AcceptInvitation(m, a)
        PROVE  o \in cutShort'
    BY <2>5, <2>7 DEF AcceptInvitation
  <2>8. ASSUME NEW i \in Items, NEW m \in Members, LinkMembership(i, m)
        PROVE  o \in cutShort'
    <3>1. [row[i] EXCEPT !.user = m].user = m
      BY DEF TypeOK, Rows
    <3>2. row'[k] = row[k]
      BY <2>8, <3>1, MembershipAssumption DEF LinkMembership, TypeOK
    <3> QED
      BY <2>1, <2>8, <3>2 DEF LinkMembership
  <2>9. ASSUME NEW i \in Items, DeleteMembership(i)
        PROVE  o \in cutShort'
    BY <2>1, <2>9 DEF DeleteMembership, Stored, TypeOK
  <2>10. CASE PurgeUnlinked
    BY <2>1, <2>10 DEF PurgeUnlinked, Stored
  <2>11. ASSUME NEW i \in Items, Age(i)
         PROVE  o \in cutShort'
    <3>1. /\ [row[i] EXCEPT !.old = TRUE].user = row[i].user
          /\ [row[i] EXCEPT !.old = TRUE].address = row[i].address
      BY DEF TypeOK, Rows
    <3>2. Stored(k) /\ row'[k].user = row[k].user
                    /\ row'[k].address = row[k].address
      BY <2>11, <3>1 DEF Age, TypeOK, Stored
    <3> QED
      BY <2>11, <3>2 DEF Age, NoMissedLink, MembersWith
  <2>12. CASE NewSeason
    BY <2>1, <2>12 DEF NewSeason
  <2>13. CASE UNCHANGED vars
    BY <2>1, <2>13 DEF vars
  <2> QED
    BY <2>2, <2>3, <2>4, <2>6, <2>7, <2>8, <2>9, <2>10, <2>11, <2>12, <2>13
       DEF Next, Sell, ChangeOrder, EditAdhesion
<1> QED
  BY <1>1, <1>2, TypeCorrect, PTL DEF Spec

\* No notification, account or purge unlinks or moves a linked row: the step
\* that does is the staff's.
THEOREM LinksKept == Spec => LinksAreKept
<1> DEFINE Kept(k) ==
        row[k].user # None /\ row'[k].user # row[k].user =>
            \/ DeleteMembership(k)
            \/ \E m \in Members : LinkMembership(k, m)
<1>1. TypeOK /\ [Next]_vars => [\A k \in Items : Kept(k)]_vars
  <2> SUFFICES ASSUME TypeOK, Next, NEW k \in Items,
                      row[k].user # None, row'[k].user # row[k].user
               PROVE  DeleteMembership(k)
                      \/ \E m \in Members : LinkMembership(k, m)
    OBVIOUS
  <2>1. row' # row
    OBVIOUS
  <2>2. ASSUME NEW n \in transit, NEW answered \in BOOLEAN,
               Deliver(n, answered)
        PROVE  FALSE
    <3>1. PICK u \in MemberIdByEmail(n.address) :
              row' = [row EXCEPT ![n.item] = Ingested(row[n.item], n, u)]
      BY <2>2 DEF Deliver
    <3>2. u \in Optional(Members)
      BY FoundHasAddress
    <3> QED
      BY <3>1, <3>2, IngestedRow DEF TypeOK
  <2>3. ASSUME NEW m \in Members, NEW a \in Addresses,
               row' = LinkOrphans(m, a)
        PROVE  FALSE
    BY <2>3, LinkedOrphans
  <2>4. ASSUME NEW i \in Items, NEW m \in Members, LinkMembership(i, m)
        PROVE  i = k
    BY <2>4 DEF LinkMembership, TypeOK
  <2>5. ASSUME NEW i \in Items, DeleteMembership(i)
        PROVE  i = k
    BY <2>5 DEF DeleteMembership, TypeOK
  <2>6. CASE PurgeUnlinked
    BY <2>6 DEF PurgeUnlinked
  <2>7. ASSUME NEW i \in Items, Age(i)
        PROVE  FALSE
    <3>1. [row[i] EXCEPT !.old = TRUE].user = row[i].user
      BY DEF TypeOK, Rows
    <3> QED
      BY <2>7, <3>1 DEF Age, TypeOK
  <2> QED
    BY <2>1, <2>2, <2>3, <2>4, <2>5, <2>6, <2>7
       DEF Next, Sell, ChangeOrder, EditAdhesion, Report, GiveUp,
           CreateProfile, AcceptInvitation, NewSeason
<1> QED
  BY <1>1, TypeCorrect, PTL DEF Spec, LinksAreKept

\* A row comes to a member by the adherent's address, of the row or of the
\* notification at hand, or by the staff: ingestion takes an account with the
\* notified address, and a new account takes the rows of its own.
THEOREM NobodyElses == Spec => LinkedByAddress
<1> DEFINE ByAddress(k, m) ==
        row[k].user # m /\ row'[k].user = m =>
            \/ LinkMembership(k, m)
            \/ SameAddress(email'[m], row'[k].address)
            \/ \E n \in transit :
                  n.item = k /\ SameAddress(email[m], n.address)
<1>1. TypeOK /\ [Next]_vars => [\A k \in Items, m \in Members : ByAddress(k, m)]_vars
  <2> SUFFICES ASSUME TypeOK, Next, NEW k \in Items, NEW m \in Members,
                      row[k].user # m, row'[k].user = m
               PROVE  \/ LinkMembership(k, m)
                      \/ SameAddress(email'[m], row'[k].address)
                      \/ \E n \in transit :
                            n.item = k /\ SameAddress(email[m], n.address)
    OBVIOUS
  <2>1. row' # row /\ m # None
    BY MembershipAssumption
  <2>2. ASSUME NEW n \in transit, NEW answered \in BOOLEAN,
               Deliver(n, answered)
        PROVE  n.item = k /\ SameAddress(email[m], n.address)
    <3>1. PICK u \in MemberIdByEmail(n.address) :
              row' = [row EXCEPT ![n.item] = Ingested(row[n.item], n, u)]
      BY <2>2 DEF Deliver
    <3>2. u \in Optional(Members)
      BY FoundHasAddress
    <3>3. n.item = k /\ u = m
      BY <3>1, <3>2, IngestedRow DEF TypeOK
    <3> QED
      BY <2>1, <3>3, FoundHasAddress
  <2>3. ASSUME NEW o \in Members, NEW a \in Addresses, email[o] = None,
               row' = LinkOrphans(o, a), email' = [email EXCEPT ![o] = a]
        PROVE  SameAddress(email'[m], row'[k].address)
    <3>1. /\ m = o /\ SameAddress(row[k].address, a)
          /\ row'[k].address = row[k].address
      BY <2>3, LinkedOrphans
    <3>2. email'[m] = a
      BY <2>3, <3>1 DEF TypeOK
    <3> QED
      BY <3>1, <3>2 DEF SameAddress
  <2>4. ASSUME NEW i \in Items, NEW o \in Members, LinkMembership(i, o)
        PROVE  LinkMembership(k, m)
    <3>1. [row[i] EXCEPT !.user = o].user = o
      BY DEF TypeOK, Rows
    <3>2. i = k /\ o = m
      BY <2>4, <3>1 DEF LinkMembership, TypeOK
    <3> QED
      BY <2>4, <3>2
  <2>5. ASSUME NEW i \in Items, DeleteMembership(i)
        PROVE  FALSE
    BY <2>1, <2>5, NoRowIsARow DEF DeleteMembership, TypeOK
  <2>6. CASE PurgeUnlinked
    BY <2>1, <2>6, NoRowIsARow DEF PurgeUnlinked
  <2>7. ASSUME NEW i \in Items, Age(i)
        PROVE  FALSE
    <3>1. [row[i] EXCEPT !.old = TRUE].user = row[i].user
      BY DEF TypeOK, Rows
    <3> QED
      BY <2>7, <3>1 DEF Age, TypeOK
  <2> QED
    BY <2>1, <2>2, <2>3, <2>4, <2>5, <2>6, <2>7
       DEF Next, Sell, ChangeOrder, EditAdhesion, Report, GiveUp,
           CreateProfile, AcceptInvitation, NewSeason
<1> QED
  BY <1>1, TypeCorrect, PTL DEF Spec, LinkedByAddress

-----------------------------------------------------------------------------

\* Why a dated membership has a season of its source's: every notification
\* repeats a date the source gave, the newest the present one, and the report
\* ingested last is none to come.
DatesAgree ==
    /\ \A n \in transit :
          /\ n.date \in source[n.item].dates
          /\ n.report <= source[n.item].reports
          /\ n.report = source[n.item].reports => n.date = source[n.item].date
    /\ \A k \in Items : told[k] <= source[k].reports

\* The season of a dated membership is one that its source gave, however
\* late, often and in whatever order its notifications come in, and that of
\* an adhesion the corrected one once its newest notification came in last.
THEOREM SeasonsAgree == Spec => []SeasonIsTheSources
<1> DEFINE Inv == DatesAgree /\ SeasonIsTheSources
<1>1. Init => Inv
  BY MembershipAssumption
     DEF Init, DatesAgree, SeasonIsTheSources, Stored, Unsold
<1>2. TypeOK /\ Inv /\ [Next]_vars => Inv'
  <2> SUFFICES ASSUME TypeOK, DatesAgree, SeasonIsTheSources, [Next]_vars
               PROVE  DatesAgree' /\ SeasonIsTheSources'
    OBVIOUS
  <2>1. ASSUME UNCHANGED <<source, transit, told>>,
               \A k \in Items :
                   \/ row'[k] = NoRow
                   \/ Stored(k) /\ row'[k].season = row[k].season
        PROVE  DatesAgree' /\ SeasonIsTheSources'
    BY <2>1 DEF DatesAgree, SeasonIsTheSources, Stored
  <2>2. ASSUME UNCHANGED <<source, transit, told, row>>
        PROVE  DatesAgree' /\ SeasonIsTheSources'
    BY <2>2 DEF DatesAgree, SeasonIsTheSources, Stored
  <2>3. ASSUME NEW k \in Items, NEW a, NEW s, NEW d, Report(k, a, s, d)
        PROVE  DatesAgree' /\ SeasonIsTheSources'
    <3>1. /\ source'[k].date = d
          /\ source'[k].dates = source[k].dates \cup {d}
          /\ source'[k].reports = source[k].reports + 1
          /\ source[k].reports \in Nat
      BY <2>3, MembershipAssumption DEF Report, TypeOK, Holdings
    <3>2. \A i \in Items : i # k => source'[i] = source[i]
      BY <2>3 DEF Report, TypeOK
    <3>3. row' = row /\ told' = told
      BY <2>3 DEF Report
    <3>4. \A n \in transit' :
              \/ n \in transit
              \/ n.item = k /\ n.date = d /\ n.report = source'[k].reports
      <4>1. PICK given \in StatesGiven(k, s) :
                transit' = transit \cup
                    {[item |-> k, report |-> source'[k].reports,
                      address |-> a, state |-> given, date |-> d]}
        BY <2>3 DEF Report
      <4> QED
        BY <4>1
    <3>5. \A n \in transit : n.item \in Items /\ n.report \in Nat
      BY DEF TypeOK, Notifications
    <3>6. ASSUME NEW n \in transit'
          PROVE  /\ n.date \in source'[n.item].dates
                 /\ n.report <= source'[n.item].reports
                 /\ n.report = source'[n.item].reports
                        => n.date = source'[n.item].date
      <4>1. CASE n \in transit
        BY <3>1, <3>2, <3>5, <4>1 DEF DatesAgree
      <4>2. CASE /\ n.item = k /\ n.date = d
                 /\ n.report = source'[k].reports
        BY <3>1, <4>2
      <4> QED
        BY <3>4, <4>1, <4>2
    <3>7. \A i \in Items : told[i] \in Nat
      BY MembershipAssumption DEF TypeOK
    <3>8. DatesAgree'
      BY <3>1, <3>2, <3>3, <3>6, <3>7 DEF DatesAgree
    <3>9. told[k] # source'[k].reports
      BY <3>1, <3>7 DEF DatesAgree
    <3>10. SeasonIsTheSources'
      BY <3>1, <3>2, <3>3, <3>9 DEF SeasonIsTheSources, Stored
    <3> QED
      BY <3>8, <3>10
  <2>4. ASSUME NEW n \in transit, GiveUp(n)
        PROVE  DatesAgree' /\ SeasonIsTheSources'
    BY <2>4 DEF GiveUp, DatesAgree, SeasonIsTheSources, Stored
  <2>5. ASSUME NEW n \in transit, NEW answered \in BOOLEAN,
               Deliver(n, answered)
        PROVE  DatesAgree' /\ SeasonIsTheSources'
    <3>1. PICK u \in MemberIdByEmail(n.address) :
              row' = [row EXCEPT ![n.item] = Ingested(row[n.item], n, u)]
      BY <2>5 DEF Deliver
    <3>2. source' = source /\ transit' \subseteq transit
      BY <2>5 DEF Deliver
    <3>3. n.item \in Items /\ told'[n.item] = n.report
      BY <2>5 DEF Deliver, TypeOK, Notifications
    <3>4. \A i \in Items : i # n.item => row'[i] = row[i] /\ told'[i] = told[i]
      BY <2>5, <3>1 DEF Deliver, TypeOK
    <3>5. row'[n.item] = Ingested(row[n.item], n, u)
      BY <3>1, <3>3 DEF TypeOK
    <3>6. /\ row'[n.item].season \in {SeasonOf(n), row[n.item].season}
          /\ ~Stored(n.item) \/ n.item \in CercleItems
                => row'[n.item].season = SeasonOf(n)
      BY <3>5 DEF Ingested, IngestedCercle, IngestedHelloAsso, Stored
    <3>7. DatesAgree'
      BY <3>2, <3>3, <3>4 DEF DatesAgree
    <3>8. n.date # None => SeasonOf(n) = n.date
      BY DEF SeasonOf
    <3>9. SeasonIsTheSources'
      BY <3>2, <3>3, <3>4, <3>6, <3>8
         DEF SeasonIsTheSources, DatesAgree, Stored
    <3> QED
      BY <3>7, <3>9
  <2>6. ASSUME NEW m \in Members, NEW a \in Addresses,
               row' \in {row, LinkOrphans(m, a)},
               UNCHANGED <<source, transit, told>>
        PROVE  DatesAgree' /\ SeasonIsTheSources'
    <3>1. \A k \in Items : \/ row'[k] = NoRow
                           \/ Stored(k) /\ row'[k].season = row[k].season
      BY <2>6, LinkedOrphans DEF Stored
    <3> QED
      BY <2>1, <2>6, <3>1
  <2>7. ASSUME NEW k \in Items, NEW m \in Members, LinkMembership(k, m)
        PROVE  DatesAgree' /\ SeasonIsTheSources'
    <3>1. [row[k] EXCEPT !.user = m].season = row[k].season
      BY DEF TypeOK, Rows
    <3> QED
      BY <2>1, <2>7, <3>1 DEF LinkMembership, TypeOK, Stored
  <2>8. ASSUME NEW k \in Items, DeleteMembership(k)
        PROVE  DatesAgree' /\ SeasonIsTheSources'
    BY <2>1, <2>8 DEF DeleteMembership, TypeOK, Stored
  <2>9. CASE PurgeUnlinked
    BY <2>1, <2>9 DEF PurgeUnlinked, Stored
  <2>10. ASSUME NEW k \in Items, Age(k)
         PROVE  DatesAgree' /\ SeasonIsTheSources'
    <3>1. [row[k] EXCEPT !.old = TRUE].season = row[k].season
      BY DEF TypeOK, Rows
    <3> QED
      BY <2>1, <2>10, <3>1 DEF Age, TypeOK, Stored
  <2>11. CASE NewSeason
    BY <2>2, <2>11 DEF NewSeason
  <2>12. CASE UNCHANGED vars
    BY <2>2, <2>12 DEF vars
  <2> QED
    BY <2>3, <2>4, <2>5, <2>6, <2>7, <2>8, <2>9, <2>10, <2>11, <2>12
       DEF Next, Sell, ChangeOrder, EditAdhesion, CreateProfile,
           AcceptInvitation
<1> QED
  BY <1>1, <1>2, TypeCorrect, PTL DEF Spec

=============================================================================
