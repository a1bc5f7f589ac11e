----------------------------- MODULE PushProofs -----------------------------
(* Proofs about Push, for any members, browsers and bounds: its types, and     *)
(* that an activation nothing else touched leaves the browser reachable.       *)
EXTENDS Push, TLAPS

(* What an activation or a renewal holds, and what a browser keeps, is a       *)
(* subscription of that browser.                                               *)
Own(b) ==
    /\ sub[b] # None => sub[b].of = b
    /\ enabling[b] # None =>
         /\ enabling[b].at \in {"register", "answer"} =>
              enabling[b].held \in Endpoints /\ enabling[b].held.of = b
         /\ enabling[b].held # None => enabling[b].held.of = b
    /\ renewing[b] # None /\ renewing[b].at = "register" =>
         renewing[b].held.of = b

OwnInv == \A b \in Browsers : Own(b)

(* PushManager.subscribe leaves the browser with a subscription of its own,    *)
(* under the key asked for, and changes no other browser's.                    *)
LEMMA Subscribed ==
    ASSUME TypeOK, OwnInv, NEW b \in Browsers, NEW k \in VapidKeys,
           Subscribe(b, k)
    PROVE  /\ sub'[b] \in Endpoints /\ sub'[b].of = b /\ sub'[b].key = k
           /\ sub' \in [Browsers -> Subscriptions]
           /\ \A c \in Browsers \ {b} : sub'[c] = sub[c]
           /\ serial' \in 0 .. MaxSerial
<1>1. CASE sub[b] = None /\ serial < MaxSerial /\ serial' = serial + 1
           /\ sub' = [sub EXCEPT ![b] = [of |-> b, key |-> k, serial |-> serial + 1]]
  <2>1. serial + 1 \in 1 .. MaxSerial
    BY <1>1, BoundsAssumption DEF TypeOK
  <2>2. [of |-> b, key |-> k, serial |-> serial + 1] \in Endpoints
    BY <2>1 DEF Endpoints
  <2> QED
    BY <1>1, <2>1, <2>2 DEF TypeOK, Subscriptions
<1>2. CASE sub[b] # None /\ sub[b].key = k /\ UNCHANGED <<sub, serial>>
  BY <1>2 DEF TypeOK, OwnInv, Own, Subscriptions
<1> QED
  BY <1>1, <1>2 DEF Subscribe

(* Registering and deleting rows keep them well formed. *)
LEMMA RowsTyped ==
    ASSUME TypeOK
    PROVE  /\ \A e \in Endpoints, m \in Members :
                /\ DOMAIN Upsert(e, m) = DOMAIN rows \union {e}
                /\ Upsert(e, m)[e] = m
                /\ \A x \in DOMAIN rows \ {e} : Upsert(e, m)[x] = rows[x]
           /\ \A S \in SUBSET DOMAIN rows :
                /\ DOMAIN Restrict(rows, S) = S
                /\ \A x \in S : Restrict(rows, S)[x] = rows[x]
BY DEF Upsert, Restrict

(* The conjuncts of TypeOK about the rows. *)
RowsOK ==
    /\ DOMAIN rows \subseteq Endpoints
    /\ \A e \in DOMAIN rows : rows[e] \in Members

LEMMA UpsertTyped ==
    ASSUME TypeOK, NEW e \in Endpoints, NEW m \in Members, rows' = Upsert(e, m)
    PROVE  RowsOK'
<1>1. /\ DOMAIN rows' = DOMAIN rows \union {e} /\ rows'[e] = m
      /\ \A x \in DOMAIN rows \ {e} : rows'[x] = rows[x]
  BY RowsTyped
<1> QED
  BY <1>1 DEF TypeOK, RowsOK

LEMMA RestrictTyped ==
    ASSUME TypeOK, NEW S \in SUBSET DOMAIN rows, rows' = Restrict(rows, S)
    PROVE  RowsOK'
<1>1. DOMAIN rows' = S /\ \A x \in S : rows'[x] = rows[x]
  BY RowsTyped
<1> QED
  BY <1>1 DEF TypeOK, RowsOK

(* The switches: what the page sends is a pair of switches. *)
LEMMA PayloadTyped ==
    ASSUME NEW p \in Preferences, NEW w \in Switches
    PROVE  [p EXCEPT ![w] = ~@] \in Preferences
BY DEF Preferences

(* Types and OwnInv are inductive. *)
LEMMA TypeStep == TypeOK /\ OwnInv /\ [Next]_vars => TypeOK'
<1> SUFFICES ASSUME TypeOK, OwnInv, [Next]_vars PROVE TypeOK'
  OBVIOUS
<1> USE DEF server, page, forms
<1>m. Move => moves' \in 0 .. MaxMoves
  BY BoundsAssumption DEF Move, TypeOK
<1>1. CASE UNCHANGED vars
  BY <1>1 DEF vars, TypeOK
<1>2. CASE RotateKey
  BY <1>2, <1>m DEF RotateKey, TypeOK, VapidKeys
<1>3. ASSUME NEW m \in Members, SendPush(m) PROVE TypeOK'
  <2> DEFINE S == {e \in DOMAIN rows : rows[e] # m \/ ~Pruned(Status(e))}
  <2>1. S \in SUBSET DOMAIN rows /\ rows' = Restrict(rows, S)
    BY <1>3 DEF SendPush
  <2> HIDE DEF S
  <2> QED
    BY <1>3, <2>1, RestrictTyped DEF SendPush, TypeOK, RowsOK
<1>4. ASSUME NEW b \in Browsers, TestPush(b) PROVE TypeOK'
  BY <1>3, <1>4 DEF TestPush, TypeOK
<1>5. ASSUME NEW e \in Endpoints, RemovedElsewhere(e) PROVE TypeOK'
  <2>1. DOMAIN rows \ {e} \in SUBSET DOMAIN rows /\ e.of \in Browsers
    BY DEF Endpoints
  <2> QED
    BY <1>5, <1>m, <2>1, RestrictTyped DEF RemovedElsewhere, TypeOK, RowsOK
<1>6. ASSUME NEW b \in Browsers, Expire(b) PROVE TypeOK'
  BY <1>6, <1>m DEF Expire, TypeOK, Subscriptions, Endpoints, Renewals
<1>7. ASSUME NEW b \in Browsers, Resubscribe(b) PROVE TypeOK'
  <2>1. renewing[b].key \in VapidKeys
    BY <1>7 DEF Resubscribe, TypeOK, Renewals
  <2>2. CASE /\ Subscribe(b, renewing[b].key)
             /\ renewing' = [renewing EXCEPT ![b] =
                               [at |-> "register", held |-> sub'[b]]]
    <3>1. /\ sub'[b] \in Endpoints /\ sub' \in [Browsers -> Subscriptions]
          /\ serial' \in 0 .. MaxSerial
      BY <2>1, <2>2, Subscribed
    <3>2. [at |-> "register", held |-> sub'[b]] \in Renewals
      BY <3>1 DEF Renewals
    <3> QED
      BY <1>7, <2>2, <3>1, <3>2 DEF Resubscribe, TypeOK
  <2>3. CASE /\ Rejected(b, renewing[b].key)
             /\ renewing' = [renewing EXCEPT ![b] = None]
    BY <1>7, <2>3 DEF Resubscribe, Rejected, TypeOK, Renewals
  <2> QED
    BY <1>7, <2>2, <2>3 DEF Resubscribe
<1>8. ASSUME NEW b \in Browsers, Reregister(b) PROVE TypeOK'
  <2>1. renewing[b].held \in Endpoints /\ account[b] \in Members
    BY <1>8 DEF Reregister, TypeOK, Renewals
  <2>2. RowsOK'
    BY <1>8, <2>1, UpsertTyped DEF Reregister
  <2> QED
    BY <1>8, <2>2 DEF Reregister, TypeOK, RowsOK, Renewals
<1>9. ASSUME NEW b \in Browsers, RenewalFails(b) PROVE TypeOK'
  BY <1>9, <1>m DEF RenewalFails, TypeOK, Renewals
<1>10. ASSUME NEW b \in Browsers, NEW m \in Members, Switch(b, m) PROVE TypeOK'
  BY <1>10, <1>m DEF Switch, TypeOK, DeviceLists, Activations, Removals
<1>11. ASSUME NEW b \in Browsers, ListDevices(b) PROVE TypeOK'
  <2>1. DevicesOf(account[b], rows) \in DeviceLists
    BY DEF DevicesOf, DeviceLists, TypeOK
  <2> QED
    BY <1>11, <2>1 DEF ListDevices, TypeOK
<1>12. ASSUME NEW b \in Browsers, NEW answer \in {"granted", "denied"},
              Enable(b, answer)
       PROVE  TypeOK'
  <2>1. [at |-> "key", held |-> sub[b], key |-> 0] \in Activations
        /\ None \in Activations
    BY DEF Activations, TypeOK, VapidKeys
  <2> QED
    BY <1>12, <2>1 DEF Enable, TypeOK, Permissions
<1>13. ASSUME NEW b \in Browsers, KeyRead(b) PROVE TypeOK'
  <2>1. enabling[b].held \in Subscriptions
    BY <1>13 DEF KeyRead, TypeOK, Activations
  <2> DEFINE at == IF enabling[b].held = None THEN "subscribe"
                   ELSE IF MatchesServerKey(enabling[b].held, serverKey)
                        THEN "register" ELSE "drop"
  <2>2. /\ at \in {"subscribe", "register", "drop"}
        /\ enabling' = [enabling EXCEPT ![b] =
             [at |-> at, held |-> enabling[b].held, key |-> serverKey]]
    BY <1>13 DEF KeyRead
  <2> HIDE DEF at
  <2>3. [at |-> at, held |-> enabling[b].held, key |-> serverKey] \in Activations
    BY <2>1, <2>2 DEF Activations, TypeOK
  <2> QED
    BY <1>13, <2>2, <2>3 DEF KeyRead, TypeOK
<1>14. ASSUME NEW b \in Browsers, DropRotated(b) PROVE TypeOK'
  <2>1. enabling[b] \in Activations \ {None}
    BY <1>14 DEF DropRotated, TypeOK
  <2>2. [enabling[b] EXCEPT !.at = "subscribe", !.held = None] \in Activations
    BY <2>1 DEF Activations, Subscriptions
  <2>3. enabling' = [enabling EXCEPT ![b] =
                       [enabling[b] EXCEPT !.at = "subscribe", !.held = None]]
    BY <1>14, <2>1 DEF DropRotated, TypeOK
  <2>4. sub' \in [Browsers -> Subscriptions]
    BY <1>14 DEF DropRotated, Unsubscribed, TypeOK, Subscriptions
  <2> QED
    BY <1>14, <2>2, <2>3, <2>4 DEF DropRotated, TypeOK
<1>15. ASSUME NEW b \in Browsers, SubscribeHere(b) PROVE TypeOK'
  <2>1. enabling[b].key \in VapidKeys
    BY <1>15 DEF SubscribeHere, TypeOK, Activations
  <2>2. enabling[b] \in Activations \ {None}
    BY <1>15 DEF SubscribeHere, TypeOK
  <2>3. CASE /\ Subscribe(b, enabling[b].key)
             /\ enabling' = [enabling EXCEPT ![b].at = "register",
                                             ![b].held = sub'[b]]
    <3>1. /\ sub'[b] \in Endpoints /\ sub' \in [Browsers -> Subscriptions]
          /\ serial' \in 0 .. MaxSerial
      BY <2>1, <2>3, Subscribed
    <3>2. [enabling[b] EXCEPT !.at = "register", !.held = sub'[b]] \in Activations
      BY <2>2, <3>1 DEF Activations, Subscriptions
    <3>3. enabling' = [enabling EXCEPT ![b] =
                         [enabling[b] EXCEPT !.at = "register", !.held = sub'[b]]]
      BY <2>2, <2>3 DEF TypeOK
    <3> QED
      BY <1>15, <3>1, <3>2, <3>3 DEF SubscribeHere, TypeOK
  <2>4. CASE /\ Rejected(b, enabling[b].key)
             /\ enabling' = [enabling EXCEPT ![b] = None]
    BY <1>15, <2>4 DEF SubscribeHere, Rejected, TypeOK, Activations
  <2> QED
    BY <1>15, <2>3, <2>4 DEF SubscribeHere
<1>16. ASSUME NEW b \in Browsers, Register(b) PROVE TypeOK'
  <2>1. enabling[b].held \in Endpoints /\ account[b] \in Members
    BY <1>16 DEF Register, TypeOK, OwnInv, Own
  <2>2. RowsOK'
    BY <1>16, <2>1, UpsertTyped DEF Register
  <2>3. [enabling[b] EXCEPT !.at = "answer"] \in Activations
    BY <1>16 DEF Register, TypeOK, Activations
  <2> QED
    BY <1>16, <2>2, <2>3 DEF Register, TypeOK, RowsOK
<1>17. ASSUME NEW b \in Browsers, Enabled(b) PROVE TypeOK'
  BY <1>17 DEF Enabled, TypeOK, Activations
<1>18. ASSUME NEW b \in Browsers, EnableFails(b) PROVE TypeOK'
  BY <1>18, <1>m DEF EnableFails, TypeOK, Activations
<1>19. ASSUME NEW b \in Browsers, NEW e \in Endpoints, Remove(b, e) PROVE TypeOK'
  <2>1. [row |-> e, isThisDevice |-> IsThisDevice(b, e), deleted |-> FALSE]
          \in Removals
    BY DEF Removals, IsThisDevice
  <2> QED
    BY <1>19, <1>m, <2>1 DEF Remove, TypeOK
<1>20. ASSUME NEW b \in Browsers, DeleteRow(b) PROVE TypeOK'
  <2>1. removing[b] \in Removals \ {None}
    BY <1>20 DEF DeleteRow, TypeOK
  <2>2. removing[b].row.of \in Browsers
        /\ [removing[b] EXCEPT !.deleted = TRUE] \in Removals
    BY <2>1 DEF Removals, Endpoints
  <2>3. DOMAIN rows \ {removing[b].row} \in SUBSET DOMAIN rows
    OBVIOUS
  <2>4. RowsOK'
    BY <1>20, <2>3, RestrictTyped DEF DeleteRow
  <2> QED
    BY <1>20, <2>2, <2>4 DEF DeleteRow, TypeOK, RowsOK
<1>21. ASSUME NEW b \in Browsers, Removed(b) PROVE TypeOK'
  BY <1>21 DEF Removed, TypeOK, Subscriptions, Removals
<1>22. ASSUME NEW b \in Browsers, RemoveFails(b) PROVE TypeOK'
  BY <1>22, <1>m DEF RemoveFails, TypeOK, Removals
<1>23. ASSUME NEW b \in Browsers, NEW w \in Switches, Toggle(b, w) PROVE TypeOK'
  <2>1. Payload(b, w) \in Preferences
    BY PayloadTyped DEF Payload, TypeOK
  <2>2. [saving[b] EXCEPT ![w] = Payload(b, w)]
          \in [Switches -> Preferences \union {None}]
    BY <2>1 DEF TypeOK
  <2> QED
    BY <1>23, <1>m, <2>2 DEF Toggle, TypeOK
<1>24. ASSUME NEW b \in Browsers, NEW w \in Switches, Saved(b, w) PROVE TypeOK'
  <2>1. /\ saving[b][w] \in Preferences
        /\ [saving[b] EXCEPT ![w] = None] \in [Switches -> Preferences \union {None}]
    BY <1>24 DEF Saved, TypeOK
  <2> QED
    BY <1>24, <2>1 DEF Saved, TypeOK
<1>25. ASSUME NEW b \in Browsers, NEW w \in Switches, SaveFails(b, w) PROVE TypeOK'
  <2>1. /\ saving[b][w] \in Preferences
        /\ [saving[b] EXCEPT ![w] = None] \in [Switches -> Preferences \union {None}]
    BY <1>25 DEF SaveFails, TypeOK
  <2>2. prefs' \in [Members -> Preferences]
    BY <1>25, <2>1 DEF SaveFails, TypeOK
  <2> QED
    BY <1>25, <1>m, <2>1, <2>2 DEF SaveFails, TypeOK
<1> QED
  BY <1>1, <1>2, <1>3, <1>4, <1>5, <1>6, <1>7, <1>8, <1>9, <1>10, <1>11, <1>12,
     <1>13, <1>14, <1>15, <1>16, <1>17, <1>18, <1>19, <1>20, <1>21, <1>22,
     <1>23, <1>24, <1>25
     DEF Next, Activate

(* Every await of an activation keeps what it holds the browser's own.         *)
LEMMA OwnStep == TypeOK /\ OwnInv /\ [Next]_vars => OwnInv'
<1> SUFFICES ASSUME TypeOK, OwnInv, [Next]_vars, NEW o \in Browsers
             PROVE  Own(o)'
  BY DEF OwnInv
<1> USE DEF server, page, forms
<1>0. Own(o)
  BY DEF OwnInv
<1>f. ASSUME sub'[o] \in {sub[o], None}, enabling'[o] \in {enabling[o], None},
             renewing'[o] \in {renewing[o], None}
      PROVE  Own(o)'
  BY <1>0, <1>f DEF Own
<1>1. CASE UNCHANGED <<sub, enabling, renewing>>
  BY <1>f, <1>1
<1>2. ASSUME NEW b \in Browsers, b # o,
             \A c \in Browsers \ {b} : /\ sub'[c] = sub[c]
                                       /\ enabling'[c] = enabling[c]
                                       /\ renewing'[c] = renewing[c]
      PROVE  Own(o)'
  BY <1>f, <1>2
<1>3. ASSUME NEW b \in Browsers, Expire(b) PROVE Own(o)'
  <2>1. [at |-> "subscribe", key |-> sub[b].key].at # "register"
    OBVIOUS
  <2> QED
    BY <1>0, <1>3, <2>1 DEF Expire, TypeOK, Own
<1>4. ASSUME NEW b \in Browsers, Resubscribe(b) PROVE Own(o)'
  <2>1. renewing[b].key \in VapidKeys
    BY <1>4 DEF Resubscribe, TypeOK, Renewals
  <2>2. CASE Rejected(b, renewing[b].key) /\ renewing'[b] = None
    BY <1>0, <1>4, <2>2 DEF Resubscribe, Rejected, TypeOK, Own
  <2>3. CASE Subscribe(b, renewing[b].key)
    <3>1. /\ sub'[b] \in Endpoints /\ sub'[b].of = b
          /\ \A c \in Browsers \ {b} : sub'[c] = sub[c]
      BY <2>1, <2>3, Subscribed
    <3>2. renewing' = [renewing EXCEPT ![b] =
                         [at |-> "register", held |-> sub'[b]]]
      BY <1>4, <2>3 DEF Resubscribe, Subscribe, Rejected
    <3> QED
      BY <1>0, <1>4, <3>1, <3>2 DEF Resubscribe, TypeOK, Own
  <2> QED
    BY <1>4, <2>2, <2>3 DEF Resubscribe, TypeOK
<1>5. ASSUME NEW b \in Browsers,
             Reregister(b) \/ RenewalFails(b)
      PROVE  Own(o)'
  BY <1>f, <1>5 DEF Reregister, RenewalFails, TypeOK
<1>6. ASSUME NEW b \in Browsers, NEW m \in Members, Switch(b, m) PROVE Own(o)'
  BY <1>f, <1>6 DEF Switch, TypeOK
<1>7. ASSUME NEW b \in Browsers, NEW answer \in {"granted", "denied"},
             Enable(b, answer)
      PROVE  Own(o)'
  BY <1>0, <1>7 DEF Enable, TypeOK, Own
<1>8. ASSUME NEW b \in Browsers, KeyRead(b) PROVE Own(o)'
  <2>1. enabling[b].held \in Subscriptions /\ Own(b)
    BY <1>8 DEF KeyRead, TypeOK, Activations, OwnInv
  <2> DEFINE at == IF enabling[b].held = None THEN "subscribe"
                   ELSE IF MatchesServerKey(enabling[b].held, serverKey)
                        THEN "register" ELSE "drop"
  <2>2. /\ enabling' = [enabling EXCEPT ![b] =
             [at |-> at, held |-> enabling[b].held, key |-> serverKey]]
        /\ at # "answer" /\ (at = "register" => enabling[b].held # None)
    BY <1>8 DEF KeyRead
  <2> HIDE DEF at
  <2>3. CASE o = b
    BY <1>8, <2>1, <2>2, <2>3 DEF KeyRead, TypeOK, Own, Subscriptions
  <2> QED
    BY <1>2, <1>8, <2>2, <2>3 DEF KeyRead, TypeOK
<1>9. ASSUME NEW b \in Browsers, DropRotated(b) PROVE Own(o)'
  <2>1. enabling[b] \in Activations \ {None}
    BY <1>9 DEF DropRotated, TypeOK
  <2>2. enabling'[b].at = "subscribe" /\ enabling'[b].held = None
    BY <1>9, <2>1 DEF DropRotated, TypeOK, Activations
  <2>3. CASE o = b
    BY <1>0, <1>9, <2>2, <2>3 DEF DropRotated, Unsubscribed, TypeOK, Own
  <2> QED
    BY <1>2, <1>9, <2>3 DEF DropRotated, Unsubscribed, TypeOK
<1>10. ASSUME NEW b \in Browsers, SubscribeHere(b) PROVE Own(o)'
  <2>1. enabling[b] \in Activations \ {None}
    BY <1>10 DEF SubscribeHere, TypeOK
  <2>2. CASE Rejected(b, enabling[b].key) /\ enabling'[b] = None
    BY <1>f, <1>10, <2>2 DEF SubscribeHere, Rejected, TypeOK
  <2>3. CASE /\ Subscribe(b, enabling[b].key)
             /\ enabling' = [enabling EXCEPT ![b].at = "register",
                                             ![b].held = sub'[b]]
    <3>1. /\ sub'[b] \in Endpoints /\ sub'[b].of = b
          /\ \A c \in Browsers \ {b} : sub'[c] = sub[c]
      BY <2>1, <2>3, Subscribed DEF Activations
    <3>2. enabling'[b].held = sub'[b]
      BY <2>1, <2>3 DEF TypeOK, Activations
    <3>3. CASE o = b
      BY <1>0, <1>10, <3>1, <3>2, <3>3 DEF SubscribeHere, TypeOK, Own
    <3> QED
      BY <1>2, <1>10, <3>1, <3>3 DEF SubscribeHere, TypeOK
  <2> QED
    BY <1>10, <2>2, <2>3 DEF SubscribeHere, TypeOK
<1>11. ASSUME NEW b \in Browsers, Register(b) PROVE Own(o)'
  <2>1. enabling[b] \in Activations \ {None} /\ enabling[b].at = "register"
    BY <1>11 DEF Register, TypeOK
  <2>2. enabling'[b].at = "answer" /\ enabling'[b].held = enabling[b].held
    BY <1>11, <2>1 DEF Register, TypeOK, Activations
  <2>3. CASE o = b
    BY <1>0, <1>11, <2>1, <2>2, <2>3 DEF Register, TypeOK, Own
  <2> QED
    BY <1>2, <1>11, <2>3 DEF Register, TypeOK
<1>12. ASSUME NEW b \in Browsers, Enabled(b) \/ EnableFails(b) PROVE Own(o)'
  BY <1>f, <1>12 DEF Enabled, EnableFails, TypeOK
<1>13. ASSUME NEW b \in Browsers, Removed(b) PROVE Own(o)'
  BY <1>f, <1>13 DEF Removed, TypeOK
<1> QED
  BY <1>1, <1>3, <1>4, <1>5, <1>6, <1>7, <1>8, <1>9, <1>10, <1>11, <1>12, <1>13
     DEF Next, Activate, vars, RotateKey, SendPush, RemovedElsewhere,
         ListDevices, TestPush, Remove, DeleteRow, RemoveFails, Toggle, Saved,
         SaveFails

(* Both hold from the start on. *)
LEMMA OwnedInvariant == Spec => [](TypeOK /\ OwnInv)
<1>1. Init => TypeOK
  BY HomeAssumption, BoundsAssumption
     DEF Init, TypeOK, VapidKeys, Preferences, Subscriptions, Permissions,
         Renewals, DeviceLists, Activations, Removals
<1>2. Init => OwnInv
  BY DEF Init, OwnInv, Own
<1> QED
  BY <1>1, <1>2, TypeStep, OwnStep, PTL DEF Spec

(* The types are an invariant, for any members, browsers and bounds.           *)
THEOREM PushTyping == Spec => []TypeOK
BY OwnedInvariant, PTL

(* An activation nothing else touched: what it has established by each await.  *)
Established(b) ==
    /\ renewing[b] = None /\ removing[b] = None
    /\ enabling[b].at # "key" => enabling[b].key = serverKey
    /\ IF enabling[b].at = "subscribe"
       THEN sub[b] = None
       ELSE enabling[b].held = sub[b]
    /\ enabling[b].at \in {"register", "answer"} =>
         enabling[b].held.key = serverKey
    /\ enabling[b].at = "answer" =>
         /\ enabling[b].held \in DOMAIN rows
         /\ rows[enabling[b].held] = account[b]

CalmInv ==
    \A b \in Browsers : calm[b] /\ enabling[b] # None => Established(b)

(* A message does not remove the row of a device that takes it. *)
LEMMA DeliverableIsKept ==
    ASSUME NEW m, NEW e \in DOMAIN rows, Deliverable(e), SendPush(m)
    PROVE  e \in DOMAIN rows' /\ rows'[e] = rows[e]
<1>1. Status(e) = 201
  BY DEF Status
<1>2. ~Pruned(Status(e))
  BY <1>1 DEF Pruned
<1> QED
  BY <1>2 DEF SendPush, Restrict

(* CalmInv is inductive: a rotation, renewal, switch or removal disturbs the   *)
(* activation, and other browsers only write rows of their own.                *)
LEMMA CalmStep == TypeOK /\ OwnInv /\ CalmInv /\ [Next]_vars => CalmInv'
<1> SUFFICES ASSUME TypeOK, OwnInv, CalmInv, [Next]_vars, NEW o \in Browsers,
                    calm'[o], enabling'[o] # None
             PROVE  Established(o)'
  BY DEF CalmInv
<1> USE DEF server, page, forms
<1>0. calm[o] /\ enabling[o] # None => Established(o) /\ Own(o)
  BY DEF CalmInv, OwnInv
<1> DEFINE held == enabling[o].held
           Alike == /\ serverKey' = serverKey /\ sub'[o] = sub[o]
                    /\ enabling'[o] = enabling[o] /\ account'[o] = account[o]
                    /\ renewing'[o] = renewing[o] /\ removing'[o] = removing[o]
                    /\ calm'[o] => calm[o]
<1>f. ASSUME Alike, rows' = rows PROVE Established(o)'
  BY <1>0, <1>f DEF Established
<1>r. ASSUME Alike,
             \A e \in DOMAIN rows : e.of = o /\ Deliverable(e) =>
               e \in DOMAIN rows' /\ rows'[e] = rows[e]
      PROVE  Established(o)'
  <2>1. Established(o) /\ Own(o)
    BY <1>0, <1>r
  <2>2. CASE enabling[o].at = "answer"
    <3>1. /\ held \in DOMAIN rows /\ rows[held] = account[o] /\ held \in Endpoints
          /\ held.key = serverKey /\ held = sub[o]
      BY <2>1, <2>2, <1>r DEF Established, Own
    <3>2. held.of = o
      BY <2>1, <2>2, <1>r DEF Own
    <3>3. Deliverable(held)
      BY <3>1, <3>2 DEF Deliverable
    <3> QED
      BY <1>r, <2>1, <2>2, <3>1, <3>2, <3>3 DEF Established
  <2>3. CASE enabling[o].at # "answer"
    BY <1>r, <2>1, <2>3 DEF Established
  <2> QED
    BY <2>2, <2>3
<1>1. CASE UNCHANGED vars
  BY <1>1, <1>f DEF vars
<1>2. ~RotateKey
  BY DEF RotateKey
<1>3. ASSUME NEW m \in Members, SendPush(m) PROVE Established(o)'
  BY <1>3, <1>r, DeliverableIsKept DEF SendPush
<1>4. ASSUME NEW b \in Browsers, TestPush(b) PROVE Established(o)'
  BY <1>3, <1>4 DEF TestPush, TypeOK
<1>5. ASSUME NEW e \in Endpoints, RemovedElsewhere(e) PROVE Established(o)'
  <2>1. e.of # o /\ Alike
    BY <1>5 DEF RemovedElsewhere, TypeOK, Endpoints
  <2> QED
    BY <1>5, <1>r, <2>1 DEF RemovedElsewhere, Restrict
<1>6. ASSUME NEW b \in Browsers, Expire(b) PROVE Established(o)'
  BY <1>6, <1>f DEF Expire, TypeOK
<1>7. ASSUME NEW b \in Browsers, Resubscribe(b) PROVE Established(o)'
  <2>1. renewing[b].key \in VapidKeys
    BY <1>7 DEF Resubscribe, TypeOK, Renewals
  <2>2. b # o /\ sub'[o] = sub[o]
    BY <1>7, <2>1, Subscribed DEF Resubscribe, Rejected, TypeOK
  <2> QED
    BY <1>7, <1>f, <2>2 DEF Resubscribe, TypeOK
<1>8. ASSUME NEW b \in Browsers, Reregister(b) PROVE Established(o)'
  <2>1. b # o
    BY <1>0, <1>8 DEF Reregister, Established
  <2>2. renewing[b].held.of = b
    BY <1>8 DEF Reregister, OwnInv, Own
  <2>3. Alike
    BY <1>8, <2>1 DEF Reregister, TypeOK
  <2> QED
    BY <1>8, <1>r, <2>1, <2>2, <2>3 DEF Reregister, Upsert
<1>9. ASSUME NEW b \in Browsers, RenewalFails(b) PROVE Established(o)'
  <2>1. b # o
    BY <1>0, <1>9 DEF RenewalFails, Established
  <2> QED
    BY <1>9, <1>f, <2>1 DEF RenewalFails, TypeOK
<1>10. ASSUME NEW b \in Browsers, NEW m \in Members, Switch(b, m)
       PROVE  Established(o)'
  BY <1>10, <1>f DEF Switch, TypeOK
<1>11. ASSUME NEW b \in Browsers, ListDevices(b) PROVE Established(o)'
  BY <1>11, <1>f DEF ListDevices
<1>12. ASSUME NEW b \in Browsers, NEW answer \in {"granted", "denied"},
              Enable(b, answer)
       PROVE  Established(o)'
  <2>1. CASE b = o
    <3>1. enabling'[o] = [at |-> "key", held |-> sub[o], key |-> 0]
      BY <1>12, <2>1 DEF Enable, TypeOK
    <3>2. renewing[o] = None /\ removing[o] = None
      BY <1>12, <2>1 DEF Enable, TypeOK
    <3> QED
      BY <1>12, <3>1, <3>2 DEF Enable, Established
  <2>2. CASE b # o
    BY <1>12, <1>f, <2>2 DEF Enable, TypeOK
  <2> QED
    BY <2>1, <2>2
<1>13. ASSUME NEW b \in Browsers, KeyRead(b) PROVE Established(o)'
  <2>1. CASE b = o
    <3> DEFINE at == IF held = None THEN "subscribe"
                     ELSE IF MatchesServerKey(held, serverKey)
                          THEN "register" ELSE "drop"
    <3>1. /\ enabling'[o] = [at |-> at, held |-> held, key |-> serverKey]
          /\ enabling[o].at = "key"
          /\ UNCHANGED <<serverKey, sub, renewing, removing>>
      BY <1>13, <2>1 DEF KeyRead, TypeOK
    <3>2. held = sub[o] /\ renewing[o] = None /\ removing[o] = None
      BY <1>0, <1>13, <2>1, <3>1 DEF KeyRead, Established
    <3>3. /\ at = "subscribe" => held = None
          /\ at = "register" => held.key = serverKey
          /\ at # "answer"
      BY DEF MatchesServerKey
    <3> HIDE DEF at, held
    <3> QED
      BY <3>1, <3>2, <3>3 DEF Established
  <2>2. CASE b # o
    BY <1>13, <1>f, <2>2 DEF KeyRead, TypeOK
  <2> QED
    BY <2>1, <2>2
<1>14. ASSUME NEW b \in Browsers, DropRotated(b) PROVE Established(o)'
  <2>1. CASE b = o
    <3>1. enabling[o] \in Activations \ {None} /\ enabling[o].at = "drop"
          /\ Established(o)
      BY <1>0, <1>14, <2>1 DEF DropRotated, TypeOK
    <3>2. enabling'[o].at = "subscribe" /\ enabling'[o].key = enabling[o].key
      BY <1>14, <2>1, <3>1 DEF DropRotated, TypeOK, Activations
    <3>3. sub'[o] = None
      BY <1>14, <2>1, <3>1 DEF DropRotated, Unsubscribed, TypeOK, Established
    <3> QED
      BY <1>14, <3>1, <3>2, <3>3 DEF DropRotated, Established
  <2>2. CASE b # o
    BY <1>14, <1>f, <2>2 DEF DropRotated, Unsubscribed, TypeOK
  <2> QED
    BY <2>1, <2>2
<1>15. ASSUME NEW b \in Browsers, SubscribeHere(b) PROVE Established(o)'
  <2>1. enabling[b] \in Activations \ {None} /\ enabling[b].at = "subscribe"
    BY <1>15 DEF SubscribeHere, TypeOK
  <2>2. CASE Rejected(b, enabling[b].key) /\ enabling' = [enabling EXCEPT ![b] = None]
    BY <1>15, <1>f, <2>2 DEF SubscribeHere, Rejected, TypeOK
  <2>3. CASE /\ Subscribe(b, enabling[b].key)
             /\ enabling' = [enabling EXCEPT ![b].at = "register",
                                             ![b].held = sub'[b]]
    <3>1. /\ sub'[b] \in Endpoints /\ sub'[b].key = enabling[b].key
          /\ \A c \in Browsers \ {b} : sub'[c] = sub[c]
      BY <2>1, <2>3, Subscribed DEF Activations
    <3>2. CASE b = o
      <4>1. /\ enabling'[o].at = "register" /\ enabling'[o].held = sub'[o]
            /\ enabling'[o].key = enabling[o].key
        BY <2>1, <2>3, <3>2 DEF TypeOK, Activations
      <4>2. Established(o)
        BY <1>0, <1>15, <3>2 DEF SubscribeHere
      <4> QED
        BY <1>15, <2>1, <3>1, <3>2, <4>1, <4>2 DEF SubscribeHere, Established
    <3>3. CASE b # o
      BY <1>15, <1>f, <3>1, <3>3 DEF SubscribeHere, TypeOK
    <3> QED
      BY <3>2, <3>3
  <2> QED
    BY <1>15, <2>2, <2>3 DEF SubscribeHere
<1>16. ASSUME NEW b \in Browsers, Register(b) PROVE Established(o)'
  <2>1. enabling[b] \in Activations \ {None} /\ enabling[b].at = "register"
        /\ Own(b)
    BY <1>16 DEF Register, TypeOK, OwnInv
  <2>2. enabling[b].held \in Endpoints
    BY <2>1 DEF Own
  <2>3. CASE b = o
    <3>1. /\ enabling'[o].at = "answer" /\ enabling'[o].held = held
          /\ enabling'[o].key = enabling[o].key
      BY <1>16, <2>1, <2>3 DEF Register, TypeOK, Activations
    <3>2. Established(o)
      BY <1>0, <1>16, <2>3 DEF Register
    <3>3. held \in DOMAIN rows' /\ rows'[held] = account[o]
      BY <1>16, <2>3 DEF Register, Upsert
    <3> HIDE DEF held
    <3>4. held = sub[o] /\ held.key = serverKey
      BY <2>1, <2>3, <3>2 DEF Established, held
    <3> QED
      BY <1>16, <2>1, <2>3, <3>1, <3>2, <3>3, <3>4 DEF Register, Established
  <2>4. CASE b # o
    <3>1. Alike
      BY <1>16, <2>4 DEF Register, TypeOK
    <3>2. enabling[b].held.of = b
      BY <2>1 DEF Own
    <3> QED
      BY <1>16, <1>r, <2>4, <3>1, <3>2 DEF Register, Upsert
  <2> QED
    BY <2>3, <2>4
<1>17. ASSUME NEW b \in Browsers, Enabled(b) \/ EnableFails(b)
       PROVE  Established(o)'
  BY <1>17, <1>f DEF Enabled, EnableFails, TypeOK
<1>18. ASSUME NEW b \in Browsers, NEW e \in Endpoints, Remove(b, e)
       PROVE  Established(o)'
  BY <1>18, <1>f DEF Remove, TypeOK
<1>19. ASSUME NEW b \in Browsers, DeleteRow(b) PROVE Established(o)'
  <2> DEFINE e == removing[b].row
  <2>1. e.of \in Browsers
    BY <1>19 DEF DeleteRow, TypeOK, Removals, Endpoints
  <2>2. e.of # o /\ (calm'[o] => calm[o])
    BY <1>19, <2>1 DEF DeleteRow, TypeOK
  <2>3. CASE b = o
    BY <1>0, <1>19, <2>2, <2>3 DEF DeleteRow, Established
  <2>4. CASE b # o
    <3>1. Alike
      BY <1>19, <2>2, <2>4 DEF DeleteRow, TypeOK
    <3> QED
      BY <1>19, <1>r, <2>2, <3>1 DEF DeleteRow, Restrict
  <2> QED
    BY <2>3, <2>4
<1>20. ASSUME NEW b \in Browsers, Removed(b) PROVE Established(o)'
  <2>1. b # o
    BY <1>0, <1>20 DEF Removed, Established
  <2> QED
    BY <1>20, <1>f, <2>1 DEF Removed, TypeOK
<1>21. ASSUME NEW b \in Browsers, RemoveFails(b) PROVE Established(o)'
  <2>1. b # o
    BY <1>0, <1>21 DEF RemoveFails, Established
  <2> QED
    BY <1>21, <1>f, <2>1 DEF RemoveFails, TypeOK
<1>22. ASSUME NEW b \in Browsers, NEW w \in Switches,
              Toggle(b, w) \/ Saved(b, w) \/ SaveFails(b, w)
       PROVE  Established(o)'
  BY <1>22, <1>f DEF Toggle, Saved, SaveFails
<1> QED
  BY <1>1, <1>2, <1>3, <1>4, <1>5, <1>6, <1>7, <1>8, <1>9, <1>10, <1>11, <1>12,
     <1>13, <1>14, <1>15, <1>16, <1>17, <1>18, <1>19, <1>20, <1>21, <1>22
     DEF Next, Activate

(* When the page reports an activation that nothing else touched, the server   *)
(* has a row of the signed-in member for the browser's own subscription, under *)
(* the server's key (enableThisDevice).                                        *)
THEOREM EnabledIsReachable == Spec => EnablingRestoresDelivery
<1>1. Init => CalmInv
  BY DEF Init, CalmInv
<1>2. TypeOK /\ OwnInv /\ CalmInv /\ [Next]_vars =>
        [\A b \in Browsers : Enabled(b) /\ calm[b] =>
           \E e \in DevicesOf(account[b], rows) : e.of = b /\ Deliverable(e)]_vars
  <2> SUFFICES ASSUME TypeOK, OwnInv, CalmInv, NEW b \in Browsers,
                      Enabled(b), calm[b]
               PROVE  \E e \in DevicesOf(account[b], rows) :
                         e.of = b /\ Deliverable(e)
    OBVIOUS
  <2>1. Established(b) /\ Own(b) /\ enabling[b] # None
        /\ enabling[b].at = "answer"
    BY DEF Enabled, CalmInv, OwnInv
  <2> DEFINE e == enabling[b].held
  <2>2. /\ e \in DOMAIN rows /\ rows[e] = account[b] /\ e \in Endpoints
        /\ e = sub[b] /\ e.key = serverKey
    BY <2>1 DEF Established, Own
  <2>3. e.of = b
    BY <2>1 DEF Own
  <2>4. e \in DevicesOf(account[b], rows) /\ Deliverable(e)
    BY <2>2, <2>3 DEF DevicesOf, Deliverable
  <2> QED
    BY <2>3, <2>4
<1> QED
  BY <1>1, <1>2, CalmStep, OwnedInvariant, PTL DEF Spec, EnablingRestoresDelivery

=============================================================================
