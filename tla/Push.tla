-------------------------------- MODULE Push --------------------------------
(* Push notifications: the browsers' subscriptions, the devices the server     *)
(* sends to, and the settings page that relates the two (src/frontend/app/src/ *)
(* utils/usePushNotifications.ts, pages/profiles/components/settings; public/  *)
(* sw.js; backend bbe2/api/v1/endpoints/push.py, services/push_service.py).    *)
(*                                                                             *)
(* A subscription is made by a browser under the server's VAPID key of the     *)
(* moment and names a fresh endpoint.  The push service delivers to it while   *)
(* the browser keeps it, and only for the key it was made under.  The server   *)
(* has a row per endpoint.  Every await of the page and of the service worker  *)
(* is a step, and may fail.                                                    *)
(*                                                                             *)
(* A row is identified by its endpoint, which stands for its id and its hash:  *)
(* a row deleted and registered again has a new id in the code, so a removal   *)
(* that this model lets succeed may there be answered 404.                     *)
EXTENDS Naturals, FiniteSets, Functions

CONSTANTS
    Members,
    Browsers,
    HomeOf,         \* HomeOf[b]: the member signed in to b at first
    None,           \* no subscription, nothing held, nothing pending
    MaxSerial,      \* bound on the subscriptions made
    MaxMoves        \* bound on what people, keys, browsers and faults do

ASSUME HomeAssumption == HomeOf \in [Browsers -> Members]
ASSUME BoundsAssumption == MaxSerial \in Nat /\ MaxMoves \in Nat

VARIABLES
    serverKey,      \* generation of the server's VAPID key pair
    rows,           \* rows[e]: whose device endpoint e is, for the stored ones
    prefs,          \* prefs[m]: the email and push switches of m
    sub,            \* sub[b]: the subscription browser b keeps
    permission,     \* permission[b]: Notification.permission
    account,        \* account[b]: the member b's requests act as
    renewing,       \* renewing[b]: what the service worker of b is renewing
    thisDevice,     \* thisDevice[b]: the endpoint the page takes for its own
    devices,        \* devices[b]: the list the page shows, None before it is read
    enabling,       \* enabling[b]: the activation in progress
    removing,       \* removing[b]: the removal in progress
    profile,        \* profile[b]: the switches as the page last read them
    saving,         \* saving[b][w]: the profile switch w is sending
    serial,         \* subscriptions made, up to MaxSerial
    moves,          \* moves made, up to MaxMoves
    calm            \* history: has b's activation been alone since it started?

server  == <<serverKey, rows>>
page    == <<thisDevice, devices>>
forms   == <<prefs, profile, saving>>
vars    == <<server, forms, sub, permission, account, renewing, page, enabling,
             removing, serial, moves, calm>>

VapidKeys == {0, 1}
Endpoints == [of: Browsers, key: VapidKeys, serial: 1 .. MaxSerial]
DeviceLists == {None} \union SUBSET Endpoints
Subscriptions == Endpoints \union {None}
Switches == {"emails", "push"}
Preferences == [Switches -> BOOLEAN]
Permissions == {"default", "granted", "denied"}

(* enableThisDevice between two awaits: the subscription it holds, and the    *)
(* key it read.                                                               *)
Activations ==
    {None} \union [at: {"key", "drop", "subscribe", "register", "answer"},
                   held: Subscriptions, key: VapidKeys]

(* The removal of a row: whether it is this browser's, and whether the server *)
(* has deleted it.                                                            *)
Removals == {None} \union [row: Endpoints, isThisDevice: BOOLEAN, deleted: BOOLEAN]

Renewals == {None} \union [at: {"subscribe"}, key: VapidKeys]
                   \union [at: {"register"}, held: Endpoints]

Move == moves < MaxMoves /\ moves' = moves + 1

(***************************************************************************)
(* The server                                                              *)
(***************************************************************************)

(* The push service takes a message for e. *)
Deliverable(e) == sub[e.of] = e /\ e.key = serverKey

(* What the push service answers: forbidden for another key, gone for a       *)
(* subscription the browser no longer keeps.                                  *)
Status(e) ==
    IF Deliverable(e) THEN 201 ELSE IF sub[e.of] = e THEN 403 ELSE 410

(* `ex.response and ex.response.status_code in (...)`: a requests.Response is *)
(* true when its status is below 400.                                         *)
Pruned(status) == status < 400 /\ status \in {401, 403, 404, 410}

(* send_push_to_users_with_data, for one member: nothing while the member's    *)
(* switch is off.                                                              *)
SendPush(m) ==
    /\ prefs[m]["push"]
    /\ rows' = Restrict(rows, {e \in DOMAIN rows : rows[e] # m \/ ~Pruned(Status(e))})
    /\ UNCHANGED <<serverKey, forms, sub, permission, account, renewing, page,
                   enabling, removing, serial, moves, calm>>

(* Mutant: one row per member. *)
BugOneRowPerMember(e, m) ==
    [x \in DOMAIN rows \union {m} |-> IF x = m THEN e ELSE rows[x]]

(* POST /push/subscribe: one row per endpoint, of the last who registered it. *)
Upsert(e, m) == [x \in DOMAIN rows \union {e} |-> IF x = e THEN m ELSE rows[x]]

(* GET /push/subscriptions *)
DevicesOf(m, stored) == {e \in DOMAIN stored : stored[e] = m}

(* DELETE /push/subscriptions/<id>: a row of the caller's, else 404. *)
MayDelete(e, m) == e \in DevicesOf(m, rows)

(* The key pair of the server is replaced. *)
RotateKey ==
    /\ Move
    /\ serverKey = 0
    /\ serverKey' = 1
    /\ calm' = [b \in Browsers |-> FALSE]
    /\ UNCHANGED <<rows, forms, sub, permission, account, renewing, page,
                   enabling, removing, serial>>

(***************************************************************************)
(* The browser and its service worker                                      *)
(***************************************************************************)

(* PushManager.subscribe under key k: the subscription there is, or a new one  *)
(* if there is none...                                                         *)
Subscribe(b, k) ==
    \/ /\ sub[b] = None
       /\ serial < MaxSerial
       /\ serial' = serial + 1
       /\ sub' = [sub EXCEPT ![b] = [of |-> b, key |-> k, serial |-> serial + 1]]
    \/ /\ sub[b] # None
       /\ sub[b].key = k
       /\ UNCHANGED <<sub, serial>>

(* ... and an error if it is bound to another key. *)
Rejected(b, k) ==
    /\ sub[b] # None
    /\ sub[b].key # k
    /\ UNCHANGED <<sub, serial>>

(* The browser drops its subscription and tells the service worker. *)
Expire(b) ==
    /\ Move
    /\ sub[b] # None
    /\ renewing[b] = None
    /\ renewing' = [renewing EXCEPT ![b] = [at |-> "subscribe", key |-> sub[b].key]]
    /\ sub' = [sub EXCEPT ![b] = None]
    /\ calm' = [calm EXCEPT ![b] = FALSE]
    /\ UNCHANGED <<server, forms, permission, account, page, enabling, removing, serial>>

(* pushsubscriptionchange: a subscription with the options of the old one, or  *)
(* the end of the event if the page made one under another key meanwhile...    *)
Resubscribe(b) ==
    /\ renewing[b] # None
    /\ renewing[b].at = "subscribe"
    /\ \/ /\ Subscribe(b, renewing[b].key)
          /\ renewing' = [renewing EXCEPT ![b] = [at |-> "register", held |-> sub'[b]]]
       \/ /\ Rejected(b, renewing[b].key)
          /\ renewing' = [renewing EXCEPT ![b] = None]
    /\ calm' = [calm EXCEPT ![b] = FALSE]
    /\ UNCHANGED <<server, forms, permission, account, page, enabling, removing, moves>>

(* ... registered for whoever is signed in to the browser by then. *)
Reregister(b) ==
    /\ renewing[b] # None
    /\ renewing[b].at = "register"
    /\ rows' = Upsert(renewing[b].held, account[b])
    /\ renewing' = [renewing EXCEPT ![b] = None]
    /\ UNCHANGED <<serverKey, forms, sub, permission, account, page, enabling,
                   removing, serial, moves, calm>>

(* The event is not raised again. *)
RenewalFails(b) ==
    /\ Move
    /\ renewing[b] # None
    /\ renewing' = [renewing EXCEPT ![b] = None]
    /\ UNCHANGED <<server, forms, sub, permission, account, page, enabling,
                   removing, serial, calm>>

(* Another account of the browser becomes the active one, and the page loads *)
(* again.                                                                    *)
Switch(b, m) ==
    /\ Move
    /\ account[b] # m
    /\ account'    = [account EXCEPT ![b] = m]
    /\ thisDevice' = [thisDevice EXCEPT ![b] = sub[b]]
    /\ devices'    = [devices EXCEPT ![b] = None]
    /\ enabling'   = [enabling EXCEPT ![b] = None]
    /\ removing'   = [removing EXCEPT ![b] = None]
    /\ profile'    = [profile EXCEPT ![b] = prefs[m]]
    /\ saving'     = [saving EXCEPT ![b] = [w \in Switches |-> None]]
    /\ calm'       = [calm EXCEPT ![b] = FALSE]
    /\ UNCHANGED <<server, prefs, sub, permission, renewing, serial>>

(***************************************************************************)
(* The page                                                                *)
(***************************************************************************)

Guarded(b) == permission[b] = "denied"

(* "Cet appareil": the device whose fingerprint is this browser's. *)
IsThisDevice(b, e) == e = thisDevice[b]

ThisDeviceRegistered(b) ==
    devices[b] # None /\ \E e \in devices[b] : IsThisDevice(b, e)

(* The button is offered while the list is not known, too. *)
CanEnableHere(b) == ~Guarded(b) /\ ~ThisDeviceRegistered(b)

(* The list of the page is read on mount, on focus and after a mutation. *)
ListDevices(b) ==
    /\ devices[b] # DevicesOf(account[b], rows)
    /\ devices' = [devices EXCEPT ![b] = DevicesOf(account[b], rows)]
    /\ UNCHANGED <<server, forms, sub, permission, account, renewing, thisDevice,
                   enabling, removing, serial, moves, calm>>

(* "Envoyer une notification de test": offered on a device of the list, while *)
(* the member's switch is on as far as the page knows.                        *)
TestPush(b) ==
    /\ profile[b]["push"] /\ ~Guarded(b) /\ ThisDeviceRegistered(b)
    /\ SendPush(account[b])

(* "Activer sur cet appareil", disabled while an activation is pending: the    *)
(* permission is asked for; once granted, the subscription is looked up and    *)
(* the key asked for.                                                          *)
Enable(b, answer) ==
    /\ CanEnableHere(b)
    /\ enabling[b] = None
    /\ permission[b] = "default" \/ answer = permission[b]
    /\ permission' = [permission EXCEPT ![b] = answer]
    /\ enabling' = [enabling EXCEPT ![b] =
           IF answer = "granted" THEN [at |-> "key", held |-> sub[b], key |-> 0]
                                 ELSE None]
    /\ calm' = [calm EXCEPT ![b] = renewing[b] = None /\ removing[b] = None]
    /\ UNCHANGED <<server, forms, sub, account, renewing, page, removing, serial, moves>>

(* Whether a subscription is bound to the server's key. *)
MatchesServerKey(e, k) == e.key = k

(* Mutant: the subscription the browser has is registered whatever its key. *)
BugKeepsRotatedKey(b) ==
    /\ enabling[b] # None
    /\ enabling[b].at = "key"
    /\ LET held == enabling[b].held
       IN  enabling' = [enabling EXCEPT ![b] =
             [at   |-> IF held = None THEN "subscribe" ELSE "register",
              held |-> held,
              key  |-> serverKey]]
    /\ UNCHANGED <<server, forms, sub, permission, account, renewing, page,
                   removing, serial, moves, calm>>

(* GET /push/vapid-public-key is answered: a subscription bound to another key *)
(* is to be dropped.                                                           *)
KeyRead(b) ==
    /\ enabling[b] # None
    /\ enabling[b].at = "key"
    /\ LET held == enabling[b].held
       IN  enabling' = [enabling EXCEPT ![b] =
             [at   |-> IF held = None THEN "subscribe"
                       ELSE IF MatchesServerKey(held, serverKey) THEN "register"
                       ELSE "drop",
              held |-> held,
              key  |-> serverKey]]
    /\ UNCHANGED <<server, forms, sub, permission, account, renewing, page,
                   removing, serial, moves, calm>>

(* subscription.unsubscribe() *)
Unsubscribed(b, e) == sub' = [sub EXCEPT ![b] = IF @ = e THEN None ELSE @]

DropRotated(b) ==
    /\ enabling[b] # None
    /\ enabling[b].at = "drop"
    /\ Unsubscribed(b, enabling[b].held)
    /\ enabling' = [enabling EXCEPT ![b].at = "subscribe", ![b].held = None]
    /\ UNCHANGED <<server, forms, permission, account, renewing, page, removing,
                   serial, moves, calm>>

(* The browser subscribes; the error, when the service worker has renewed a    *)
(* subscription of another key meanwhile, is caught and ends the activation.   *)
SubscribeHere(b) ==
    /\ enabling[b] # None
    /\ enabling[b].at = "subscribe"
    /\ \/ /\ Subscribe(b, enabling[b].key)
          /\ enabling' = [enabling EXCEPT ![b].at = "register", ![b].held = sub'[b]]
       \/ /\ Rejected(b, enabling[b].key)
          /\ enabling' = [enabling EXCEPT ![b] = None]
    /\ UNCHANGED <<server, forms, permission, account, renewing, page, removing,
                   moves, calm>>

(* The server registers what the page holds. *)
Register(b) ==
    /\ enabling[b] # None
    /\ enabling[b].at = "register"
    /\ rows' = Upsert(enabling[b].held, account[b])
    /\ enabling' = [enabling EXCEPT ![b].at = "answer"]
    /\ UNCHANGED <<serverKey, forms, sub, permission, account, renewing, page,
                   removing, serial, moves, calm>>

(* Mutant: the page does not learn the fingerprint of its new subscription. *)
BugForgetsFingerprint(b) ==
    /\ enabling[b] # None
    /\ enabling[b].at = "answer"
    /\ enabling' = [enabling EXCEPT ![b] = None]
    /\ UNCHANGED <<server, forms, sub, permission, account, renewing, page,
                   removing, serial, moves, calm>>

(* The page is answered and knows its fingerprint. *)
Enabled(b) ==
    /\ enabling[b] # None
    /\ enabling[b].at = "answer"
    /\ thisDevice' = [thisDevice EXCEPT ![b] = enabling[b].held]
    /\ enabling' = [enabling EXCEPT ![b] = None]
    /\ UNCHANGED <<server, forms, sub, permission, account, renewing, devices,
                   removing, serial, moves, calm>>

(* An await fails, the answer of a registration that took place included. *)
EnableFails(b) ==
    /\ Move
    /\ enabling[b] # None
    /\ enabling' = [enabling EXCEPT ![b] = None]
    /\ UNCHANGED <<server, forms, sub, permission, account, renewing, page,
                   removing, serial, calm>>

(* "Retirer", once confirmed: of this device or another of the member's. *)
Remove(b, e) ==
    /\ Move
    /\ ~Guarded(b)
    /\ devices[b] # None
    /\ e \in devices[b]
    /\ removing[b] = None
    /\ removing' = [removing EXCEPT ![b] =
           [row |-> e, isThisDevice |-> IsThisDevice(b, e), deleted |-> FALSE]]
    /\ calm' = [calm EXCEPT ![b] = FALSE]
    /\ UNCHANGED <<server, forms, sub, permission, account, renewing, page,
                   enabling, serial>>

DeleteRow(b) ==
    /\ removing[b] # None
    /\ ~removing[b].deleted
    /\ LET e == removing[b].row
       IN  /\ MayDelete(e, account[b])
           /\ rows' = Restrict(rows, DOMAIN rows \ {e})
           /\ calm' = [calm EXCEPT ![e.of] = FALSE]
    /\ removing' = [removing EXCEPT ![b].deleted = TRUE]
    /\ UNCHANGED <<serverKey, forms, sub, permission, account, renewing, page,
                   enabling, serial, moves>>

(* unsubscribeBrowser, for this device: whichever subscription it has now. *)
Removed(b) ==
    /\ removing[b] # None
    /\ removing[b].deleted
    /\ IF removing[b].isThisDevice
       THEN /\ sub' = [sub EXCEPT ![b] = None]
            /\ thisDevice' = [thisDevice EXCEPT ![b] = None]
       ELSE UNCHANGED <<sub, thisDevice>>
    /\ removing' = [removing EXCEPT ![b] = None]
    /\ UNCHANGED <<server, forms, permission, account, renewing, devices,
                   enabling, serial, moves, calm>>

(* The same removal, made in the list of another device of the member's, one    *)
(* that is not among Browsers.                                                  *)
RemovedElsewhere(e) ==
    /\ Move
    /\ e \in DOMAIN rows
    /\ rows' = Restrict(rows, DOMAIN rows \ {e})
    /\ calm' = [calm EXCEPT ![e.of] = FALSE]
    /\ UNCHANGED <<serverKey, forms, sub, permission, account, renewing, page,
                   enabling, removing, serial>>

(* A row already gone (404), or an await that fails. *)
RemoveFails(b) ==
    /\ removing[b] # None
    /\ removing' = [removing EXCEPT ![b] = None]
    /\ IF ~removing[b].deleted /\ ~MayDelete(removing[b].row, account[b])
       THEN UNCHANGED moves
       ELSE Move
    /\ UNCHANGED <<server, forms, sub, permission, account, renewing, page,
                   enabling, serial, calm>>

(***************************************************************************)
(* The two switches of the section                                         *)
(***************************************************************************)

(* savePreference: the whole profile, as the page last read it, but for w. *)
Payload(b, w) == [profile[b] EXCEPT ![w] = ~@]

(* Each switch is disabled while it saves, not while the other does. *)
Toggle(b, w) ==
    /\ Move
    /\ saving[b][w] = None
    /\ saving' = [saving EXCEPT ![b][w] = Payload(b, w)]
    /\ UNCHANGED <<server, prefs, profile, sub, permission, account, renewing,
                   page, enabling, removing, serial, calm>>

(* PUT /profiles/me, and the profile read again before the switch is enabled. *)
Saved(b, w) ==
    /\ saving[b][w] # None
    /\ prefs'   = [prefs EXCEPT ![account[b]] = saving[b][w]]
    /\ profile' = [profile EXCEPT ![b] = saving[b][w]]
    /\ saving'  = [saving EXCEPT ![b][w] = None]
    /\ UNCHANGED <<server, sub, permission, account, renewing, page, enabling,
                   removing, serial, moves, calm>>

(* The request fails, before or after the server stored the switches: the page *)
(* does not read the profile again.                                            *)
SaveFails(b, w) ==
    /\ Move
    /\ saving[b][w] # None
    /\ prefs' \in {prefs, [prefs EXCEPT ![account[b]] = saving[b][w]]}
    /\ saving' = [saving EXCEPT ![b][w] = None]
    /\ UNCHANGED <<server, profile, sub, permission, account, renewing, page,
                   enabling, removing, serial, calm>>

Init ==
    /\ serverKey  = 0
    /\ rows       = << >>
    /\ prefs      = [m \in Members |-> [w \in Switches |-> TRUE]]
    /\ sub        = [b \in Browsers |-> None]
    /\ permission = [b \in Browsers |-> "default"]
    /\ account    = HomeOf
    /\ renewing   = [b \in Browsers |-> None]
    /\ thisDevice = [b \in Browsers |-> None]
    /\ devices    = [b \in Browsers |-> None]
    /\ enabling   = [b \in Browsers |-> None]
    /\ removing   = [b \in Browsers |-> None]
    /\ profile    = [b \in Browsers |-> prefs[HomeOf[b]]]
    /\ saving     = [b \in Browsers |-> [w \in Switches |-> None]]
    /\ serial     = 0
    /\ moves      = 0
    /\ calm       = [b \in Browsers |-> FALSE]

Activate(b) ==
    \/ KeyRead(b) \/ DropRotated(b) \/ SubscribeHere(b) \/ Register(b) \/ Enabled(b)

Next ==
    \/ RotateKey
    \/ \E m \in Members : SendPush(m)
    \/ \E e \in Endpoints : RemovedElsewhere(e)
    \/ \E b \in Browsers :
           \/ Expire(b) \/ Resubscribe(b) \/ Reregister(b) \/ RenewalFails(b)
           \/ \E m \in Members : Switch(b, m)
           \/ ListDevices(b) \/ TestPush(b)
           \/ \E answer \in {"granted", "denied"} : Enable(b, answer)
           \/ Activate(b) \/ EnableFails(b)
           \/ \E e \in Endpoints : Remove(b, e)
           \/ DeleteRow(b) \/ Removed(b) \/ RemoveFails(b)
           \/ \E w \in Switches : Toggle(b, w) \/ Saved(b, w) \/ SaveFails(b, w)

(* A member who wants notifications clicks the button whenever it is offered, *)
(* a focused page reads its list again, requests are answered, and messages   *)
(* keep being sent.                                                           *)
Fairness ==
    /\ \A m \in Members : WF_vars(SendPush(m))
    /\ \A b \in Browsers :
           /\ WF_vars(ListDevices(b))
           /\ WF_vars(\E answer \in {"granted", "denied"} : Enable(b, answer))
           /\ WF_vars(Activate(b))
           /\ WF_vars(Resubscribe(b) \/ Reregister(b))
           /\ WF_vars(DeleteRow(b) \/ Removed(b))
           /\ WF_vars(RemoveFails(b))
           /\ \A w \in Switches : WF_vars(Saved(b, w))

Spec == Init /\ [][Next]_vars /\ Fairness

(***************************************************************************)
(* Properties                                                              *)
(***************************************************************************)

TypeOK ==
    /\ serverKey \in VapidKeys
    /\ DOMAIN rows \subseteq Endpoints
    /\ \A e \in DOMAIN rows : rows[e] \in Members
    /\ prefs \in [Members -> Preferences]
    /\ sub \in [Browsers -> Subscriptions]
    /\ permission \in [Browsers -> Permissions]
    /\ account \in [Browsers -> Members]
    /\ renewing \in [Browsers -> Renewals]
    /\ thisDevice \in [Browsers -> Subscriptions]
    /\ devices \in [Browsers -> DeviceLists]
    /\ enabling \in [Browsers -> Activations]
    /\ removing \in [Browsers -> Removals]
    /\ profile \in [Browsers -> Preferences]
    /\ saving \in [Browsers -> [Switches -> Preferences \union {None}]]
    /\ serial \in 0 .. MaxSerial
    /\ moves \in 0 .. MaxMoves
    /\ calm \in [Browsers -> BOOLEAN]

(* When the page says that notifications are active on this device, and        *)
(* nothing else touched the device while it was being activated, the server    *)
(* has a row for the browser's own subscription, of the signed-in member,      *)
(* that the push service accepts: whatever was left by key rotations, renewals *)
(* by the service worker, other accounts and removals before.                  *)
EnablingRestoresDelivery ==
    [][\A b \in Browsers : Enabled(b) /\ calm[b] =>
           \E e \in DevicesOf(account[b], rows) : e.of = b /\ Deliverable(e)]_vars

(* Once keys, accounts and faults settle (MaxMoves), a member who clicks       *)
(* whenever the button is offered and not pending is done at some point: the   *)
(* page stops offering it, no activation waits for ever, and none is refused   *)
(* again and again because of what the service worker renewed.                 *)
EnablingSettles == <>[](\A b \in Browsers : ~CanEnableHere(b))

(* "pruning it lets the device re-subscribe cleanly under the new key instead  *)
(* of silently never receiving pushes again" (_send_push): a willing member's  *)
(* browser ends up reachable, a row that cannot be delivered to being removed  *)
(* by the next message.                                                        *)
DeadDevicesReconnect ==
    \A b \in Browsers :
        <>[](permission[b] = "denied" \/ ~prefs[account[b]]["push"]
             \/ \E e \in DevicesOf(account[b], rows) : e.of = b /\ Deliverable(e))

=============================================================================
