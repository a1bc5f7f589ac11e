---------------------------- MODULE MCEventLoop -----------------------------
(* Requests on the same rows, of routes that keep to the discipline or not. *)
EXTENDS EventLoop, TLC

AllRoutes ==
    FileRoutes @@ ProfileRoutes @@ UnsubscribeRoute @@ LoginRoutes
        @@ LoginCodeRoute @@ ResetRoute @@ SetPasswordRoute
        @@ PreregisterRoute @@ DeletePasskeyRoute @@ RevokeKeyRoute
        @@ CalendarRoute

\* Pairs of routes of which the first, on the loop, may wait for a row that
\* the second keeps until it leaves its session.
Clashes ==
    {<<a, b>> \in (DOMAIN AllRoutes) \X (DOMAIN AllRoutes) :
        /\ AllRoutes[a].on = "loop" /\ AllRoutes[b].commit = "late"
        /\ AllRoutes[a].table = AllRoutes[b].table
        /\ AllRoutes[a].table # "none" /\ AllRoutes[a].commit # "atCommit"}

\* The clashes of the program as it is; any API key clashes with its own
\* revocation besides.
ASSUME ClashesAssumption ==
    Clashes =
      ({"update_file", "upload_file"} \X {"update_file", "upload_file"})
      \cup ({"update_my_profile", "delete_profile", "preregister_passkey"}
              \X {"unsubscribe", "login_password", "preregister_passkey"})
      \cup {<<"delete_passkey", "login_passkey">>}

\* A profile save and a password change of one member, two calendar feeds
\* with one key, a code used while a new one is asked for.
MCRoute ==
    [profile |-> ProfileRoutes["update_my_profile"],
     password |-> SetPasswordRoute["set_password"],
     feed1 |-> CalendarRoute["export_ics_me"],
     feed2 |-> CalendarRoute["export_ics_me"],
     code |-> LoginCodeRoute["login_code"],
     reset |-> ResetRoute["reset_password_request"]]

MCSubject == [profile |-> "one", password |-> "one", feed1 |-> "one",
              feed2 |-> "one", code |-> "one", reset |-> "one"]

MCKeyOf == [profile |-> None, password |-> None, feed1 |-> "one",
            feed2 |-> "one", code |-> None, reset |-> None]

MCRequests == DOMAIN MCRoute

\* Two saves of the same file.
SaveRoute == [save1 |-> FileRoutes["update_file"],
              save2 |-> FileRoutes["update_file"]]
SaveSubject == [save1 |-> "one", save2 |-> "one"]
SaveKeyOf == [save1 |-> None, save2 |-> None]
SaveRequests == DOMAIN SaveRoute

=============================================================================
