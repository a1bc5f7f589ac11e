-------------------------------- MODULE Rsvp --------------------------------
(***************************************************************************)
(* Answers to events, and the log of their changes.                        *)
(*                                                                         *)
(* A member answers an event from the application or from an emailed link; *)
(* both handlers call apply_response, on the event loop, up to its commit. *)
(* The log keeps the changes of an answer, and the page "Desinscriptions"  *)
(* shows the staff those from present to absent.  A change within five     *)
(* minutes of the last one logged amends that entry, or deletes it if the  *)
(* answer is back to what it was.                                          *)
(***************************************************************************)
EXTENDS Naturals, Sequences

CONSTANTS
    Members,
    Events,
    Cooldown,    \* RESPONSE_CHANGE_COOLDOWN, in ticks
    MaxTime,     \* the last tick (bound)
    None

Values == {"present", "absent"}

ASSUME RsvpAssumption ==
    /\ Cooldown \in Nat \ {0} /\ MaxTime \in Nat /\ Cooldown <= MaxTime
    /\ None \notin Values

VARIABLES
    event,       \* EventDB: "none", "live" or "deleted"; ids are not reused
    response,    \* ResponseDB.value by member and event
    log,         \* ResponseChangeDB by member and event, by changed_at
    now,         \* the clock of the server
    stood,       \* history: the last answer that stood for Cooldown
    since        \* history: when the current answer was given

vars == <<event, response, log, now, stood, since>>

-----------------------------------------------------------------------------

Pairs == Members \X Events
Answers == Values \cup {None}
Times == 0 .. MaxTime

Changes == [from : Answers, to : Values, at : Times]

TypeOK ==
    /\ event \in [Events -> {"none", "live", "deleted"}]
    /\ response \in [Pairs -> Answers]
    /\ log \in [Pairs -> Seq(Changes)]
    /\ now \in Times /\ now >= Cooldown
    /\ stood \in [Pairs -> Answers]
    /\ since \in [Pairs -> Times]
    /\ \A p \in Pairs :
          event[p[2]] # "live" => response[p] = None /\ log[p] = <<>>

\* Events and answers imported from the previous site have no log.
Init ==
    /\ event \in [Events -> {"none", "live"}]
    /\ response \in [Pairs -> Answers]
    /\ \A p \in Pairs : event[p[2]] = "none" => response[p] = None
    /\ log = [p \in Pairs |-> <<>>]
    /\ now = Cooldown
    /\ stood = response
    /\ since = [p \in Pairs |-> 0]

-----------------------------------------------------------------------------

LastChange(l) == l[Len(l)]

\* Whether the last entry of the log l may still be amended.
Recent(l) == l # <<>> /\ now - LastChange(l).at < Cooldown

BugKeepRoundTrip(l, previous, v) ==
    IF Recent(l)
    THEN [l EXCEPT ![Len(l)] = [from |-> @.from, to |-> v, at |-> now]]
    ELSE Append(l, [from |-> previous, to |-> v, at |-> now])

BugAlwaysAppend(l, previous, v) ==
    Append(l, [from |-> previous, to |-> v, at |-> now])

BugAmendAlways(l, previous, v) ==
    CASE l # <<>> /\ LastChange(l).from = v -> SubSeq(l, 1, Len(l) - 1)
      [] l # <<>> /\ LastChange(l).from # v ->
             [l EXCEPT ![Len(l)] = [from |-> @.from, to |-> v, at |-> now]]
      [] OTHER -> Append(l, [from |-> previous, to |-> v, at |-> now])

\* _log_response_change: the log l once the answer went from previous to v.
Logged(l, previous, v) ==
    CASE Recent(l) /\ LastChange(l).from = v ->
             SubSeq(l, 1, Len(l) - 1)
      [] Recent(l) /\ LastChange(l).from # v ->
             [l EXCEPT ![Len(l)] = [from |-> @.from, to |-> v, at |-> now]]
      [] OTHER ->
             Append(l, [from |-> previous, to |-> v, at |-> now])

\* create_response and create_response_by_token, for a new answer.
Respond(p, v) ==
    /\ event[p[2]] = "live"
    /\ v # response[p]
    /\ response' = [response EXCEPT ![p] = v]
    /\ log' = [log EXCEPT ![p] = Logged(@, response[p], v)]
    /\ stood' = [stood EXCEPT ![p] =
                   IF now - since[p] >= Cooldown THEN response[p] ELSE @]
    /\ since' = [since EXCEPT ![p] = now]
    /\ UNCHANGED <<event, now>>

\* The same answer again changes only ResponseDB.date, left out here.
\* Without the event create_response answers 404 and create_response_by_token
\* fails on the foreign key.
RespondInVain(p, v) ==
    /\ event[p[2]] = "live" => v = response[p]
    /\ UNCHANGED vars

CreateEvent(e) ==
    /\ event[e] = "none"
    /\ event' = [event EXCEPT ![e] = "live"]
    /\ UNCHANGED <<response, log, now, stood, since>>

BugNoCascade(e, f, gone) == f

\* The rows of the event e go with it: the answers by the ORM's cascade, the
\* log by the foreign key's.
Cascade(e, f, gone) == [p \in Pairs |-> IF p[2] = e THEN gone ELSE f[p]]

DeleteEvent(e) ==
    /\ event[e] = "live"
    /\ event' = [event EXCEPT ![e] = "deleted"]
    /\ response' = Cascade(e, response, None)
    /\ log' = Cascade(e, log, <<>>)
    /\ stood' = Cascade(e, stood, None)
    /\ UNCHANGED <<now, since>>

Tick ==
    /\ now < MaxTime
    /\ now' = now + 1
    /\ UNCHANGED <<event, response, log, stood, since>>

Next ==
    \/ \E p \in Pairs, v \in Values : Respond(p, v)
    \/ \E p \in Pairs, v \in Values : RespondInVain(p, v)
    \/ \E e \in Events : CreateEvent(e)
    \/ \E e \in Events : DeleteEvent(e)
    \/ Tick

Spec == Init /\ [][Next]_vars

-----------------------------------------------------------------------------
(* What holds.                                                             *)

\* Amending and deleting entries leaves a log that reads as one story: each
\* entry changes the answer, starts where the one before it ended, at least
\* a cooldown after it, and the last ends at the answer of ResponseDB.
LogIsAStory ==
    \A p \in Pairs :
        /\ \A i \in 1 .. Len(log[p]) : log[p][i].from # log[p][i].to
        /\ \A i \in 2 .. Len(log[p]) :
              /\ log[p][i].from = log[p][i - 1].to
              /\ log[p][i].at >= log[p][i - 1].at + Cooldown
        /\ log[p] # <<>> => LastChange(log[p]).to = response[p]

\* A member who withdrew after an answer that stood is on the page the staff
\* reads, however the answer wavered in between: the last entry goes from the
\* answer that stood to the current one.
WithdrawalsAreTold ==
    \A p \in Pairs :
        response[p] # stood[p] =>
            /\ log[p] # <<>>
            /\ LastChange(log[p]).from = stood[p]

\* The answers the log tells for ever: those of the entries that cannot be
\* amended any more, after the answer the log starts from.
First(p) == IF log[p] = <<>> THEN response[p] ELSE log[p][1].from
Fixed(p) == IF Recent(log[p]) THEN Len(log[p]) - 1 ELSE Len(log[p])
Told(p) ==
    [i \in 1 .. Fixed(p) + 1 |->
        IF i = 1 THEN First(p) ELSE log[p][i - 1].to]

History == INSTANCE AnswerHistory
               WITH current <- response, stood <- [p \in Pairs |-> Told(p)]

\* The log is the history AnswerHistory describes, for every member and event:
\* the answers that stood are only ever added to, one by one, and a change of
\* the current answer never rewrites them.
LogIsTheHistory == History!Spec

=============================================================================
