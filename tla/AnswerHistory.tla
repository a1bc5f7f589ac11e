--------------------------- MODULE AnswerHistory ---------------------------
(***************************************************************************)
(* What the log of answers promises: for each member and event it tells    *)
(* the answers that stood and the one that is current.  An answer given    *)
(* and taken back at once is nobody's business; one that stood is never    *)
(* forgotten while the event exists.                                       *)
(***************************************************************************)
EXTENDS Sequences, Naturals

CONSTANTS
    Pairs,     \* members and events
    Values,    \* the answers a member may give
    None

VARIABLES
    current,    \* the answers, None before the first one
    stood       \* the answers that stood, the oldest first

vars == <<current, stood>>

Answers == Values \cup {None}
Newest(p) == stood[p][Len(stood[p])]

Init ==
    /\ current \in [Pairs -> Answers]
    /\ stood = [p \in Pairs |-> <<current[p]>>]

\* The member answers otherwise.
Change(p) ==
    /\ current'[p] # None
    /\ stood'[p] = stood[p]

\* The current answer has stood long enough to be told for ever.
Settle(p) ==
    /\ current[p] # Newest(p)
    /\ stood'[p] = Append(stood[p], current[p])
    /\ current'[p] = current[p]

\* The event is deleted.
Forget(p) ==
    /\ current'[p] = None
    /\ stood'[p] = <<None>>

Same(p) ==
    /\ current'[p] = current[p]
    /\ stood'[p] = stood[p]

\* Time settles any number of answers at once.
Next ==
    /\ current' \in [Pairs -> Answers]
    /\ stood' = [p \in Pairs |-> stood'[p]]
    /\ \A p \in Pairs : Change(p) \/ Settle(p) \/ Forget(p) \/ Same(p)

Spec == Init /\ [][Next]_vars

=============================================================================
