------------------------------ MODULE Recovery ------------------------------
(***************************************************************************)
(* Account recovery: emailed one-time codes.                               *)
(*                                                                         *)
(* A member without a way to sign in asks for an email.  The request mints *)
(* a Recovery grant, an action_tokens row with the hash of a 6-digit code  *)
(* and a count of attempts; login_with_code turns the grant and its code   *)
(* into a session.  A member created by the staff gets such a grant in the *)
(* welcome email.                                                          *)
(*                                                                         *)
(* reset_password_request, create_profile, delete_profile and the daily    *)
(* purge run on the event loop, one at a time.  login_with_code is a `def` *)
(* handler: its calls run in threads, beside each other and beside the     *)
(* loop, and get_session commits the use of a grant after the answer was   *)
(* sent.  The ORM writes the columns a call changed, and only those.       *)
(***************************************************************************)
EXTENDS Naturals, FiniteSets

CONSTANTS
    Members,
    MaxGrants,       \* grants ever minted (bound)
    MaxAttempts,     \* OTP_MAX_ATTEMPTS
    Calls,           \* calls of login_with_code (bound)
    None

ASSUME RecoveryAssumption ==
    MaxGrants \in Nat /\ MaxAttempts \in Nat \ {0} /\ None \notin Members

Grants == 1 .. MaxGrants

VARIABLES
    account,    \* UserDB: "none", "active" or "inactive"
    grant,      \* the action_tokens rows, in the order they are minted
    ask,        \* the reset_password_request on the event loop
    call,       \* the calls of login_with_code
    prior       \* history: the calls that had ended when each call began

vars == <<account, grant, ask, call, prior>>

-----------------------------------------------------------------------------

\* A row is kept as a record after the purge, for the properties.
GrantRows ==
    [row : {"none", "stored", "purged"},
     owner : Members \cup {None},
     used : BOOLEAN, revoked : BOOLEAN, expired : BOOLEAN,
     attempts : 0 .. MaxAttempts]

NoGrant == [row |-> "none", owner |-> None, used |-> FALSE, revoked |-> FALSE,
            expired |-> FALSE, attempts |-> MaxAttempts]

Idle == [user |-> None, pending |-> {}]

\* "burned" is a call that committed a mismatch, "signedIn" one that
\* committed the use of its grant.
CallStates ==
    [pc : {"none", "peeked", "answered", "burned", "signedIn", "refused",
           "lost"},
     grant : Grants \cup {None},
     right : BOOLEAN,
     seen : 0 .. MaxAttempts]

NoCall == [pc |-> "none", grant |-> None, right |-> FALSE, seen |-> 0]

TypeOK ==
    /\ account \in [Members -> {"none", "active", "inactive"}]
    /\ grant \in [Grants -> GrantRows]
    /\ ask = Idle \/ ask \in [user : Members, pending : SUBSET Grants]
    /\ call \in [Calls -> CallStates]
    /\ prior \in [Calls -> SUBSET Calls]
    /\ \A c \in Calls : call[c].pc # "none" => call[c].grant \in Grants
    /\ \A g \in Grants : grant[g].row # "none" => grant[g].owner \in Members

Init ==
    /\ account = [m \in Members |-> "none"]
    /\ grant = [g \in Grants |-> NoGrant]
    /\ ask = Idle
    /\ call = [c \in Calls |-> NoCall]
    /\ prior = [c \in Calls |-> {}]

\* What peek_action_token accepts.
Valid(g) == /\ grant[g].row = "stored"
            /\ ~grant[g].used /\ ~grant[g].revoked /\ ~grant[g].expired

\* The next grant to be minted.
NextGrant(g) ==
    /\ grant[g].row = "none"
    /\ \A h \in Grants : h < g => grant[h].row # "none"

\* create_action_token, for member m.
Minted(m) == [row |-> "stored", owner |-> m, used |-> FALSE,
              revoked |-> FALSE, expired |-> FALSE, attempts |-> MaxAttempts]

-----------------------------------------------------------------------------
(* On the event loop *)

LoopIdle == ask = Idle

\* create_profile: the account and the welcome grant.
CreateProfile(m, g) ==
    /\ LoopIdle /\ account[m] = "none" /\ NextGrant(g)
    /\ account' = [account EXCEPT ![m] = "active"]
    /\ grant' = [grant EXCEPT ![g] = Minted(m)]
    /\ UNCHANGED <<ask, call, prior>>

\* accept_invitation: the account alone.
AcceptInvitation(m) ==
    /\ LoopIdle /\ account[m] = "none"
    /\ account' = [account EXCEPT ![m] = "active"]
    /\ UNCHANGED <<grant, ask, call, prior>>

\* delete_profile deactivates.
DeleteProfile(m) ==
    /\ LoopIdle /\ account[m] # "none"
    /\ account' = [account EXCEPT ![m] = "inactive"]
    /\ UNCHANGED <<grant, ask, call, prior>>

\* Mutant: the pending grants of every member are taken.
BugEveryone(m) ==
    /\ LoopIdle /\ account[m] = "active"
    /\ \E g \in Grants : NextGrant(g)
    /\ ask' = [user |-> m, pending |-> {g \in Grants : Valid(g)}]
    /\ UNCHANGED <<account, grant, call, prior>>

\* reset_password_request reads the account and its pending grants.
ReadPending(m) ==
    /\ LoopIdle /\ account[m] = "active"
    /\ \E g \in Grants : NextGrant(g)
    /\ ask' = [user |-> m,
               pending |-> {g \in Grants : Valid(g) /\ grant[g].owner = m}]
    /\ UNCHANGED <<account, grant, call, prior>>

\* Mutant: the older grants are left alone.
BugKeepPending(g) ==
    /\ ask # Idle /\ NextGrant(g)
    /\ grant' = [grant EXCEPT ![g] = Minted(ask.user)]
    /\ ask' = Idle
    /\ UNCHANGED <<account, call, prior>>

\* Mutant: the new grant names no member.
BugNoOwner(g) ==
    /\ ask # Idle /\ NextGrant(g)
    /\ grant' = [h \in Grants |->
                   IF h = g THEN Minted(None)
                   ELSE [grant[h] EXCEPT !.revoked = @ \/ h \in ask.pending]]
    /\ ask' = Idle
    /\ UNCHANGED <<account, call, prior>>

\* It revokes them, mints the new grant and commits.
CommitReset(g) ==
    /\ ask # Idle /\ NextGrant(g)
    /\ grant' = [h \in Grants |->
                   IF h = g THEN Minted(ask.user)
                   ELSE [grant[h] EXCEPT !.revoked = @ \/ h \in ask.pending]]
    /\ ask' = Idle
    /\ UNCHANGED <<account, call, prior>>

\* daily_cleanup drops a grant that has been dead for the days of grace, longer
\* than any call lasts.
Purge(g) ==
    /\ LoopIdle
    /\ grant[g].row = "stored" /\ ~Valid(g)
    /\ \A c \in Calls :
         call[c].pc \in {"peeked", "answered"} => call[c].grant # g
    /\ grant' = [grant EXCEPT ![g].row = "purged"]
    /\ UNCHANGED <<account, ask, call, prior>>

-----------------------------------------------------------------------------
(* login_with_code, in threads *)

Ended(c) == call[c].pc \in {"burned", "signedIn", "refused", "lost"}

\* peek_action_token: a grant that is not valid ends the call, the payload of
\* a valid one stays in the session.
Peek(c, g, right) ==
    /\ call[c].pc = "none"
    /\ grant[g].row # "none"
    /\ call' = [call EXCEPT ![c] =
                  [pc |-> IF Valid(g) THEN "peeked" ELSE "refused",
                   grant |-> g, right |-> right, seen |-> grant[g].attempts]]
    /\ prior' = [prior EXCEPT ![c] = {d \in Calls : Ended(d)}]
    /\ UNCHANGED <<account, grant, ask>>

\* Mutant: the whole row goes back as it was read.
BugWholeRow(c) ==
    /\ call[c].pc = "peeked" /\ ~call[c].right
    /\ LET g == call[c].grant IN
       grant' = [grant EXCEPT
         ![g].attempts = IF call[c].seen > 0 THEN call[c].seen - 1 ELSE @,
         ![g].used = FALSE,
         ![g].revoked = call[c].seen <= 1]
    /\ call' = [call EXCEPT ![c].pc = "burned"]
    /\ UNCHANGED <<account, ask, prior>>

\* Mutant: the burned attempt goes with the rollback of the refusal.
BugRollback(c) ==
    /\ call[c].pc = "peeked" /\ ~call[c].right
    /\ call' = [call EXCEPT ![c].pc = "burned"]
    /\ UNCHANGED <<account, grant, ask, prior>>

\* OtpService.verify on a wrong code: the count it read less one is committed,
\* and the grant revoked when nothing is left.
Burn(c) ==
    /\ call[c].pc = "peeked" /\ ~call[c].right
    /\ LET g == call[c].grant IN
       grant' = [grant EXCEPT
         ![g].attempts = IF call[c].seen > 0 THEN call[c].seen - 1 ELSE @,
         ![g].revoked = @ \/ call[c].seen <= 1]
    /\ call' = [call EXCEPT ![c].pc = "burned"]
    /\ UNCHANGED <<account, ask, prior>>

\* The code matches: the account is read, and an active one is answered with
\* a session.
ReadAccount(c) ==
    /\ call[c].pc = "peeked" /\ call[c].right
    /\ call' = [call EXCEPT ![c].pc =
                  IF account[grant[call[c].grant].owner] = "active"
                  THEN "answered" ELSE "refused"]
    /\ UNCHANGED <<account, grant, ask, prior>>

\* Mutant: the grant is not stamped.
BugForgetUse(c) ==
    /\ call[c].pc = "answered"
    /\ call' = [call EXCEPT ![c].pc = "signedIn"]
    /\ UNCHANGED <<account, grant, ask, prior>>

\* get_session commits used_at.
CommitUse(c) ==
    /\ call[c].pc = "answered"
    /\ grant' = [grant EXCEPT ![call[c].grant].used = TRUE]
    /\ call' = [call EXCEPT ![c].pc = "signedIn"]
    /\ UNCHANGED <<account, ask, prior>>

-----------------------------------------------------------------------------
(* Time and the process *)

Expire(g) ==
    /\ grant[g].row = "stored" /\ ~grant[g].expired
    /\ grant' = [grant EXCEPT ![g].expired = TRUE]
    /\ UNCHANGED <<account, ask, call, prior>>

\* The process dies with its request and its calls.
Restart ==
    /\ ask' = Idle
    /\ call' = [c \in Calls |->
                  IF call[c].pc \in {"peeked", "answered"}
                  THEN [call[c] EXCEPT !.pc = "lost"] ELSE call[c]]
    /\ UNCHANGED <<account, grant, prior>>

LoopStep ==
    \/ \E m \in Members, g \in Grants : CreateProfile(m, g)
    \/ \E m \in Members :
         AcceptInvitation(m) \/ DeleteProfile(m) \/ ReadPending(m)
    \/ \E g \in Grants : CommitReset(g) \/ Purge(g)

CallStep(c) ==
    \/ \E g \in Grants, right \in BOOLEAN : Peek(c, g, right)
    \/ Burn(c) \/ ReadAccount(c) \/ CommitUse(c)

Next ==
    \/ LoopStep
    \/ \E c \in Calls : CallStep(c)
    \/ \E g \in Grants : Expire(g)
    \/ Restart

Spec == Init /\ [][Next]_vars

-----------------------------------------------------------------------------
(* Properties *)

\* Only the latest grant of a member may be valid: a fresh email supersedes
\* the welcome email and every recovery email before it, whatever calls are
\* using them meanwhile.
OnlyLatestValid ==
    \A g, h \in Grants :
        g < h /\ Valid(g) => grant[h].owner # grant[g].owner

\* A grant that was used, revoked, exhausted or has expired never becomes
\* valid again, though calls that read it before write it afterwards.
DeadStaysDead ==
    [][\A g \in Grants :
         grant[g].row # "none" /\ ~Valid(g) => ~Valid(g)']_vars

\* A valid grant is only lost by its use, its time, its last attempt or a
\* newer grant of the same member; nothing another member does takes it.
ValidUntilSpent ==
    [][\A g \in Grants :
         Valid(g) /\ ~Valid(g)' =>
           \/ grant'[g].used \/ grant'[g].expired \/ grant'[g].attempts = 0
           \/ \E h \in Grants : /\ grant[h].row = "none"
                                /\ grant'[h].row = "stored"
                                /\ grant'[h].owner = grant[g].owner]_vars

\* A grant signs in once: a call that begins after another one committed its
\* use is refused.  Calls that overlap may both be answered.
NoSecondSignIn ==
    \A c, d \in Calls :
        /\ d \in prior[c] /\ call[d].pc = "signedIn"
        /\ call[d].grant = call[c].grant
        => call[c].pc \notin {"answered", "signedIn"}

On(g) == {c \in Calls : call[c].pc # "none" /\ call[c].grant = g}

\* Every mismatch costs an attempt, when no two calls on the grant overlap;
\* calls that overlap read the same count and write the same count back.
MismatchesCounted ==
    \A g \in Grants :
        (\A c, d \in On(g) : c = d \/ c \in prior[d] \/ d \in prior[c])
        => grant[g].attempts + Cardinality({c \in On(g) :
                                              call[c].pc = "burned"})
             = MaxAttempts

=============================================================================
