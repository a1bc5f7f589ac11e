--------------------------- MODULE RecoveryProofs ---------------------------
(***************************************************************************)
(* Proofs about Recovery, for any members, grants, calls and attempts:     *)
(* types, that only the latest grant of a member is valid, that a dead     *)
(* grant stays dead, and that a grant whose use was committed signs nobody *)
(* in again.                                                               *)
(***************************************************************************)
EXTENDS Recovery, FiniteSetTheorems, TLAPS

\* The request on the loop knows every valid grant of its member.
AskInv ==
    ask # Idle =>
        /\ ask.user \in Members /\ account[ask.user] # "none"
        /\ \A g \in Grants :
             Valid(g) /\ grant[g].owner = ask.user => g \in ask.pending
        /\ \A g \in ask.pending : grant[g].row # "none"

\* Grants are minted in order, for accounts that exist, and a call holds one
\* that was minted.
MintInv ==
    /\ \A g, h \in Grants : g < h /\ grant[g].row = "none"
                              => grant[h].row = "none"
    /\ \A g \in Grants :
         IF grant[g].row = "none" THEN grant[g] = NoGrant
                                  ELSE account[grant[g].owner] # "none"
    /\ \A c \in Calls : call[c].pc # "none" =>
         grant[call[c].grant].row # "none"

LatestInv == TypeOK /\ MintInv /\ AskInv /\ OnlyLatestValid

\* Calls that had ended stay ended, and one that used a grant is the reason
\* later ones are refused.
UseInv ==
    /\ \A c \in Calls : call[c].pc = "signedIn" => grant[call[c].grant].used
    /\ \A c \in Calls : call[c].pc # "none" => \A d \in prior[c] : Ended(d)
    /\ \A c, d \in Calls :
         /\ call[c].pc # "none" /\ d \in prior[c]
         /\ call[d].pc = "signedIn" /\ call[d].grant = call[c].grant
         => call[c].pc \notin {"peeked", "answered", "signedIn"}

-----------------------------------------------------------------------------
(* Types *)

\* create_action_token makes a grant record.
LEMMA MintedType ==
    ASSUME NEW m \in Members
    PROVE  /\ NoGrant \in GrantRows
           /\ Minted(m) \in GrantRows
           /\ Minted(m).owner = m /\ Minted(m).row = "stored"
<1>1. MaxAttempts \in 0 .. MaxAttempts
  BY RecoveryAssumption
<1>2. NoGrant \in GrantRows
  BY <1>1 DEF NoGrant, GrantRows
<1> QED BY <1>1, <1>2 DEF Minted, GrantRows

\* Every variable keeps its type (the whole next-state relation).
LEMMA TypeStep == TypeOK /\ [Next]_vars => TypeOK'
<1> SUFFICES ASSUME TypeOK, [Next]_vars PROVE TypeOK'
  OBVIOUS
<1>1. CASE UNCHANGED vars
  BY <1>1 DEF TypeOK, vars
<1>2. ASSUME NEW m \in Members, NEW g \in Grants, CreateProfile(m, g)
      PROVE  TypeOK'
  BY <1>2, MintedType DEF TypeOK, CreateProfile
<1>3. ASSUME NEW m \in Members,
             AcceptInvitation(m) \/ DeleteProfile(m) \/ ReadPending(m)
      PROVE  TypeOK'
  BY <1>3 DEF TypeOK, AcceptInvitation, DeleteProfile, ReadPending
<1>4. ASSUME NEW g \in Grants, CommitReset(g) PROVE TypeOK'
  <2>1. ask.user \in Members
    BY <1>4 DEF CommitReset, TypeOK
  <2>2. \A h \in Grants : /\ grant'[h] \in GrantRows
                          /\ grant'[h].row # "none" =>
                               grant'[h].owner \in Members
    <3> SUFFICES ASSUME NEW h \in Grants
                 PROVE  /\ grant'[h] \in GrantRows
                        /\ grant'[h].row # "none" =>
                             grant'[h].owner \in Members
      OBVIOUS
    <3>1. CASE h = g
      BY <1>4, <2>1, <3>1, MintedType DEF CommitReset
    <3>2. CASE h # g
      <4> DEFINE b == grant[h].revoked \/ h \in ask.pending
      <4>1. grant'[h] = [grant[h] EXCEPT !.revoked = b]
        BY <1>4, <3>2 DEF CommitReset
      <4>2. grant[h] \in GrantRows /\ b \in BOOLEAN
        BY DEF TypeOK
      <4> HIDE DEF b
      <4>3. grant'[h] \in GrantRows
        BY <4>1, <4>2 DEF GrantRows
      <4> QED BY <4>1, <4>2, <4>3 DEF TypeOK, GrantRows
    <3> QED BY <3>1, <3>2
  <2> QED BY <1>4, <2>2 DEF TypeOK, CommitReset
<1>5. ASSUME NEW g \in Grants, Purge(g) \/ Expire(g) PROVE TypeOK'
  <2>1. grant[g] \in GrantRows /\ grant[g].row = "stored"
    BY <1>5 DEF TypeOK, Purge, Expire
  <2>2. CASE Purge(g)
    <3>1. grant' = [grant EXCEPT ![g] = [grant[g] EXCEPT !.row = "purged"]]
      BY <2>2 DEF Purge
    <3>2. [grant[g] EXCEPT !.row = "purged"] \in GrantRows
          /\ [grant[g] EXCEPT !.row = "purged"].owner = grant[g].owner
      BY <2>1 DEF GrantRows
    <3> QED BY <2>1, <2>2, <3>1, <3>2 DEF TypeOK, Purge
  <2>3. CASE Expire(g)
    <3>1. grant' = [grant EXCEPT ![g] = [grant[g] EXCEPT !.expired = TRUE]]
      BY <2>3 DEF Expire
    <3>2. [grant[g] EXCEPT !.expired = TRUE] \in GrantRows
          /\ [grant[g] EXCEPT !.expired = TRUE].owner = grant[g].owner
      BY <2>1 DEF GrantRows
    <3> QED BY <2>1, <2>3, <3>1, <3>2 DEF TypeOK, Expire
  <2> QED BY <1>5, <2>2, <2>3
<1>6. ASSUME NEW c \in Calls, CallStep(c) PROVE TypeOK'
  <2>1. ASSUME NEW g \in Grants, NEW right \in BOOLEAN, Peek(c, g, right)
        PROVE  TypeOK'
    <3>1. grant[g].attempts \in 0 .. MaxAttempts
      BY DEF TypeOK, GrantRows
    <3> QED BY <2>1, <3>1 DEF TypeOK, Peek, CallStates
  <2>2. CASE Burn(c)
    <3>1. call[c] \in CallStates /\ call[c].grant \in Grants
      BY <2>2 DEF TypeOK, Burn
    <3>2. PICK r \in GrantRows :
             /\ grant' = [grant EXCEPT ![call[c].grant] = r]
             /\ r.owner = grant[call[c].grant].owner
             /\ r.row = grant[call[c].grant].row
      <4> DEFINE g == call[c].grant
                 n == IF call[c].seen > 0 THEN call[c].seen - 1
                                          ELSE grant[g].attempts
                 b == grant[g].revoked \/ call[c].seen <= 1
      <4>1. grant[g] \in GrantRows
        BY <3>1 DEF TypeOK
      <4>2. n \in 0 .. MaxAttempts /\ b \in BOOLEAN
        BY <3>1, <4>1, RecoveryAssumption DEF CallStates, GrantRows
      <4>3. grant' = [grant EXCEPT ![g] =
                        [grant[g] EXCEPT !.attempts = n, !.revoked = b]]
        BY <2>2, <3>1 DEF Burn, TypeOK
      <4> HIDE DEF n, b
      <4>4. [grant[g] EXCEPT !.attempts = n, !.revoked = b] \in GrantRows
        BY <4>1, <4>2 DEF GrantRows
      <4> WITNESS [grant[g] EXCEPT !.attempts = n, !.revoked = b]
                    \in GrantRows
      <4> QED BY <4>1, <4>3 DEF GrantRows
    <3>3. grant' \in [Grants -> GrantRows]
          /\ \A g \in Grants :
               grant'[g].row # "none" => grant'[g].owner \in Members
      BY <3>1, <3>2 DEF TypeOK
    <3>4. call' \in [Calls -> CallStates]
          /\ \A d \in Calls :
               call'[d].pc # "none" => call'[d].grant \in Grants
      BY <2>2, <3>1 DEF TypeOK, Burn, CallStates
    <3> QED BY <2>2, <3>3, <3>4 DEF TypeOK, Burn
  <2>3. CASE ReadAccount(c)
    BY <2>3 DEF TypeOK, ReadAccount, CallStates
  <2>4. CASE CommitUse(c)
    <3>1. call[c] \in CallStates /\ call[c].grant \in Grants
      BY <2>4 DEF TypeOK, CommitUse
    <3>2. PICK r \in GrantRows :
             /\ grant' = [grant EXCEPT ![call[c].grant] = r]
             /\ r.owner = grant[call[c].grant].owner
             /\ r.row = grant[call[c].grant].row
      <4> DEFINE g == call[c].grant
      <4>1. grant[g] \in GrantRows
        BY <3>1 DEF TypeOK
      <4>2. grant' = [grant EXCEPT ![g] = [grant[g] EXCEPT !.used = TRUE]]
        BY <2>4, <3>1 DEF CommitUse
      <4>3. [grant[g] EXCEPT !.used = TRUE] \in GrantRows
        BY <4>1 DEF GrantRows
      <4> WITNESS [grant[g] EXCEPT !.used = TRUE] \in GrantRows
      <4> QED BY <4>1, <4>2 DEF GrantRows
    <3>3. grant' \in [Grants -> GrantRows]
          /\ \A g \in Grants :
               grant'[g].row # "none" => grant'[g].owner \in Members
      BY <3>1, <3>2 DEF TypeOK
    <3>4. call' \in [Calls -> CallStates]
          /\ \A d \in Calls :
               call'[d].pc # "none" => call'[d].grant \in Grants
      BY <2>4, <3>1 DEF TypeOK, CommitUse, CallStates
    <3> QED BY <2>4, <3>3, <3>4 DEF TypeOK, CommitUse
  <2> QED BY <1>6, <2>1, <2>2, <2>3, <2>4 DEF CallStep
<1>7. CASE Restart
  BY <1>7 DEF TypeOK, Restart, CallStates
<1> QED BY <1>1, <1>2, <1>3, <1>4, <1>5, <1>6, <1>7 DEF Next, LoopStep

\* The initial state has the types.
LEMMA TypeInit == Init => TypeOK
<1>1. NoGrant \in GrantRows
  <2>1. MaxAttempts \in 0 .. MaxAttempts
    BY RecoveryAssumption
  <2> QED BY <2>1 DEF NoGrant, GrantRows
<1>2. NoCall \in CallStates
  BY RecoveryAssumption DEF NoCall, CallStates
<1> QED BY <1>1, <1>2 DEF Init, TypeOK, NoGrant, NoCall

\* TypeOK holds in every reachable state.
THEOREM TypeCorrect == Spec => []TypeOK
BY TypeInit, TypeStep, PTL DEF Spec

-----------------------------------------------------------------------------
(* Only the latest grant is valid *)

\* What a step other than a mint does to a grant: it keeps its owner, may
\* make it dead, never valid.
Wanes(g) ==
    /\ grant[g].row = "none" => grant'[g] = grant[g]
    /\ grant[g].row # "none" =>
         grant'[g].row # "none" /\ grant'[g].owner = grant[g].owner
    /\ Valid(g)' => Valid(g)

\* Calls, the purge and time only wane grants (peek_action_token, verify,
\* purge_expired_action_tokens).
LEMMA GrantsWane ==
    ASSUME TypeOK, MintInv, [Next]_vars,
           ~\E m \in Members, g \in Grants : CreateProfile(m, g),
           ~\E g \in Grants : CommitReset(g)
    PROVE  \A g \in Grants : Wanes(g)
<1> SUFFICES ASSUME NEW g \in Grants PROVE Wanes(g)
  OBVIOUS
<1>1. CASE UNCHANGED grant
  BY <1>1 DEF Wanes, Valid
<1>2. ASSUME NEW h \in Grants, Purge(h) \/ Expire(h) PROVE Wanes(g)
  BY <1>2 DEF TypeOK, GrantRows, Purge, Expire, Wanes, Valid
<1>3. ASSUME NEW c \in Calls, Burn(c) \/ CommitUse(c) PROVE Wanes(g)
  <2>1. call[c].grant \in Grants /\ grant[call[c].grant].row # "none"
    BY <1>3 DEF TypeOK, MintInv, Burn, CommitUse
  <2>2. grant[g] \in GrantRows
    BY DEF TypeOK
  <2>3. CASE Burn(c)
    BY <2>1, <2>2, <2>3 DEF TypeOK, GrantRows, Burn, Wanes, Valid
  <2>4. CASE CommitUse(c)
    BY <2>1, <2>2, <2>4 DEF TypeOK, GrantRows, CommitUse, Wanes, Valid
  <2> QED BY <1>3, <2>3, <2>4
<1>4. UNCHANGED grant
      \/ (\E h \in Grants : Purge(h) \/ Expire(h))
      \/ (\E c \in Calls : Burn(c) \/ CommitUse(c))
  BY DEF Next, LoopStep, CallStep, vars, AcceptInvitation, DeleteProfile,
     ReadPending, Peek, ReadAccount, Restart
<1> QED BY <1>1, <1>2, <1>3, <1>4

\* Calls keep hold of grants that were minted.
LEMMA CallsHoldMinted ==
    ASSUME TypeOK, MintInv, [Next]_vars,
           \A g \in Grants : grant[g].row # "none" => grant'[g].row # "none"
    PROVE  \A c \in Calls : call'[c].pc # "none" =>
             grant'[call'[c].grant].row # "none"
<1> SUFFICES ASSUME NEW c \in Calls, call'[c].pc # "none"
             PROVE  grant'[call'[c].grant].row # "none"
  OBVIOUS
<1>1. CASE call'[c].grant = call[c].grant /\ call[c].pc # "none"
  BY <1>1 DEF TypeOK, MintInv
<1>2. CASE \E g \in Grants, right \in BOOLEAN : Peek(c, g, right)
  BY <1>2 DEF Peek, TypeOK
<1>3. ASSUME NEW d \in Calls, d # c, CallStep(d) PROVE call'[c] = call[c]
  BY <1>3 DEF CallStep, Peek, Burn, ReadAccount, CommitUse, TypeOK
<1>4. CASE Burn(c) \/ ReadAccount(c) \/ CommitUse(c)
  <2>1. call'[c].grant = call[c].grant /\ call[c].pc # "none"
    BY <1>4 DEF Burn, ReadAccount, CommitUse, TypeOK, CallStates
  <2> QED BY <1>1, <2>1
<1>5. CASE Restart
  <2>1. call'[c].grant = call[c].grant /\ call[c].pc # "none"
    BY <1>5 DEF Restart, TypeOK, CallStates
  <2> QED BY <1>1, <2>1
<1>6. CASE LoopStep \/ UNCHANGED vars \/ \E g \in Grants : Expire(g)
  <2>1. call' = call
    BY <1>6 DEF LoopStep, CreateProfile, AcceptInvitation, DeleteProfile,
       ReadPending, CommitReset, Purge, Expire, vars
  <2> QED BY <1>1, <2>1
<1> QED BY <1>1, <1>2, <1>3, <1>4, <1>5, <1>6 DEF Next, CallStep

\* A mint makes grant g, for a member m without another valid grant, from the
\* next number.
LEMMA MintKeepsLatest ==
    ASSUME LatestInv, NEW g \in Grants, NEW m \in Members, NextGrant(g),
           grant'[g] = Minted(m),
           \A h \in Grants \ {g} : Wanes(h),
           \A h \in Grants \ {g} : Valid(h)' => grant[h].owner # m
    PROVE  OnlyLatestValid'
<1> SUFFICES ASSUME NEW a \in Grants, NEW b \in Grants, a < b, Valid(a)'
             PROVE  grant'[b].owner # grant'[a].owner
  BY DEF OnlyLatestValid
<1>1. CASE a = g
  <2>1. grant'[b] = NoGrant
    BY <1>1 DEF LatestInv, MintInv, NextGrant, Wanes, Grants
  <2> QED BY <1>1, <2>1, MintedType, RecoveryAssumption DEF NoGrant
<1>2. CASE a # g
  <2>1. Valid(a) /\ grant'[a].owner = grant[a].owner
    BY <1>2 DEF Wanes, Valid
  <2>2. CASE b = g
    BY <1>2, <2>1, <2>2, MintedType
  <2>3. CASE b # g
    <3>1. grant'[b].owner = grant[b].owner
      BY <2>3 DEF Wanes
    <3> QED BY <2>1, <3>1 DEF LatestInv, OnlyLatestValid
  <2> QED BY <2>2, <2>3
<1> QED BY <1>1, <1>2

\* A mint as create_profile and reset_password_request do it: grant g is new,
\* the others wane, and the account exists.
Mints(g, m) ==
    /\ NextGrant(g)
    /\ grant'[g] = Minted(m)
    /\ \A h \in Grants \ {g} : Wanes(h)
    /\ account'[m] # "none"
    /\ \A n \in Members : account[n] # "none" => account'[n] # "none"
    /\ UNCHANGED call

\* MintInv survives a mint.
LEMMA MintKeepsOrder ==
    ASSUME TypeOK, MintInv, [Next]_vars, NEW g \in Grants, NEW m \in Members,
           Mints(g, m)
    PROVE  MintInv'
<1>1. \A h \in Grants : grant[h].row # "none" => grant'[h].row # "none"
  BY MintedType DEF Mints, Wanes
<1>2. grant'[g].row = "stored" /\ grant'[g].owner = m
  BY MintedType DEF Mints
<1>3. ASSUME NEW a \in Grants, NEW b \in Grants, a < b,
             grant'[a].row = "none"
      PROVE  grant'[b].row = "none"
  <2>1. a # g /\ grant[a].row = "none" /\ a > g
    BY <1>1, <1>2, <1>3 DEF Mints, NextGrant, Grants
  <2>2. b # g /\ grant[b].row = "none"
    BY <1>3, <2>1 DEF MintInv, Grants
  <2> QED BY <2>2 DEF Mints, Wanes
<1>4. ASSUME NEW a \in Grants
      PROVE  IF grant'[a].row = "none" THEN grant'[a] = NoGrant
                                       ELSE account'[grant'[a].owner] # "none"
  <2>1. CASE a = g
    BY <1>2, <2>1 DEF Mints
  <2>2. CASE a # g
    BY <2>2 DEF MintInv, Mints, Wanes, TypeOK
  <2> QED BY <2>1, <2>2
<1>5. \A c \in Calls : call'[c].pc # "none" =>
        grant'[call'[c].grant].row # "none"
  BY <1>1, CallsHoldMinted
<1> QED BY <1>3, <1>4, <1>5 DEF MintInv

\* LatestInv is inductive: create_profile and reset_password_request mint,
\* every other step wanes grants or reads them.
LEMMA LatestStep == LatestInv /\ [Next]_vars => LatestInv'
<1> SUFFICES ASSUME LatestInv, [Next]_vars PROVE LatestInv'
  OBVIOUS
<1> USE DEF LatestInv
<1>0. TypeOK'
  BY TypeStep
<1>1. ASSUME NEW m \in Members, NEW g \in Grants, CreateProfile(m, g)
      PROVE  LatestInv'
  <2>1. \A h \in Grants \ {g} : Wanes(h)
    BY <1>1 DEF CreateProfile, Wanes, Valid, TypeOK
  <2>2. Mints(g, m)
    BY <1>1, <2>1 DEF CreateProfile, Mints, TypeOK
  <2>3. \A h \in Grants \ {g} : Valid(h)' => grant[h].owner # m
    BY <1>1, <2>1 DEF CreateProfile, MintInv, Wanes, Valid
  <2>4. OnlyLatestValid'
    BY <2>2, <2>3, MintKeepsLatest DEF Mints
  <2>5. AskInv'
    BY <1>1 DEF CreateProfile, LoopIdle, AskInv
  <2> QED BY <1>0, <2>2, <2>4, <2>5, MintKeepsOrder
<1>2. ASSUME NEW g \in Grants, CommitReset(g) PROVE LatestInv'
  <2>0. ask # Idle /\ ask.user \in Members /\ account[ask.user] # "none"
    BY <1>2 DEF CommitReset, AskInv
  <2>1. ASSUME NEW h \in Grants \ {g} PROVE Wanes(h)
    <3>1. grant'[h] = [grant[h] EXCEPT
                         !.revoked = grant[h].revoked \/ h \in ask.pending]
      BY <1>2 DEF CommitReset
    <3>2. grant[h] \in GrantRows
      BY DEF TypeOK
    <3>3. grant[h].row = "none" => h \notin ask.pending
      BY <2>0 DEF AskInv
    <3>4. CASE grant[h].row = "none"
      <4>1. grant[h] = NoGrant /\ h \notin ask.pending
        BY <3>3, <3>4 DEF MintInv
      <4>2. (grant[h].revoked \/ h \in ask.pending) = FALSE
        BY <4>1 DEF NoGrant
      <4>3. [NoGrant EXCEPT !.revoked = FALSE] = NoGrant
        <5>1. ASSUME NEW r \in GrantRows, r.revoked = FALSE
              PROVE  [r EXCEPT !.revoked = FALSE] = r
          BY <5>1 DEF GrantRows
        <5>2. NoGrant \in GrantRows /\ NoGrant.revoked = FALSE
          BY <2>0, MintedType DEF NoGrant
        <5> QED BY <5>1, <5>2
      <4>4. grant'[h] = grant[h]
        BY <3>1, <4>1, <4>2, <4>3
      <4> QED BY <3>4, <4>4 DEF Wanes, Valid
    <3>5. CASE grant[h].row # "none"
      BY <3>1, <3>2, <3>5 DEF Wanes, Valid, GrantRows
    <3> QED BY <3>4, <3>5
  <2>2. Mints(g, ask.user)
    BY <1>2, <2>0, <2>1 DEF CommitReset, Mints
  <2>3. \A h \in Grants \ {g} : Valid(h)' => grant[h].owner # ask.user
    <3> SUFFICES ASSUME NEW h \in Grants \ {g}, Valid(h)'
                 PROVE  grant[h].owner # ask.user
      OBVIOUS
    <3>1. grant'[h] = [grant[h] EXCEPT
                         !.revoked = grant[h].revoked \/ h \in ask.pending]
      BY <1>2 DEF CommitReset
    <3>2. h \notin ask.pending
      BY <3>1 DEF Valid, TypeOK, GrantRows
    <3> QED BY <2>0, <2>1, <3>2 DEF AskInv, Wanes
  <2>4. OnlyLatestValid'
    BY <2>0, <2>2, <2>3, MintKeepsLatest DEF Mints
  <2>5. AskInv'
    BY <1>2 DEF CommitReset, AskInv
  <2> QED BY <1>0, <2>0, <2>2, <2>4, <2>5, MintKeepsOrder
<1>3. ASSUME ~\E m \in Members, g \in Grants : CreateProfile(m, g),
             ~\E g \in Grants : CommitReset(g)
      PROVE  LatestInv'
  <2>1. \A g \in Grants : Wanes(g)
    BY <1>3, GrantsWane
  <2>2. \A n \in Members : account[n] # "none" => account'[n] # "none"
    BY <1>3 DEF Next, LoopStep, CallStep, vars, AcceptInvitation,
       DeleteProfile, ReadPending, Purge, Peek, Burn, ReadAccount, CommitUse,
       Expire, Restart, TypeOK
  <2>3. MintInv'
    <3>1. \A c \in Calls : call'[c].pc # "none" =>
            grant'[call'[c].grant].row # "none"
      BY <2>1, CallsHoldMinted DEF Wanes
    <3>2. ASSUME NEW a \in Grants
          PROVE  IF grant'[a].row = "none" THEN grant'[a] = NoGrant
                 ELSE account'[grant'[a].owner] # "none"
      <4>1. CASE grant[a].row = "none"
        BY <2>1, <4>1 DEF MintInv, Wanes
      <4>2. CASE grant[a].row # "none"
        BY <2>1, <2>2, <4>2 DEF MintInv, Wanes, TypeOK
      <4> QED BY <4>1, <4>2
    <3>3. \A a, b \in Grants : a < b /\ grant'[a].row = "none"
                               => grant'[b].row = "none"
      BY <2>1 DEF MintInv, Wanes
    <3> QED BY <3>1, <3>2, <3>3 DEF MintInv
  <2>4. OnlyLatestValid'
    <3> SUFFICES ASSUME NEW a \in Grants, NEW b \in Grants, a < b, Valid(a)'
                 PROVE  grant'[b].owner # grant'[a].owner
      BY DEF OnlyLatestValid
    <3>1. Valid(a) /\ grant'[a].owner = grant[a].owner
      BY <2>1 DEF Wanes, Valid
    <3>2. grant'[b].owner = grant[b].owner
      BY <2>1 DEF Wanes
    <3> QED BY <3>1, <3>2 DEF OnlyLatestValid
  <2>5. AskInv'
    <3>1. CASE UNCHANGED ask
      <4> SUFFICES ASSUME ask # Idle PROVE AskInv'
        BY <3>1 DEF AskInv
      <4>1. ask.user \in Members /\ account'[ask.user] # "none"
        BY <2>2 DEF AskInv
      <4>2. \A g \in Grants : Valid(g)' /\ grant'[g].owner = ask.user
                             => g \in ask.pending
        BY <2>1 DEF AskInv, Wanes, Valid
      <4>3. \A g \in ask.pending : grant'[g].row # "none"
        BY <2>1 DEF AskInv, Wanes, TypeOK
      <4> QED BY <3>1, <4>1, <4>2, <4>3 DEF AskInv
    <3>2. CASE ask' = Idle
      BY <3>2 DEF AskInv
    <3>3. ASSUME NEW m \in Members, ReadPending(m) PROVE AskInv'
      <4>1. ask' = [user |-> m,
                    pending |-> {g \in Grants : /\ Valid(g)
                                                /\ grant[g].owner = m}]
            /\ account[m] = "active" /\ UNCHANGED <<account, grant>>
        BY <3>3 DEF ReadPending
      <4> QED BY <4>1 DEF AskInv, Valid
    <3> QED BY <1>3, <3>1, <3>2, <3>3 DEF Next, LoopStep, CallStep, vars,
          AcceptInvitation, DeleteProfile, Purge, Peek, Burn, ReadAccount,
          CommitUse, Expire, Restart
  <2> QED BY <1>0, <2>3, <2>4, <2>5
<1> QED BY <1>1, <1>2, <1>3

\* LatestInv holds at the start.
LEMMA LatestInit == Init => LatestInv
<1>1. Init => MintInv /\ AskInv
  BY DEF Init, MintInv, AskInv, NoGrant, NoCall
<1>2. Init => OnlyLatestValid
  BY DEF Init, OnlyLatestValid, Valid, NoGrant
<1> QED BY <1>1, <1>2, TypeInit DEF LatestInv

\* Only the latest emailed grant of a member is valid
\* (reset_password_request, _revoke_pending_recovery_grants).
THEOREM LatestOnly == Spec => []OnlyLatestValid
<1>1. LatestInv => OnlyLatestValid
  BY DEF LatestInv
<1> QED BY <1>1, LatestInit, LatestStep, PTL DEF Spec

-----------------------------------------------------------------------------
(* Dead grants *)

\* No step makes a dead grant valid: the ORM writes back only the columns a
\* call changed (OtpService.verify, login_with_code).
THEOREM DeadGrantsStayDead == Spec => DeadStaysDead
<1>1. LatestInv /\ [Next]_vars =>
        [\A g \in Grants :
           grant[g].row # "none" /\ ~Valid(g) => ~Valid(g)']_vars
  <2> SUFFICES ASSUME LatestInv, [Next]_vars, NEW g \in Grants,
                      grant[g].row # "none", ~Valid(g)
               PROVE  ~Valid(g)'
    OBVIOUS
  <2>1. ASSUME NEW m \in Members, NEW h \in Grants, CreateProfile(m, h)
        PROVE  ~Valid(g)'
    BY <2>1 DEF CreateProfile, NextGrant, Valid, LatestInv, TypeOK
  <2>2. ASSUME NEW h \in Grants, CommitReset(h) PROVE ~Valid(g)'
    <3>1. grant'[g] = [grant[g] EXCEPT
                         !.revoked = grant[g].revoked \/ g \in ask.pending]
      BY <2>2 DEF CommitReset, NextGrant
    <3>2. grant[g] \in GrantRows
      BY DEF LatestInv, TypeOK
    <3> QED BY <3>1, <3>2 DEF Valid, GrantRows
  <2>3. CASE /\ ~\E m \in Members, h \in Grants : CreateProfile(m, h)
             /\ ~\E h \in Grants : CommitReset(h)
    BY <2>3, GrantsWane DEF LatestInv, Wanes
  <2> QED BY <2>1, <2>2, <2>3
<1> QED BY <1>1, LatestInit, LatestStep, PTL DEF Spec, DeadStaysDead

-----------------------------------------------------------------------------
(* One sign-in per grant *)

\* The use of a grant survives every step that may follow it.
LEMMA UsedStays ==
    ASSUME LatestInv, [Next]_vars, NEW g \in Grants, grant[g].row # "none",
           grant[g].used
    PROVE  grant'[g].used
<1>1. CASE UNCHANGED grant
  BY <1>1
<1>2. ASSUME NEW h \in Grants, NEW m \in Members, CreateProfile(m, h)
      PROVE  grant'[g].used
  BY <1>2 DEF CreateProfile, NextGrant, LatestInv, TypeOK
<1>3. ASSUME NEW h \in Grants, CommitReset(h) PROVE grant'[g].used
  BY <1>3 DEF CommitReset, NextGrant, LatestInv, TypeOK, GrantRows
<1>4. ASSUME NEW h \in Grants, Purge(h) \/ Expire(h) PROVE grant'[g].used
  BY <1>4 DEF Purge, Expire, LatestInv, TypeOK, GrantRows
<1>5. ASSUME NEW c \in Calls, Burn(c) PROVE grant'[g].used
  BY <1>5 DEF Burn, LatestInv, TypeOK, GrantRows
<1>6. ASSUME NEW c \in Calls, CommitUse(c) PROVE grant'[g].used
  BY <1>6 DEF CommitUse, LatestInv, TypeOK, GrantRows
<1> QED BY <1>1, <1>2, <1>3, <1>4, <1>5, <1>6 DEF Next, LoopStep, CallStep,
      vars, AcceptInvitation, DeleteProfile, ReadPending, Peek, ReadAccount,
      Restart

\* What a call keeps once it has begun: its grant, its prior calls and, once
\* it has ended, its end.
LEMMA CallFrame ==
    ASSUME TypeOK, [Next]_vars, NEW c \in Calls, call[c].pc # "none"
    PROVE  /\ call'[c].grant = call[c].grant /\ prior'[c] = prior[c]
           /\ call'[c].pc # "none"
           /\ Ended(c) => call'[c] = call[c]
           /\ call'[c].pc = "answered" => call[c].pc \in {"peeked", "answered"}
           /\ call'[c].pc = "peeked" => call[c].pc = "peeked"
           /\ call'[c].pc = "signedIn" /\ call[c].pc # "signedIn" =>
                call[c].pc = "answered" /\ CommitUse(c)
<1>1. CASE call'[c] = call[c] /\ prior'[c] = prior[c]
  BY <1>1
<1>2. ASSUME NEW d \in Calls, d # c, CallStep(d)
      PROVE  call'[c] = call[c] /\ prior'[c] = prior[c]
  BY <1>2 DEF CallStep, Peek, Burn, ReadAccount, CommitUse, TypeOK
<1>3. CASE CallStep(c)
  BY <1>3 DEF CallStep, Peek, Burn, ReadAccount, CommitUse, TypeOK, CallStates,
     Ended
<1>4. CASE Restart
  BY <1>4 DEF Restart, TypeOK, CallStates, Ended
<1>5. CASE LoopStep \/ UNCHANGED vars \/ \E g \in Grants : Expire(g)
  <2>1. UNCHANGED <<call, prior>>
    BY <1>5 DEF LoopStep, CreateProfile, AcceptInvitation, DeleteProfile,
       ReadPending, CommitReset, Purge, Expire, vars
  <2> QED BY <1>1, <2>1
<1> QED BY <1>1, <1>2, <1>3, <1>4, <1>5 DEF Next

\* Only Peek begins a call: it notes the calls that have ended, and refuses
\* when the grant is not valid.
LEMMA CallBegins ==
    ASSUME TypeOK, [Next]_vars, NEW c \in Calls, call[c].pc = "none",
           call'[c].pc # "none"
    PROVE  /\ \E g \in Grants, right \in BOOLEAN : Peek(c, g, right)
           /\ prior'[c] = {d \in Calls : Ended(d)}
           /\ call'[c].pc # "refused" =>
                call'[c].pc = "peeked" /\ Valid(call'[c].grant)
           /\ \A d \in Calls \ {c} : call'[d] = call[d]
           /\ UNCHANGED grant
<1>1. \E g \in Grants, right \in BOOLEAN : Peek(c, g, right)
  <2>1. ASSUME NEW d \in Calls, d # c, CallStep(d) PROVE FALSE
    BY <2>1 DEF CallStep, Peek, Burn, ReadAccount, CommitUse, TypeOK
  <2>2. ~(LoopStep \/ UNCHANGED vars \/ Restart \/ \E g \in Grants : Expire(g))
    BY DEF LoopStep, CreateProfile, AcceptInvitation, DeleteProfile,
       ReadPending, CommitReset, Purge, Expire, Restart, vars, TypeOK
  <2>3. ~(Burn(c) \/ ReadAccount(c) \/ CommitUse(c))
    BY DEF Burn, ReadAccount, CommitUse
  <2> QED BY <2>1, <2>2, <2>3 DEF Next, CallStep
<1>2. PICK g \in Grants, right \in BOOLEAN : Peek(c, g, right)
  BY <1>1
<1>3. call' = [call EXCEPT ![c] =
                 [pc |-> IF Valid(g) THEN "peeked" ELSE "refused",
                  grant |-> g, right |-> right, seen |-> grant[g].attempts]]
      /\ prior' = [prior EXCEPT ![c] = {d \in Calls : Ended(d)}]
      /\ UNCHANGED grant
  BY <1>2 DEF Peek
<1>4. call'[c].pc = (IF Valid(g) THEN "peeked" ELSE "refused")
      /\ call'[c].grant = g
  BY <1>3 DEF TypeOK
<1>5. prior'[c] = {d \in Calls : Ended(d)}
  BY <1>3 DEF TypeOK
<1>6. \A d \in Calls \ {c} : call'[d] = call[d]
  BY <1>3 DEF TypeOK
<1> QED BY <1>1, <1>3, <1>4, <1>5, <1>6

\* UseInv is inductive: a call that begins after the use of its grant was
\* committed is refused by peek_action_token.
LEMMA UseStep == LatestInv /\ UseInv /\ [Next]_vars => UseInv'
<1> SUFFICES ASSUME LatestInv, UseInv, [Next]_vars PROVE UseInv'
  OBVIOUS
<1>0. TypeOK /\ TypeOK'
  BY TypeStep DEF LatestInv
<1>1. ASSUME NEW c \in Calls, call'[c].pc = "signedIn"
      PROVE  grant'[call'[c].grant].used
  <2>1. call[c].pc # "none"
    BY <1>0, <1>1, CallBegins
  <2>2. call'[c].grant = call[c].grant /\ call[c].grant \in Grants
        /\ grant[call[c].grant].row # "none"
    BY <1>0, <2>1, CallFrame DEF LatestInv, MintInv, TypeOK
  <2>3. CASE call[c].pc = "signedIn"
    BY <2>2, <2>3, UsedStays DEF UseInv
  <2>4. CASE call[c].pc # "signedIn"
    <3>1. CommitUse(c)
      BY <1>0, <1>1, <2>1, <2>4, CallFrame
    <3> QED BY <1>0, <2>2, <3>1 DEF CommitUse, TypeOK, GrantRows
  <2> QED BY <2>3, <2>4
<1>2. ASSUME NEW c \in Calls, call'[c].pc # "none", NEW d \in prior'[c]
      PROVE  d \in Calls /\ Ended(d) /\ call'[d] = call[d]
  <2>1. d \in Calls /\ Ended(d)
    BY <1>0, <1>2, CallBegins, CallFrame DEF UseInv, TypeOK
  <2>2. call[d].pc # "none"
    BY <2>1 DEF Ended
  <2> QED BY <1>0, <2>1, <2>2, CallFrame
<1>3. ASSUME NEW c \in Calls, NEW d \in Calls,
             call'[c].pc # "none", d \in prior'[c],
             call'[d].pc = "signedIn", call'[d].grant = call'[c].grant
      PROVE  call'[c].pc \notin {"peeked", "answered", "signedIn"}
  <2>1. call[d].pc = "signedIn" /\ call[d].grant = call'[d].grant
    BY <1>2, <1>3
  <2>2. CASE call[c].pc = "none"
    <3>1. grant[call[d].grant].used
      BY <2>1 DEF UseInv
    <3>2. ~Valid(call'[c].grant)
      BY <1>3, <2>1, <3>1 DEF Valid
    <3> QED BY <1>0, <1>3, <2>2, <3>2, CallBegins
  <2>3. CASE call[c].pc # "none"
    <3>1. prior'[c] = prior[c] /\ call'[c].grant = call[c].grant
      BY <1>0, <2>3, CallFrame
    <3>2. call[c].pc \notin {"peeked", "answered", "signedIn"}
      BY <1>3, <2>1, <2>3, <3>1 DEF UseInv
    <3> QED BY <1>0, <2>3, <3>2, CallFrame
  <2> QED BY <2>2, <2>3
<1>4. \A c \in Calls : call'[c].pc # "none" =>
        \A d \in prior'[c] : Ended(d)'
  BY <1>2 DEF Ended
<1> QED BY <1>1, <1>3, <1>4 DEF UseInv

\* A grant signs in once, for calls that do not overlap (login_with_code).
THEOREM SecondUseRefused == Spec => []NoSecondSignIn
<1>1. Init => LatestInv /\ UseInv
  BY LatestInit DEF Init, UseInv, NoCall
<1>2. LatestInv /\ UseInv => NoSecondSignIn
  <2> SUFFICES ASSUME LatestInv, UseInv, NEW c \in Calls, NEW d \in Calls,
                      d \in prior[c], call[d].pc = "signedIn",
                      call[d].grant = call[c].grant
               PROVE  call[c].pc \notin {"answered", "signedIn"}
    BY DEF NoSecondSignIn
  <2> QED BY DEF UseInv
<1>3. LatestInv /\ UseInv /\ [Next]_vars => (LatestInv /\ UseInv)'
  BY LatestStep, UseStep
<1> QED BY <1>1, <1>2, <1>3, PTL DEF Spec

-----------------------------------------------------------------------------
(* What a valid grant is lost by *)

\* A grant that is not revoked has attempts left, a call that has yet to
\* compare its code saw one left, and the request on the loop revokes grants
\* of its own member.
SpendInv ==
    /\ \A g \in Grants :
         grant[g].row # "none" /\ ~grant[g].revoked => grant[g].attempts > 0
    /\ \A c \in Calls : call[c].pc = "peeked" => call[c].seen > 0
    /\ \A g \in ask.pending : g \in Grants /\ grant[g].owner = ask.user

\* A step that is no mint leaves grant g as it is, marks it, or is the burn of
\* a call on it.
LEMMA GrantEffect ==
    ASSUME TypeOK, [Next]_vars, NEW g \in Grants
    PROVE  \/ grant'[g] = grant[g]
           \/ Purge(g)
           \/ Expire(g)
           \/ \E c \in Calls : call[c].grant = g /\ (Burn(c) \/ CommitUse(c))
           \/ \E h \in Grants : CommitReset(h)
           \/ \E m \in Members : CreateProfile(m, g)
<1>1. CASE UNCHANGED grant
  BY <1>1
<1>2. ASSUME NEW h \in Grants, h # g, Purge(h) \/ Expire(h)
      PROVE  grant'[g] = grant[g]
  BY <1>2 DEF Purge, Expire, TypeOK
<1>3. ASSUME NEW h \in Grants, h # g, NEW m \in Members, CreateProfile(m, h)
      PROVE  grant'[g] = grant[g]
  BY <1>3 DEF CreateProfile, TypeOK
<1>4. ASSUME NEW c \in Calls, call[c].grant # g, Burn(c) \/ CommitUse(c)
      PROVE  grant'[g] = grant[g]
  BY <1>4 DEF Burn, CommitUse, TypeOK
<1> QED
  BY <1>1, <1>2, <1>3, <1>4 DEF Next, LoopStep, CallStep, vars,
     AcceptInvitation, DeleteProfile, ReadPending, Peek, ReadAccount, Restart

\* What the burn of a call writes to its grant (OtpService.verify).
LEMMA BurnEffect ==
    ASSUME TypeOK, NEW c \in Calls, call[c].pc = "peeked", call[c].seen > 0,
           Burn(c)
    PROVE  /\ call[c].grant \in Grants
           /\ call'[c] = [call[c] EXCEPT !.pc = "burned"]
           /\ \A d \in Calls \ {c} : call'[d] = call[d]
           /\ grant'[call[c].grant] =
                [grant[call[c].grant] EXCEPT
                   !.attempts = call[c].seen - 1,
                   !.revoked = grant[call[c].grant].revoked \/ call[c].seen <= 1]
<1>1. call[c].grant \in Grants
  BY DEF TypeOK
<1> QED
  BY <1>1 DEF Burn, TypeOK

\* A call keeps the count it saw.
LEMMA SeenKept ==
    ASSUME TypeOK, [Next]_vars, NEW c \in Calls, call[c].pc # "none"
    PROVE  call'[c].seen = call[c].seen
<1>1. ASSUME NEW d \in Calls, CallStep(d) PROVE call'[c].seen = call[c].seen
  BY <1>1 DEF CallStep, Peek, Burn, ReadAccount, CommitUse, TypeOK, CallStates
<1>2. CASE Restart
  BY <1>2 DEF Restart, TypeOK, CallStates
<1>3. CASE LoopStep \/ UNCHANGED vars \/ \E g \in Grants : Expire(g)
  BY <1>3 DEF LoopStep, CreateProfile, AcceptInvitation, DeleteProfile,
     ReadPending, CommitReset, Purge, Expire, vars
<1> QED
  BY <1>1, <1>2, <1>3 DEF Next

\* SpendInv is inductive.
LEMMA SpendStep == LatestInv /\ SpendInv /\ [Next]_vars => SpendInv'
<1> SUFFICES ASSUME LatestInv, SpendInv, [Next]_vars PROVE SpendInv'
  OBVIOUS
<1>0. TypeOK /\ TypeOK'
  BY TypeStep DEF LatestInv
<1>1. ASSUME NEW g \in Grants, grant'[g].row # "none", ~grant'[g].revoked
      PROVE  grant'[g].attempts > 0
  <2> grant[g] \in GrantRows
    BY <1>0 DEF TypeOK
  <2>1. CASE grant'[g] = grant[g]
    BY <1>1, <2>1 DEF SpendInv
  <2>2. CASE Purge(g) \/ Expire(g)
    <3>1. /\ grant'[g].attempts = grant[g].attempts
          /\ grant'[g].revoked = grant[g].revoked
          /\ grant[g].row # "none"
      BY <1>0, <2>2 DEF Purge, Expire, TypeOK, GrantRows
    <3> QED
      BY <1>1, <3>1 DEF SpendInv
  <2>3. ASSUME NEW c \in Calls, call[c].grant = g, Burn(c)
        PROVE  grant'[g].attempts > 0
    <3>1. call[c].pc = "peeked" /\ call[c].seen > 0 /\ call[c].seen \in Nat
      BY <1>0, <2>3, RecoveryAssumption DEF Burn, SpendInv, TypeOK, CallStates
    <3>2. grant'[g] = [grant[g] EXCEPT
                         !.attempts = call[c].seen - 1,
                         !.revoked = grant[g].revoked \/ call[c].seen <= 1]
      BY <1>0, <2>3, <3>1, BurnEffect
    <3>3. grant'[g].attempts = call[c].seen - 1
      BY <3>2 DEF GrantRows
    <3>4. grant'[g].revoked = (grant[g].revoked \/ call[c].seen <= 1)
      BY <3>2 DEF GrantRows
    <3>5. ~(call[c].seen <= 1)
      BY <1>1, <3>4
    <3> QED
      BY <3>1, <3>3, <3>5
  <2>4. ASSUME NEW c \in Calls, call[c].grant = g, CommitUse(c)
        PROVE  grant'[g].attempts > 0
    <3>1. /\ grant'[g].attempts = grant[g].attempts
          /\ grant'[g].revoked = grant[g].revoked
          /\ grant'[g].row = grant[g].row
      BY <1>0, <2>4 DEF CommitUse, TypeOK, GrantRows
    <3> QED
      BY <1>1, <3>1 DEF SpendInv
  <2>5. ASSUME NEW m \in Members, grant'[g] = Minted(m)
        PROVE  grant'[g].attempts > 0
    BY <2>5, RecoveryAssumption DEF Minted
  <2>6. ASSUME NEW h \in Grants, CommitReset(h) PROVE grant'[g].attempts > 0
    <3>1. CASE g = h
      BY <1>0, <2>5, <2>6, <3>1 DEF CommitReset, LatestInv, AskInv
    <3>2. CASE g # h
      <4>1. grant'[g] = [grant[g] EXCEPT
                           !.revoked = grant[g].revoked \/ g \in ask.pending]
        BY <2>6, <3>2 DEF CommitReset
      <4>2. /\ grant'[g].attempts = grant[g].attempts
            /\ grant'[g].row = grant[g].row
            /\ ~grant[g].revoked
        BY <1>1, <4>1 DEF GrantRows
      <4> QED
        BY <1>1, <4>2 DEF SpendInv
    <3> QED
      BY <3>1, <3>2
  <2>7. ASSUME NEW m \in Members, CreateProfile(m, g)
        PROVE  grant'[g].attempts > 0
    BY <1>0, <2>5, <2>7 DEF CreateProfile, TypeOK
  <2> QED
    BY <1>0, <2>1, <2>2, <2>3, <2>4, <2>6, <2>7, GrantEffect
<1>2. ASSUME NEW c \in Calls, call'[c].pc = "peeked" PROVE call'[c].seen > 0
  <2>1. CASE call[c].pc = "none"
    <3>1. PICK g \in Grants, right \in BOOLEAN : Peek(c, g, right)
      BY <1>0, <1>2, <2>1, CallBegins
    <3>2. call'[c].seen = grant[g].attempts
          /\ call'[c].pc = (IF Valid(g) THEN "peeked" ELSE "refused")
      BY <1>0, <3>1 DEF Peek, TypeOK
    <3> QED
      BY <1>2, <3>2 DEF SpendInv, Valid
  <2>2. CASE call[c].pc # "none"
    <3>1. call[c].pc = "peeked"
      BY <1>0, <1>2, <2>2, CallFrame
    <3>2. call'[c].seen = call[c].seen
      BY <1>0, <1>2, <2>2, SeenKept
    <3> QED
      BY <3>1, <3>2 DEF SpendInv
  <2> QED
    BY <2>1, <2>2
<1>3. ASSUME NEW g \in ask'.pending
      PROVE  g \in Grants /\ grant'[g].owner = ask'.user
  <2>1. CASE \E m \in Members : ReadPending(m)
    BY <2>1 DEF ReadPending
  <2>2. CASE ask' = Idle
    BY <1>3, <2>2 DEF Idle
  <2>3. CASE ask' = ask
    <3>1. g \in Grants /\ grant[g].owner = ask.user /\ grant[g].row # "none"
          /\ ask # Idle
      BY <1>3, <2>3 DEF SpendInv, LatestInv, AskInv, Idle
    <3>2. ~(\E m \in Members, h \in Grants : CreateProfile(m, h))
          /\ ~(\E h \in Grants : CommitReset(h))
      BY <2>3, <3>1 DEF CreateProfile, CommitReset, LoopIdle
    <3>3. grant'[g].owner = grant[g].owner
      BY <1>0, <3>1, <3>2, GrantsWane DEF LatestInv, Wanes
    <3> QED
      BY <2>3, <3>1, <3>3
  <2> QED
    BY <2>1, <2>2, <2>3 DEF Next, LoopStep, CallStep, vars, CreateProfile,
       AcceptInvitation, DeleteProfile, CommitReset, Purge, Peek, Burn,
       ReadAccount, CommitUse, Expire, Restart
<1> QED
  BY <1>1, <1>2, <1>3 DEF SpendInv

\* SpendInv holds at the start.
LEMMA SpendInit == Init => SpendInv
BY RecoveryAssumption DEF Init, SpendInv, NoGrant, NoCall, Idle

\* A valid grant is lost only by its use, its time, its last attempt or a
\* newer grant of its member (reset_password_request revokes what it read;
\* verify revokes with the last attempt).
THEOREM LostOnlyWhenSpent == Spec => ValidUntilSpent
<1>1. LatestInv /\ SpendInv /\ [Next]_vars =>
        [\A g \in Grants :
           Valid(g) /\ ~Valid(g)' =>
             \/ grant'[g].used \/ grant'[g].expired \/ grant'[g].attempts = 0
             \/ \E h \in Grants : /\ grant[h].row = "none"
                                  /\ grant'[h].row = "stored"
                                  /\ grant'[h].owner = grant[g].owner]_vars
  <2> SUFFICES ASSUME LatestInv, SpendInv, [Next]_vars, NEW g \in Grants,
                      Valid(g), ~Valid(g)'
               PROVE  \/ grant'[g].used \/ grant'[g].expired
                      \/ grant'[g].attempts = 0
                      \/ \E h \in Grants : /\ grant[h].row = "none"
                                           /\ grant'[h].row = "stored"
                                           /\ grant'[h].owner = grant[g].owner
    OBVIOUS
  <2>0. TypeOK /\ grant[g] \in GrantRows
    BY DEF LatestInv, TypeOK
  <2>1. CASE grant'[g] = grant[g]
    BY <2>1 DEF Valid
  <2>2. CASE Purge(g)
    BY <2>2 DEF Purge
  <2>3. CASE Expire(g)
    BY <2>0, <2>3 DEF Expire, TypeOK, GrantRows
  <2>4. ASSUME NEW c \in Calls, call[c].grant = g, Burn(c)
        PROVE  grant'[g].attempts = 0
    <3>1. call[c].pc = "peeked" /\ call[c].seen > 0 /\ call[c].seen \in Nat
      BY <2>0, <2>4, RecoveryAssumption DEF Burn, SpendInv, TypeOK, CallStates
    <3>2. grant'[g] = [grant[g] EXCEPT
                         !.attempts = call[c].seen - 1,
                         !.revoked = grant[g].revoked \/ call[c].seen <= 1]
      BY <2>0, <2>4, <3>1, BurnEffect
    <3>3. /\ grant'[g].attempts = call[c].seen - 1
          /\ grant'[g].row = grant[g].row /\ grant'[g].used = grant[g].used
          /\ grant'[g].expired = grant[g].expired
      BY <2>0, <3>2 DEF GrantRows
    <3>4. grant'[g].revoked = (grant[g].revoked \/ call[c].seen <= 1)
      BY <2>0, <3>2 DEF GrantRows
    <3>5. call[c].seen <= 1
      BY <3>3, <3>4 DEF Valid
    <3> QED
      BY <3>1, <3>3, <3>5
  <2>5. ASSUME NEW c \in Calls, call[c].grant = g, CommitUse(c)
        PROVE  grant'[g].used
    BY <2>0, <2>5 DEF CommitUse, TypeOK, GrantRows
  <2>6. ASSUME NEW h \in Grants, CommitReset(h)
        PROVE  \E i \in Grants : /\ grant[i].row = "none"
                                 /\ grant'[i].row = "stored"
                                 /\ grant'[i].owner = grant[g].owner
    <3>1. /\ ask # Idle /\ ask.user \in Members /\ grant[h].row = "none"
          /\ grant'[h] = Minted(ask.user) /\ g # h
      BY <2>0, <2>6 DEF CommitReset, NextGrant, Valid, TypeOK, LatestInv,
         AskInv
    <3>2. grant'[g] = [grant[g] EXCEPT
                         !.revoked = grant[g].revoked \/ g \in ask.pending]
      BY <2>6, <3>1 DEF CommitReset
    <3>3. g \in ask.pending
      BY <2>0, <3>2 DEF Valid, GrantRows
    <3> QED
      BY <3>1, <3>3, MintedType DEF SpendInv
  <2>7. ~(\E m \in Members : CreateProfile(m, g))
    BY DEF CreateProfile, NextGrant, Valid
  <2> QED
    BY <2>0, <2>1, <2>2, <2>3, <2>4, <2>5, <2>6, <2>7, GrantEffect
<1>2. LatestInv /\ SpendInv /\ [Next]_vars => (LatestInv /\ SpendInv)'
  BY LatestStep, SpendStep
<1> QED
  BY <1>1, <1>2, LatestInit, SpendInit, PTL DEF Spec, ValidUntilSpent

-----------------------------------------------------------------------------
(* Every mismatch costs an attempt *)

\* No two calls on grant g overlap.
Apart(g) == \A c, d \in On(g) : c = d \/ c \in prior[d] \/ d \in prior[c]

Burned(g) == {c \in On(g) : call[c].pc = "burned"}

\* The count, and what makes the next burn keep it: the call that has yet to
\* compare its code saw the count as it stands.
CountInv ==
    \A g \in Grants : Apart(g) =>
        /\ IsFiniteSet(Burned(g))
        /\ grant[g].attempts + Cardinality(Burned(g)) = MaxAttempts
        /\ \A c \in On(g) :
             call[c].pc = "peeked" => call[c].seen = grant[g].attempts

\* Only a burn writes the count of attempts.
LEMMA AttemptsKept ==
    ASSUME LatestInv, [Next]_vars, NEW g \in Grants,
           \A c \in Calls : call[c].grant = g => ~Burn(c)
    PROVE  grant'[g].attempts = grant[g].attempts
<1>0. TypeOK /\ MintInv /\ grant[g] \in GrantRows
  BY DEF LatestInv, TypeOK
<1>1. CASE grant'[g] = grant[g]
  BY <1>1
<1>2. CASE Purge(g) \/ Expire(g)
  BY <1>0, <1>2 DEF Purge, Expire, TypeOK, GrantRows
<1>3. ASSUME NEW c \in Calls, call[c].grant = g, CommitUse(c)
      PROVE  grant'[g].attempts = grant[g].attempts
  BY <1>0, <1>3 DEF CommitUse, TypeOK, GrantRows
<1>4. ASSUME NEW m \in Members, NextGrant(g), grant'[g] = Minted(m)
      PROVE  grant'[g].attempts = grant[g].attempts
  <2>1. grant[g] = NoGrant
    BY <1>0, <1>4 DEF NextGrant, MintInv
  <2> QED
    BY <1>4, <2>1 DEF Minted, NoGrant
<1>5. ASSUME NEW h \in Grants, CommitReset(h)
      PROVE  grant'[g].attempts = grant[g].attempts
  <2>1. CASE g = h
    BY <1>0, <1>4, <1>5, <2>1 DEF CommitReset, LatestInv, AskInv
  <2>2. CASE g # h
    <3>1. grant'[g] = [grant[g] EXCEPT
                         !.revoked = grant[g].revoked \/ g \in ask.pending]
      BY <1>5, <2>2 DEF CommitReset
    <3> QED
      BY <1>0, <3>1 DEF GrantRows
  <2> QED
    BY <2>1, <2>2
<1>6. ASSUME NEW m \in Members, CreateProfile(m, g)
      PROVE  grant'[g].attempts = grant[g].attempts
  BY <1>0, <1>4, <1>6 DEF CreateProfile, TypeOK
<1> QED
  BY <1>0, <1>1, <1>2, <1>3, <1>5, <1>6, GrantEffect

\* A call burns an attempt by its own step, and is on its grant from Peek on.
LEMMA BurnedByBurn ==
    ASSUME TypeOK, [Next]_vars, NEW c \in Calls, call'[c].pc = "burned"
    PROVE  /\ call[c].pc # "none" /\ call'[c].grant = call[c].grant
           /\ call[c].pc = "burned" \/ Burn(c)
<1>1. call[c].pc # "none"
  BY CallBegins
<1>2. call'[c].grant = call[c].grant
  BY <1>1, CallFrame
<1>3. call[c].pc = "burned" \/ Burn(c)
  <2>1. ASSUME NEW d \in Calls, d # c, CallStep(d) PROVE call'[c] = call[c]
    BY <2>1 DEF CallStep, Peek, Burn, ReadAccount, CommitUse, TypeOK
  <2>2. CASE CallStep(c) /\ ~Burn(c)
    BY <2>2 DEF CallStep, Peek, ReadAccount, CommitUse, TypeOK, CallStates
  <2>3. CASE Restart
    BY <2>3 DEF Restart, TypeOK, CallStates
  <2>4. CASE LoopStep \/ UNCHANGED vars \/ \E g \in Grants : Expire(g)
    BY <2>4 DEF LoopStep, CreateProfile, AcceptInvitation, DeleteProfile,
       ReadPending, CommitReset, Purge, Expire, vars
  <2> QED
    BY <2>1, <2>2, <2>3, <2>4 DEF Next
<1> QED
  BY <1>1, <1>2, <1>3

\* Calls on a grant that do not overlap after a step did not before.
LEMMA ApartBefore ==
    ASSUME TypeOK, [Next]_vars, NEW g \in Grants, Apart(g)'
    PROVE  Apart(g)
<1> SUFFICES ASSUME NEW c \in On(g), NEW d \in On(g)
             PROVE  c = d \/ c \in prior[d] \/ d \in prior[c]
  BY DEF Apart
<1>1. /\ c \in Calls /\ call[c].pc # "none" /\ call[c].grant = g
      /\ d \in Calls /\ call[d].pc # "none" /\ call[d].grant = g
  BY DEF On
<1>2. c \in On(g)' /\ d \in On(g)'
  BY <1>1, CallFrame DEF On
<1>3. prior'[c] = prior[c] /\ prior'[d] = prior[d]
  BY <1>1, CallFrame
<1> QED
  BY <1>2, <1>3 DEF Apart

\* CountInv is inductive: where calls do not overlap, only one can be between
\* its reading of the count and its write.
LEMMA CountStep ==
    LatestInv /\ UseInv /\ SpendInv /\ CountInv /\ [Next]_vars => CountInv'
<1> SUFFICES ASSUME LatestInv, UseInv, SpendInv, CountInv, [Next]_vars,
                    NEW g \in Grants, Apart(g)'
             PROVE  /\ IsFiniteSet(Burned(g)')
                    /\ grant'[g].attempts + Cardinality(Burned(g)') = MaxAttempts
                    /\ \A c \in On(g)' :
                         call'[c].pc = "peeked" =>
                           call'[c].seen = grant'[g].attempts
  BY DEF CountInv
<1>0. TypeOK /\ Apart(g)
  BY ApartBefore DEF LatestInv
<1>1. /\ IsFiniteSet(Burned(g))
      /\ grant[g].attempts + Cardinality(Burned(g)) = MaxAttempts
      /\ \A c \in On(g) :
           call[c].pc = "peeked" => call[c].seen = grant[g].attempts
  BY <1>0 DEF CountInv
<1>2. ASSUME NEW c \in Burned(g) PROVE c \in Burned(g)'
  <2>1. c \in Calls /\ call[c].pc = "burned" /\ call[c].grant = g
    BY DEF Burned, On
  <2>2. call'[c] = call[c]
    BY <1>0, <2>1, CallFrame DEF Ended
  <2> QED
    BY <2>1, <2>2 DEF Burned, On
<1>3. ASSUME NEW c \in Burned(g)', c \notin Burned(g)
      PROVE  c \in Calls /\ call[c].grant = g /\ Burn(c)
  <2>1. c \in Calls /\ call'[c].pc = "burned" /\ call'[c].grant = g
    BY DEF Burned, On
  <2> QED
    BY <1>0, <1>3, <2>1, BurnedByBurn DEF Burned, On
<1>4. CASE \A c \in Calls : call[c].grant = g => ~Burn(c)
  <2>1. grant'[g].attempts = grant[g].attempts
    BY <1>4, AttemptsKept
  <2>2. Burned(g)' = Burned(g)
    BY <1>2, <1>3, <1>4
  <2>3. ASSUME NEW c \in On(g)', call'[c].pc = "peeked"
        PROVE  call'[c].seen = grant'[g].attempts
    <3>1. c \in Calls /\ call'[c].grant = g
      BY DEF On
    <3>2. CASE call[c].pc = "none"
      <4>1. PICK h \in Grants, right \in BOOLEAN : Peek(c, h, right)
        BY <1>0, <2>3, <3>1, <3>2, CallBegins
      <4>2. call'[c].grant = h /\ call'[c].seen = grant[h].attempts
        BY <1>0, <3>1, <4>1 DEF Peek, TypeOK
      <4> QED
        BY <2>1, <3>1, <4>2
    <3>3. CASE call[c].pc # "none"
      <4>1. call[c].pc = "peeked" /\ call[c].grant = g
            /\ call'[c].seen = call[c].seen
        BY <1>0, <2>3, <3>1, <3>3, CallFrame, SeenKept
      <4>2. c \in On(g)
        BY <3>1, <4>1 DEF On
      <4> QED
        BY <1>1, <2>1, <4>1, <4>2
    <3> QED
      BY <3>2, <3>3
  <2> QED
    BY <1>1, <2>1, <2>2, <2>3
<1>5. ASSUME NEW c \in Calls, call[c].grant = g, Burn(c)
      PROVE  /\ IsFiniteSet(Burned(g)')
             /\ grant'[g].attempts + Cardinality(Burned(g)') = MaxAttempts
             /\ \A d \in On(g)' :
                  call'[d].pc = "peeked" => call'[d].seen = grant'[g].attempts
  <2>1. call[c].pc = "peeked" /\ call[c].seen > 0 /\ call[c].seen \in Nat
    BY <1>0, <1>5, RecoveryAssumption DEF Burn, SpendInv, TypeOK, CallStates
  <2>2. c \in On(g) /\ c \notin Burned(g) /\ call[c].seen = grant[g].attempts
    BY <1>1, <1>5, <2>1 DEF On, Burned
  <2>3. /\ call'[c] = [call[c] EXCEPT !.pc = "burned"]
        /\ \A d \in Calls \ {c} : call'[d] = call[d]
        /\ grant'[g] = [grant[g] EXCEPT
                          !.attempts = call[c].seen - 1,
                          !.revoked = grant[g].revoked \/ call[c].seen <= 1]
    BY <1>0, <1>5, <2>1, BurnEffect
  <2>4. grant'[g].attempts = grant[g].attempts - 1
    <3>1. grant[g] \in GrantRows
      BY <1>0 DEF TypeOK
    <3> QED
      BY <2>2, <2>3, <3>1 DEF GrantRows
  <2>5. call'[c].pc = "burned" /\ call'[c].grant = g
    <3>1. call[c] \in CallStates
      BY <1>0 DEF TypeOK
    <3> QED
      BY <1>5, <2>3, <3>1 DEF CallStates
  <2>6. Burned(g)' = Burned(g) \cup {c}
    <3>1. c \in Burned(g)'
      BY <2>5 DEF Burned, On
    <3>2. ASSUME NEW d \in Burned(g)', d # c PROVE d \in Burned(g)
      <4>1. d \in Calls /\ call'[d].pc = "burned" /\ call'[d].grant = g
        BY DEF Burned, On
      <4> QED
        BY <2>3, <3>2, <4>1 DEF Burned, On
    <3> QED
      BY <1>2, <3>1, <3>2
  <2>7. /\ IsFiniteSet(Burned(g)')
        /\ Cardinality(Burned(g)') = Cardinality(Burned(g)) + 1
    BY <1>1, <2>2, <2>6, FS_AddElement
  <2>8. ASSUME NEW d \in On(g)', call'[d].pc = "peeked" PROVE FALSE
    <3>1. d \in Calls /\ d # c /\ call'[d] = call[d]
      BY <2>3, <2>5, <2>8 DEF On
    <3>2. d \in On(g) /\ call[d].pc = "peeked"
      BY <2>8, <3>1 DEF On
    <3>3. c \in prior[d] \/ d \in prior[c]
      BY <1>0, <2>2, <3>1, <3>2 DEF Apart
    <3>4. Ended(c) \/ Ended(d)
      BY <2>1, <3>1, <3>2, <3>3 DEF UseInv
    <3> QED
      BY <2>1, <3>2, <3>4 DEF Ended
  <2>9. Cardinality(Burned(g)) \in Nat /\ grant[g].attempts \in Nat
    <3>1. grant[g] \in GrantRows
      BY <1>0 DEF TypeOK
    <3> QED
      BY <1>1, <3>1, FS_CardinalityType, RecoveryAssumption DEF GrantRows
  <2>10. grant'[g].attempts + Cardinality(Burned(g)') = MaxAttempts
    BY <1>1, <2>4, <2>7, <2>9
  <2> QED
    BY <2>7, <2>8, <2>10
<1> QED
  BY <1>4, <1>5

\* Every mismatch costs an attempt, for calls on a grant that do not overlap
\* (OtpService.verify commits the count it read less one).
THEOREM MismatchesCost == Spec => []MismatchesCounted
<1>1. Init => LatestInv /\ UseInv /\ SpendInv /\ CountInv
  <2>1. Init => UseInv
    BY DEF Init, UseInv, NoCall
  <2>2. Init => CountInv
    <3> SUFFICES ASSUME Init PROVE CountInv
      OBVIOUS
    <3>1. \A g \in Grants : On(g) = {} /\ Burned(g) = {}
      BY DEF Init, On, Burned, NoCall
    <3>2. \A g \in Grants : grant[g].attempts = MaxAttempts
      BY DEF Init, NoGrant
    <3> QED
      BY <3>1, <3>2, FS_EmptySet, RecoveryAssumption DEF CountInv
  <2> QED
    BY <2>1, <2>2, LatestInit, SpendInit
<1>2. LatestInv /\ UseInv /\ SpendInv /\ CountInv /\ [Next]_vars =>
        (LatestInv /\ UseInv /\ SpendInv /\ CountInv)'
  BY LatestStep, UseStep, SpendStep, CountStep
<1>3. CountInv => MismatchesCounted
  BY DEF CountInv, MismatchesCounted, Apart, Burned
<1> QED
  BY <1>1, <1>2, <1>3, PTL DEF Spec

=============================================================================
