---------------------------- MODULE SessionsProofs ----------------------------
(***************************************************************************)
(* Proofs about the sessions of the server: a request's database session   *)
(* on the event loop (EventLoop), and the members' sessions in a browser   *)
(* (Accounts).  The two modules share no name.                             *)
(*                                                                         *)
(* For any requests and any table of routes: types, and that requests      *)
(* whose routes are Disciplined never make the event loop wait for a       *)
(* transaction that only the loop can end.  For any accounts and tabs:     *)
(* types, that an undisturbed tab shows one account, and that signing out  *)
(* in it ends the session it shows.                                        *)
(***************************************************************************)
EXTENDS EventLoop, Accounts, TLAPS

(***************************************************************************)
(* The database sessions of requests                                       *)
(***************************************************************************)

\* Why a request in a phase still holds a row: it stamped its API key, or its
\* body flushed the row and has not committed it.
Holds(q, w, phase) ==
    \/ HasKey(q) /\ w = KeyRow(q)
    \/ /\ Flushes(q) /\ w = Row(q)
       /\ phase = "wrote" \/ Route[q].commit = "late"

LockInv ==
    \A w \in Rows :
        lock[w] # None => Holds(lock[w], w, pc[lock[w]])

-----------------------------------------------------------------------------

\* Every variable keeps its type, and the loop belongs to the one async body
\* that runs (the whole next-state relation).
LEMMA LoopTypeStep == LoopTypeOK /\ [LoopNext]_loopVars => LoopTypeOK'
<1> SUFFICES ASSUME LoopTypeOK, [LoopNext]_loopVars PROVE LoopTypeOK'
  OBVIOUS
<1> USE RequestsAssumption
<1>1. CASE UNCHANGED loopVars
  BY <1>1 DEF LoopTypeOK, loopVars
<1>2. ASSUME NEW r \in Requests, Step(r) PROVE LoopTypeOK'
  <2>1. Row(r) \in Rows /\ KeyRow(r) \in Rows
    BY DEF Rows
  <2>2. CASE Authenticate(r)
    BY <2>2 DEF LoopTypeOK, Authenticate, Goto, LoopFree, Phases
  <2>3. CASE ResolveKey(r)
    <3>1. lock' \in [Rows -> Requests \cup {None}]
      BY <2>1, <2>3 DEF LoopTypeOK, ResolveKey
    <3> QED BY <2>3, <3>1 DEF LoopTypeOK, ResolveKey, Goto, Phases
  <2>4. CASE Begin(r)
    BY <2>4 DEF LoopTypeOK, Begin, Goto, LoopFree, OnLoop, Phases
  <2>5. CASE Write(r)
    <3>1. lock' \in [Rows -> Requests \cup {None}]
      BY <2>1, <2>5 DEF LoopTypeOK, Write
    <3> QED BY <2>5, <3>1 DEF LoopTypeOK, Write, Goto, Phases
  <2>6. CASE Finish(r)
    <3>1. lock' \in [Rows -> Requests \cup {None}]
      BY <2>6 DEF LoopTypeOK, Finish, Release
    <3> QED BY <2>6, <3>1 DEF LoopTypeOK, Finish, Goto, Phases
  <2>7. CASE LeaveSession(r)
    BY <2>7 DEF LoopTypeOK, LeaveSession, Goto, LoopFree, Phases
  <2>8. CASE Commit(r)
    <3>1. lock' \in [Rows -> Requests \cup {None}]
      BY <2>8 DEF LoopTypeOK, Commit, Release
    <3> QED BY <2>8, <3>1 DEF LoopTypeOK, Commit, Goto, Phases
  <2> QED BY <1>2, <2>2, <2>3, <2>4, <2>5, <2>6, <2>7, <2>8 DEF Step
<1> QED BY <1>1, <1>2 DEF LoopNext, AllServed

\* LoopTypeOK holds in every reachable state.
THEOREM LoopTyping == LoopSpec => []LoopTypeOK
<1>1. LoopInit => LoopTypeOK
  BY RequestsAssumption DEF LoopInit, LoopTypeOK, Phases
<1> QED BY <1>1, LoopTypeStep, PTL DEF LoopSpec

\* Locks are taken by resolve_api_key and by the body, and go with the
\* commit, in the body or in get_session.
LEMMA LockStep == LoopTypeOK /\ LockInv /\ [LoopNext]_loopVars => LockInv'
<1> SUFFICES ASSUME LoopTypeOK, LockInv, [LoopNext]_loopVars PROVE LockInv'
  OBVIOUS
<1> USE RequestsAssumption
<1>1. CASE UNCHANGED loopVars
  BY <1>1 DEF LockInv, loopVars
<1>2. ASSUME NEW r \in Requests, Step(r) PROVE LockInv'
  <2> SUFFICES ASSUME NEW w \in Rows, lock'[w] # None
               PROVE  Holds(lock'[w], w, pc'[lock'[w]])
    BY DEF LockInv
  <2>1. PICK p \in Phases : pc' = [pc EXCEPT ![r] = p]
    BY <1>2 DEF Step, Authenticate, ResolveKey, Begin, Write, Finish,
       LeaveSession, Commit, Goto, Phases
  <2>2. lock[w] # None => Holds(lock[w], w, pc[lock[w]])
    BY DEF LockInv
  <2>3. lock[w] \in Requests \cup {None} /\ pc'[r] = p
    BY <2>1 DEF LoopTypeOK
  <2>4. lock'[w] = lock[w] \/ lock'[w] = r
    BY <1>2 DEF Step, Authenticate, ResolveKey, Begin, Write, Finish,
       LeaveSession, Commit, Release, LoopTypeOK
  <2>5. CASE lock'[w] # r
    <3>1. lock[w] = lock'[w] /\ pc'[lock[w]] = pc[lock[w]]
      BY <2>1, <2>3, <2>4, <2>5 DEF LoopTypeOK
    <3> QED BY <2>2, <3>1
  <2>6. CASE lock'[w] = r
    <3> SUFFICES Holds(r, w, p)
      BY <2>3, <2>6
    <3>1. CASE Authenticate(r) \/ Begin(r) \/ LeaveSession(r)
      <4>1. Holds(r, w, pc[r]) /\ pc[r] # "wrote"
        BY <2>2, <2>6, <3>1 DEF Authenticate, Begin, LeaveSession
      <4> QED BY <4>1 DEF Holds
    <3>2. CASE ResolveKey(r)
      <4>1. CASE HasKey(r) /\ w = KeyRow(r)
        BY <4>1 DEF Holds
      <4>2. CASE ~(HasKey(r) /\ w = KeyRow(r))
        <5>1. lock[w] = r
          BY <2>6, <3>2, <4>2 DEF ResolveKey, LoopTypeOK
        <5>2. Holds(r, w, pc[r]) /\ pc[r] # "wrote"
          BY <2>2, <3>2, <5>1 DEF ResolveKey
        <5> QED BY <5>2 DEF Holds
      <4> QED BY <4>1, <4>2
    <3>3. CASE Write(r)
      <4>1. p = "wrote"
        BY <2>3, <3>3 DEF Write, Goto, LoopTypeOK
      <4>2. CASE Flushes(r) /\ w = Row(r)
        BY <4>1, <4>2 DEF Holds
      <4>3. CASE ~(Flushes(r) /\ w = Row(r))
        <5>1. lock[w] = r
          BY <2>6, <3>3, <4>3 DEF Write, LoopTypeOK
        <5>2. Holds(r, w, pc[r])
          BY <2>2, <5>1
        <5> QED BY <4>1, <5>2 DEF Holds
      <4> QED BY <4>2, <4>3
    <3>4. CASE Finish(r)
      <4>1. Route[r].commit # "early" /\ lock[w] = r
        BY <2>6, <3>4 DEF Finish, Release, LoopTypeOK
      <4>2. Flushes(r) => Route[r].commit = "late"
        BY <4>1 DEF Flushes, Handler
      <4>3. Holds(r, w, pc[r])
        BY <2>2, <4>1
      <4> QED BY <4>2, <4>3 DEF Holds
    <3>5. CASE Commit(r)
      BY <2>6, <3>5 DEF Commit, Release, LoopTypeOK
    <3> QED BY <1>2, <3>1, <3>2, <3>3, <3>4, <3>5 DEF Step
  <2> QED BY <2>5, <2>6
<1> QED BY <1>1, <1>2 DEF LoopNext, AllServed

\* When no row written on the loop is kept locked by a route that commits
\* late or by an API key (database.py, credentials), the loop only waits for
\* a thread that is about to commit: the server cannot block itself.
THEOREM LoopNeverBlocksItself ==
    ASSUME Disciplined
    PROVE  LoopSpec => []LoopWaitsForThreadsOnly
<1>1. LoopInit => LoopTypeOK /\ LockInv
  BY RequestsAssumption DEF LoopInit, LoopTypeOK, Phases, LockInv
<1>2. LoopTypeOK /\ LockInv => LoopWaitsForThreadsOnly
  <2> SUFFICES ASSUME LoopTypeOK, LockInv, LoopWaits
               PROVE  \/ pc[lock[Row(loop)]] = "committing"
                      \/ /\ pc[lock[Row(loop)]] = "wrote"
                         /\ ~OnLoop(lock[Row(loop)])
    BY DEF LoopWaitsForThreadsOnly
  <2> DEFINE q == lock[Row(loop)]
  <2>1. loop \in Requests /\ OnLoop(loop) /\ Flushes(loop)
    BY DEF LoopTypeOK, LoopWaits
  <2>2. Row(loop) \in Rows
    BY <2>1 DEF Rows
  <2>3. q \in Requests /\ q # loop /\ Holds(q, Row(loop), pc[q])
    BY <2>1, <2>2 DEF LoopTypeOK, LoopWaits, CanLock, LockInv
  <2>4. pc[q] = "wrote"
    BY <2>1, <2>3 DEF Disciplined, Holds
  <2>5. ~OnLoop(q)
    BY <2>3, <2>4 DEF LoopTypeOK
  <2> QED BY <2>4, <2>5
<1>3. LoopTypeOK /\ LockInv /\ [LoopNext]_loopVars => (LoopTypeOK /\ LockInv)'
  BY LoopTypeStep, LockStep
<1> QED BY <1>1, <1>2, <1>3, PTL DEF LoopSpec

(***************************************************************************)
(* The members' sessions                                                   *)
(***************************************************************************)

(* The types are an invariant, for any accounts, tabs and bound. *)
THEOREM AccountsTyping == Spec => []TypeOK
<1> USE NoAccountAssumption, SignedInAssumption, MovesAssumption
    DEF Users, Pages, Keys, Nothing, Readings, Writings, NoAnswers
<1>1. Init => TypeOK
  BY DEF Init, TypeOK
<1>2. TypeOK => Active \in Users
  <2> SUFFICES ASSUME TypeOK PROVE Active \in Users
    OBVIOUS
  <2>1. CASE \E a \in Accounts : sessions = {a}
    <3>1. (CHOOSE a \in Accounts : sessions = {a}) \in Accounts
      BY <2>1
    <3> QED BY <3>1 DEF Active, Resolve, TypeOK
  <2>2. CASE ~ \E a \in Accounts : sessions = {a}
    BY <2>2 DEF Active, Resolve, TypeOK
  <2> QED BY <2>1, <2>2
<1>3. TypeOK /\ [Next]_vars => TypeOK'
  <2> SUFFICES ASSUME TypeOK, [Next]_vars PROVE TypeOK'
    OBVIOUS
  <2>1. CASE UNCHANGED vars
    BY <2>1 DEF vars, TypeOK
  <2>2. ASSUME NEW t \in Tabs, Load(t) PROVE TypeOK'
    BY <2>2 DEF Load, ClearTo, TypeOK
  <2>3. ASSUME NEW t \in Tabs, NEW k \in Keys, Fetch(t, k) PROVE TypeOK'
    BY <2>3, <1>2 DEF Fetch, Request, TypeOK
  <2>4. ASSUME NEW t \in Tabs, Fetched(t) PROVE TypeOK'
    BY <2>4 DEF Fetched, Entered, TypeOK
  <2>5. ASSUME NEW t \in Tabs, FetchFails(t) PROVE TypeOK'
    BY <2>5 DEF FetchFails, Refused, TypeOK
  <2>6. ASSUME NEW t \in Tabs, AddAccount(t) PROVE TypeOK'
    BY <2>6 DEF AddAccount, TypeOK
  <2>7. ASSUME NEW t \in Tabs, NEW a \in Accounts,
              NEW by \in {"form", "code"}, Login(t, a, by) PROVE TypeOK'
    BY <2>7 DEF Login, Move, TypeOK
  <2>8. ASSUME NEW t \in Tabs, NEW a \in Accounts, Switch(t, a) PROVE TypeOK'
    BY <2>8 DEF Switch, Move, ClearTo, ChangedBy, TypeOK
  <2>9. ASSUME NEW t \in Tabs, LoggedIn(t) PROVE TypeOK'
    BY <2>9 DEF LoggedIn, ChangedBy, TypeOK
  <2>10. ASSUME NEW t \in Tabs, Logout(t) PROVE TypeOK'
    <3>1. LogoutAnswers \subseteq Writings
      BY DEF LogoutAnswers, TypeOK
    <3> QED BY <2>10, <3>1 DEF Logout, Move, TypeOK
  <2>11. ASSUME NEW t \in Tabs, LoggedOut(t) PROVE TypeOK'
    BY <2>11 DEF LoggedOut, ClearTo, ChangedBy, TypeOK
  <2>12. ASSUME NEW t \in Tabs, LogoutAll(t) PROVE TypeOK'
    BY <2>12 DEF LogoutAll, Move, TypeOK
  <2>13. ASSUME NEW t \in Tabs, LoggedOutOfAll(t) PROVE TypeOK'
    BY <2>13 DEF LoggedOutOfAll, ClearTo, ChangedBy, TypeOK
  <2>14. ASSUME NEW t \in Tabs, WriteFails(t) PROVE TypeOK'
    BY <2>14 DEF WriteFails, TypeOK
  <2>15. ASSUME NEW a \in Accounts, Expire(a) PROVE TypeOK'
    BY <2>15 DEF Expire, Move, TypeOK
  <2>16. ASSUME NEW t \in Tabs, LeaveNext(t) PROVE TypeOK'
    BY <2>16 DEF LeaveNext, TypeOK
  <2> QED
    BY <2>1, <2>2, <2>3, <2>4, <2>5, <2>6, <2>7, <2>8, <2>9, <2>10, <2>11, <2>12,
       <2>13, <2>14, <2>15, <2>16 DEF Next
<1> QED
  BY <1>1, <1>3, PTL DEF Spec

(* What holds in a tab since it last cleared its cache, if nobody else changed *)
(* the cookies: what it caches and what it has in flight are the active        *)
(* account's, and a logout on its way is that account's.                       *)
Undisturbed(t) ==
    /\ \A k \in Keys : cache[t][k] \in {NoAccount, Active}
    /\ reading[t] # Nothing => reading[t].as = Active
    /\ writing[t].kind = "logout" => /\ writing[t].target = selector
                                     /\ cache[t]["me"] # NoAccount

Isolation == \A t \in Tabs : ~foreign[t] => Undisturbed(t)

LEMMA ActiveIsTheSelected ==
    ASSUME NEW a \in Accounts, NEW S, a \in S
    PROVE  Resolve(S, a) = a
BY DEF Resolve

LEMMA IsolationInvariant == Spec => []Isolation
<1> USE NoAccountAssumption DEF Nothing, NoAnswers
<1>1. Init => Isolation
  BY DEF Init, Isolation, Undisturbed
<1>2. TypeOK /\ Isolation /\ [Next]_vars => Isolation'
  <2> SUFFICES ASSUME TypeOK, Isolation, [Next]_vars, NEW u \in Tabs, ~foreign'[u]
               PROVE  Undisturbed(u)'
    BY DEF Isolation
  <2>0. ~foreign[u] => Undisturbed(u)
    BY DEF Isolation
  <2>0a. UNCHANGED <<sessions, selector>> => UNCHANGED Active
    BY DEF Active, Resolve
  <2>1. CASE UNCHANGED vars
    BY <2>1, <2>0, <2>0a DEF vars, Undisturbed
  <2>2. ASSUME NEW t \in Tabs, Load(t) PROVE Undisturbed(u)'
    BY <2>2, <2>0, <2>0a DEF Load, ClearTo, TypeOK, Undisturbed
  <2>3. ASSUME NEW t \in Tabs, NEW k \in Keys, Fetch(t, k) PROVE Undisturbed(u)'
    BY <2>3, <2>0, <2>0a DEF Fetch, Request, TypeOK, Undisturbed
  <2>4. ASSUME NEW t \in Tabs, Fetched(t) PROVE Undisturbed(u)'
    BY <2>4, <2>0, <2>0a DEF Fetched, TypeOK, Undisturbed, Readings
  <2>5. ASSUME NEW t \in Tabs, FetchFails(t) PROVE Undisturbed(u)'
    BY <2>5, <2>0, <2>0a DEF FetchFails, TypeOK, Undisturbed
  <2>6. ASSUME NEW t \in Tabs, AddAccount(t) PROVE Undisturbed(u)'
    BY <2>6, <2>0, <2>0a DEF AddAccount, TypeOK, Undisturbed
  <2>7. ASSUME NEW t \in Tabs, NEW a \in Accounts,
              NEW by \in {"form", "code"}, Login(t, a, by) PROVE Undisturbed(u)'
    BY <2>7, <2>0, <2>0a DEF Login, TypeOK, Undisturbed
  <2>8. ASSUME NEW t \in Tabs, NEW a \in Accounts, Switch(t, a) PROVE Undisturbed(u)'
    BY <2>8, <2>0 DEF Switch, ClearTo, ChangedBy, TypeOK, Undisturbed
  <2>9. ASSUME NEW t \in Tabs, LoggedIn(t) PROVE Undisturbed(u)'
    <3>1. u = t
      BY <2>9 DEF LoggedIn, ChangedBy
    <3>2. PICK a \in Accounts : a = writing[t].account
      BY <2>9 DEF LoggedIn, TypeOK, Writings
    <3>3. Active' = a
      BY <2>9, <3>2, ActiveIsTheSelected DEF LoggedIn, Active
    <3> QED
      BY <2>9, <3>1, <3>2, <3>3 DEF LoggedIn, TypeOK, Undisturbed
  <2>10. ASSUME NEW t \in Tabs, Logout(t) PROVE Undisturbed(u)'
    <3>1. \A w \in LogoutAnswers : w.target = selector
      BY DEF LogoutAnswers
    <3> QED
      BY <2>10, <2>0, <2>0a, <3>1 DEF Logout, Authenticated, TypeOK, Undisturbed
  <2>11. ASSUME NEW t \in Tabs, LoggedOut(t) PROVE Undisturbed(u)'
    BY <2>11, <2>0 DEF LoggedOut, ClearTo, ChangedBy, TypeOK, Undisturbed
  <2>12. ASSUME NEW t \in Tabs, LogoutAll(t) PROVE Undisturbed(u)'
    BY <2>12, <2>0, <2>0a DEF LogoutAll, TypeOK, Undisturbed
  <2>13. ASSUME NEW t \in Tabs, LoggedOutOfAll(t) PROVE Undisturbed(u)'
    BY <2>13, <2>0 DEF LoggedOutOfAll, ClearTo, ChangedBy, TypeOK, Undisturbed
  <2>14. ASSUME NEW t \in Tabs, WriteFails(t) PROVE Undisturbed(u)'
    BY <2>14, <2>0, <2>0a DEF WriteFails, TypeOK, Undisturbed
  <2>15. ASSUME NEW a \in Accounts, Expire(a) PROVE Undisturbed(u)'
    BY <2>15 DEF Expire
  <2>16. ASSUME NEW t \in Tabs, LeaveNext(t) PROVE Undisturbed(u)'
    BY <2>16, <2>0, <2>0a DEF LeaveNext, TypeOK, Undisturbed
  <2> QED
    BY <2>1, <2>2, <2>3, <2>4, <2>5, <2>6, <2>7, <2>8, <2>9, <2>10, <2>11, <2>12,
       <2>13, <2>14, <2>15, <2>16 DEF Next
<1> QED
  BY <1>1, <1>2, AccountsTyping, PTL DEF Spec

(* A tab nobody disturbed renders only the data of the account it acts as. *)
THEOREM UndisturbedTabsAreIsolated == Spec => []UndisturbedTabIsOneAccount
<1>1. Isolation => UndisturbedTabIsOneAccount
  BY DEF Isolation, Undisturbed, UndisturbedTabIsOneAccount, Owners
<1> QED
  BY <1>1, IsolationInvariant, PTL

(* Signing out in an undisturbed tab ends at most the session it shows. *)
THEOREM SigningOutEndsTheShown == Spec => OnlyTheShownSignsOut
<1> DEFINE Ended(t) == LoggedOut(t) /\ ~foreign[t] =>
                           sessions \ sessions' \subseteq {cache[t]["me"]}
<1>1. TypeOK /\ Isolation => \A t \in Tabs : Ended(t)
  <2> SUFFICES ASSUME TypeOK, Isolation, NEW t \in Tabs, LoggedOut(t), ~foreign[t],
                      NEW a \in sessions \ sessions'
               PROVE  a = cache[t]["me"]
    OBVIOUS
  <2>1. Undisturbed(t)
    BY DEF Isolation
  <2>2. a = selector
    BY <2>1 DEF LoggedOut, Undisturbed
  <2>3. Active = a
    BY <2>2, ActiveIsTheSelected DEF TypeOK, Active
  <2> QED
    BY <2>1, <2>3 DEF LoggedOut, Undisturbed, Keys
<1>2. TypeOK /\ Isolation /\ [Next]_vars => [\A t \in Tabs : Ended(t)]_vars
  BY <1>1
<1> QED
  BY <1>2, AccountsTyping, IsolationInvariant, PTL DEF Spec, OnlyTheShownSignsOut

===============================================================================
