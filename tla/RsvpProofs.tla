----------------------------- MODULE RsvpProofs -----------------------------
(***************************************************************************)
(* Proofs about Rsvp, for any members, events, cooldown and time.          *)
(***************************************************************************)
EXTENDS Rsvp, SequenceTheorems, TLAPS

USE RsvpAssumption

\* The three ways _log_response_change may change a log, entry by entry.
Dropped(l, L, v) ==
    /\ Recent(l) /\ LastChange(l).from = v
    /\ Len(L) = Len(l) - 1
    /\ \A i \in 1 .. Len(L) : L[i] = l[i]

Amended(l, L, v) ==
    /\ Recent(l) /\ LastChange(l).from # v
    /\ Len(L) = Len(l)
    /\ \A i \in 1 .. Len(l) - 1 : L[i] = l[i]
    /\ L[Len(L)] = [from |-> LastChange(l).from, to |-> v, at |-> now]

Appended(l, L, previous, v) ==
    /\ ~Recent(l)
    /\ Len(L) = Len(l) + 1
    /\ \A i \in 1 .. Len(l) : L[i] = l[i]
    /\ L[Len(L)] = [from |-> previous, to |-> v, at |-> now]

\* A log that is not empty has a last entry.
LEMMA LastOfLog ==
    ASSUME NEW l \in Seq(Changes), l # <<>>
    PROVE  Len(l) \in Nat \ {0} /\ LastChange(l) \in Changes
<1>1. Len(l) \in Nat /\ Len(l) # 0
  BY EmptySeq
<1> QED
  BY <1>1, ElementOfSeq DEF LastChange

\* Logged does one of the three, and yields a log.
LEMMA LoggedCases ==
    ASSUME NEW l \in Seq(Changes), NEW previous \in Answers,
           NEW v \in Values, now \in Times
    PROVE  LET L == Logged(l, previous, v)
           IN  /\ L \in Seq(Changes)
               /\ \/ Dropped(l, L, v)
                  \/ Amended(l, L, v)
                  \/ Appended(l, L, previous, v)
<1> DEFINE L == Logged(l, previous, v)
<1>1. CASE Recent(l) /\ LastChange(l).from = v
  <2>1. l # <<>>
    BY <1>1 DEF Recent
  <2>2. L = SubSeq(l, 1, Len(l) - 1)
    BY <1>1 DEF Logged
  <2>3. Len(l) - 1 \in Nat /\ Len(l) - 1 <= Len(l)
    BY <2>1, LastOfLog
  <2>4. /\ L \in Seq(Changes) /\ Len(L) = Len(l) - 1
        /\ \A i \in 1 .. Len(L) : L[i] = l[i]
    <3> DEFINE n == Len(l) - 1
    <3>1. n \in Nat /\ \A i \in 1 .. n : l[i] \in Changes
      BY <2>3, ElementOfSeq
    <3>2. L = SubSeq(l, 1, n)
      BY <2>2
    <3> HIDE DEF n, L
    <3>3. /\ L \in Seq(Changes)
          /\ Len(L) = IF 1 <= n THEN n - 1 + 1 ELSE 0
          /\ \A i \in 1 .. n - 1 + 1 : L[i] = l[1 + i - 1]
      BY <3>1, <3>2, SubSeqProperties
    <3>4. Len(L) = n /\ \A i \in 1 .. n : L[i] = l[i]
      BY <3>1, <3>3
    <3> QED
      BY <3>3, <3>4 DEF n
  <2> QED
    BY <1>1, <2>4 DEF Dropped
<1>2. CASE Recent(l) /\ LastChange(l).from # v
  <2>1. l # <<>>
    BY <1>2 DEF Recent
  <2> DEFINE c == [from |-> LastChange(l).from, to |-> v, at |-> now]
  <2>2. L = [l EXCEPT ![Len(l)] = c]
    BY <1>2, <2>1, LastOfLog DEF Logged, LastChange
  <2>3. c \in Changes
    BY <2>1, LastOfLog DEF Changes
  <2>4. Len(l) \in 1 .. Len(l)
    BY <2>1, LastOfLog
  <2> HIDE DEF c
  <2>5. L \in Seq(Changes) /\ Len(L) = Len(l)
    BY <2>2, <2>3, <2>4
  <2>6. L[Len(L)] = c /\ \A i \in 1 .. Len(l) - 1 : L[i] = l[i]
    BY <2>2, <2>4, <2>5
  <2> QED
    BY <1>2, <2>5, <2>6 DEF Amended, c
<1>3. CASE ~Recent(l)
  <2> DEFINE c == [from |-> previous, to |-> v, at |-> now]
  <2>1. L = Append(l, c)
    BY <1>3 DEF Logged
  <2>2. c \in Changes
    BY DEF Changes
  <2> HIDE DEF c
  <2>3. /\ L \in Seq(Changes) /\ Len(L) = Len(l) + 1 /\ L[Len(L)] = c
        /\ \A i \in 1 .. Len(l) : L[i] = l[i]
    BY <2>1, <2>2
  <2> QED
    BY <1>3, <2>3 DEF Appended, c
<1> QED
  BY <1>1, <1>2, <1>3

\* The data are well formed, and nothing is kept of an event that does not
\* exist: deleting an event takes its answers and their log.
THEOREM TypeCorrect == Spec => []TypeOK
<1> USE DEF Answers
<1>1. Init => TypeOK
  <2> SUFFICES ASSUME Init
               PROVE  TypeOK
    OBVIOUS
  <2>1. Cooldown \in Times /\ 0 \in Times
    BY DEF Times
  <2>2. log \in [Pairs -> Seq(Changes)] /\ \A p \in Pairs : log[p] = <<>>
    BY EmptySeq DEF Init
  <2>3. \A p \in Pairs : event[p[2]] \in {"none", "live"}
    BY DEF Init, Pairs
  <2> QED
    BY <2>1, <2>2, <2>3 DEF Init, TypeOK
<1>2. TypeOK /\ [Next]_vars => TypeOK'
  <2> SUFFICES ASSUME TypeOK, [Next]_vars
               PROVE  TypeOK'
    OBVIOUS
  <2>1. ASSUME NEW p \in Pairs, NEW v \in Values, Respond(p, v)
        PROVE  TypeOK'
    <3>1. Logged(log[p], response[p], v) \in Seq(Changes)
      BY LoggedCases DEF TypeOK
    <3>2. \A q \in Pairs : event[q[2]] # "live" => q # p
      BY <2>1 DEF Respond
    <3> QED
      BY <2>1, <3>1, <3>2 DEF Respond, TypeOK
  <2>2. ASSUME NEW e \in Events, CreateEvent(e)
        PROVE  TypeOK'
    BY <2>2 DEF CreateEvent, TypeOK, Pairs
  <2>3. ASSUME NEW e \in Events, DeleteEvent(e)
        PROVE  TypeOK'
    <3>1. log' \in [Pairs -> Seq(Changes)]
      BY <2>3, EmptySeq DEF DeleteEvent, Cascade, TypeOK
    <3>2. ASSUME NEW p \in Pairs, event'[p[2]] # "live"
          PROVE  response'[p] = None /\ log'[p] = <<>>
      BY <2>3, <3>2 DEF DeleteEvent, Cascade, TypeOK, Pairs
    <3> QED
      BY <2>3, <3>1, <3>2 DEF DeleteEvent, Cascade, TypeOK
  <2>4. CASE Tick
    BY <2>4 DEF Tick, TypeOK, Times
  <2>5. CASE UNCHANGED vars
    BY <2>5 DEF vars, TypeOK
  <2> QED
    BY <2>1, <2>2, <2>3, <2>4, <2>5 DEF Next, RespondInVain
<1> QED
  BY <1>1, <1>2, PTL DEF Spec

-----------------------------------------------------------------------------

\* The conjuncts of LogIsAStory for a log l that ends at the answer r.
Story(l, r) ==
    /\ \A i \in 1 .. Len(l) : l[i].from # l[i].to
    /\ \A i \in 2 .. Len(l) :
          /\ l[i].from = l[i - 1].to
          /\ l[i].at >= l[i - 1].at + Cooldown
    /\ l # <<>> => LastChange(l).to = r

\* What relates the log, the answer and the time it was given: the last entry
\* is no younger than the answer; while it may be amended the answer differs
\* from the one that stood; and a young answer that is not in a young entry
\* is the one that stood, come back.
Timed(l, r, st, sn) ==
    /\ sn <= now
    /\ l # <<>> => LastChange(l).at <= sn
    /\ Recent(l) => r # st
    /\ now - sn < Cooldown => r = st \/ (l # <<>> /\ LastChange(l).at = sn)
    /\ r # st => l # <<>> /\ LastChange(l).from = st

StoryInv ==
    \A p \in Pairs :
        /\ Story(log[p], response[p])
        /\ Timed(log[p], response[p], stood[p], since[p])

\* _log_response_change keeps the story and its timing.
LEMMA ResponseTold ==
    ASSUME NEW l \in Seq(Changes), NEW r \in Answers, NEW st \in Answers,
           NEW sn \in Times, NEW v \in Values, v # r, now \in Times,
           Story(l, r), Timed(l, r, st, sn)
    PROVE  LET L == Logged(l, r, v)
           IN  /\ Story(L, v)
               /\ Timed(L, v, IF now - sn >= Cooldown THEN r ELSE st, now)
<1> DEFINE L == Logged(l, r, v)
           St == IF now - sn >= Cooldown THEN r ELSE st
<1> USE DEF Answers
<1> SUFFICES Story(L, v) /\ Timed(L, v, St, now)
  OBVIOUS
<1>0. L \in Seq(Changes)
  BY LoggedCases
<1>1. /\ Len(l) \in Nat /\ Len(L) \in Nat
      /\ now \in Nat /\ sn \in Nat /\ Cooldown \in Nat
  BY <1>0 DEF Times
<1>2. /\ \A i \in 1 .. Len(l) : l[i].at \in Nat
      /\ l # <<>> => Len(l) >= 1 /\ LastChange(l) = l[Len(l)]
  <2>1. \A i \in 1 .. Len(l) : l[i] \in Changes
    BY ElementOfSeq
  <2>2. \A c \in Changes : c.at \in Nat
    BY DEF Changes, Times
  <2>3. l # <<>> => Len(l) \in Nat \ {0}
    BY LastOfLog
  <2> QED
    BY <2>1, <2>2, <2>3 DEF LastChange
<1>3. L # <<>> => Len(L) >= 1 /\ LastChange(L) = L[Len(L)]
  BY <1>0, <1>1, LastOfLog DEF LastChange
<1>4. (L = <<>>) <=> (Len(L) = 0)
  BY <1>0, EmptySeq
<1>5. Dropped(l, L, v) \/ Amended(l, L, v) \/ Appended(l, L, r, v)
  BY LoggedCases
<1> HIDE DEF L, St
<1>6. CASE Dropped(l, L, v)
  <2>1. /\ l # <<>> /\ now - LastChange(l).at < Cooldown
        /\ LastChange(l).from = v
    BY <1>6 DEF Dropped, Recent
  <2>2. Len(L) = Len(l) - 1 /\ \A i \in 1 .. Len(L) : L[i] = l[i]
    BY <1>6 DEF Dropped
  <2>3. st = v /\ now - sn < Cooldown /\ St = v
    BY <1>1, <1>2, <1>6, <2>1 DEF Timed, Dropped, St
  <2>4. L # <<>> => /\ LastChange(L) = l[Len(l) - 1]
                    /\ Len(l) \in 2 .. Len(l)
                    /\ LastChange(L).to = v
                    /\ LastChange(l).at >= LastChange(L).at + Cooldown
                    /\ LastChange(L).at \in Nat
    BY <1>1, <1>2, <1>3, <2>1, <2>2 DEF Story
  <2>5. Story(L, v)
    BY <1>1, <2>2, <2>4 DEF Story
  <2>6. ~Recent(L)
    <3>1. CASE L = <<>>
      BY <3>1 DEF Recent
    <3>2. CASE L # <<>>
      <4>1. /\ LastChange(l).at <= now /\ LastChange(L).at \in Nat
            /\ LastChange(l).at >= LastChange(L).at + Cooldown
            /\ LastChange(l).at \in Nat
        BY <1>1, <1>2, <2>1, <2>4, <3>2 DEF Timed
      <4>2. ~(now - LastChange(L).at < Cooldown)
        BY <1>1, <4>1
      <4> QED
        BY <4>2 DEF Recent
    <3> QED
      BY <3>1, <3>2
  <2>7. L # <<>> => LastChange(L).at <= now
    BY <1>1, <1>2, <2>1, <2>4 DEF Timed
  <2> QED
    BY <1>1, <2>3, <2>5, <2>6, <2>7 DEF Timed
<1>7. CASE Amended(l, L, v)
  <2>1. /\ l # <<>> /\ now - LastChange(l).at < Cooldown
        /\ LastChange(l).from # v
    BY <1>7 DEF Amended, Recent
  <2>2. /\ Len(L) = Len(l) /\ \A i \in 1 .. Len(l) - 1 : L[i] = l[i]
        /\ L[Len(L)] = [from |-> LastChange(l).from, to |-> v, at |-> now]
    BY <1>7 DEF Amended
  <2>3. st # v /\ LastChange(l).from = st /\ now - sn < Cooldown /\ St = st
    BY <1>1, <1>2, <1>7, <2>1 DEF Timed, Amended, St
  <2>4. L # <<>> /\ LastChange(L) = [from |-> st, to |-> v, at |-> now]
    BY <1>1, <1>2, <1>3, <1>4, <2>1, <2>2, <2>3
  <2>5. Story(L, v)
    <3>1. ASSUME NEW i \in 1 .. Len(L)
          PROVE  L[i].from # L[i].to
      <4>1. CASE i = Len(L)
        BY <2>1, <2>2, <4>1
      <4>2. CASE i # Len(L)
        <5>1. i \in 1 .. Len(l) - 1 /\ i \in 1 .. Len(l)
          BY <1>1, <2>2, <4>2
        <5> QED
          BY <2>2, <5>1 DEF Story
      <4> QED
        BY <4>1, <4>2
    <3>2. ASSUME NEW i \in 2 .. Len(L)
          PROVE  L[i].from = L[i - 1].to /\ L[i].at >= L[i - 1].at + Cooldown
      <4>1. L[i - 1] = l[i - 1] /\ l[i].from = l[i - 1].to
            /\ l[i].at >= l[i - 1].at + Cooldown
            /\ l[i].at \in Nat /\ l[i - 1].at \in Nat
        BY <1>1, <1>2, <2>2 DEF Story
      <4>2. CASE i # Len(L)
        <5>1. i \in 1 .. Len(l) - 1
          BY <1>1, <2>2, <4>2
        <5> QED
          BY <2>2, <4>1, <5>1
      <4>3. CASE i = Len(L)
        <5>1. L[i].from = l[i].from /\ L[i].at = now /\ now >= l[i].at
          BY <1>1, <1>2, <2>1, <2>2, <4>3 DEF Timed
        <5> QED
          BY <1>1, <4>1, <5>1
      <4> QED
        BY <4>2, <4>3
    <3> QED
      BY <2>4, <3>1, <3>2 DEF Story
  <2> QED
    BY <1>1, <2>3, <2>4, <2>5 DEF Timed
<1>8. CASE Appended(l, L, r, v)
  <2>1. ~Recent(l)
    BY <1>8 DEF Appended
  <2>2. /\ Len(L) = Len(l) + 1 /\ \A i \in 1 .. Len(l) : L[i] = l[i]
        /\ L[Len(L)] = [from |-> r, to |-> v, at |-> now]
    BY <1>8 DEF Appended
  <2>3. St = r
    BY <1>1, <1>2, <2>1 DEF Timed, Recent, St
  <2>4. L # <<>> /\ LastChange(L) = [from |-> r, to |-> v, at |-> now]
    BY <1>1, <1>3, <1>4, <2>2
  <2>5. Story(L, v)
    <3>1. ASSUME NEW i \in 1 .. Len(L)
          PROVE  L[i].from # L[i].to
      <4>1. CASE i = Len(L)
        BY <2>2, <4>1
      <4>2. CASE i # Len(L)
        <5>1. i \in 1 .. Len(l)
          BY <1>1, <2>2, <4>2
        <5> QED
          BY <2>2, <5>1 DEF Story
      <4> QED
        BY <4>1, <4>2
    <3>2. ASSUME NEW i \in 2 .. Len(L)
          PROVE  L[i].from = L[i - 1].to /\ L[i].at >= L[i - 1].at + Cooldown
      <4>1. L[i - 1] = l[i - 1]
        BY <1>1, <2>2
      <4>2. CASE i # Len(L)
        <5>1. i \in 2 .. Len(l) /\ i \in 1 .. Len(l)
          BY <1>1, <2>2, <4>2
        <5>2. L[i] = l[i]
          BY <2>2, <5>1
        <5> QED
          BY <4>1, <5>1, <5>2 DEF Story
      <4>3. CASE i = Len(L)
        <5>1. l # <<>> /\ LastChange(l) = l[i - 1] /\ l[i - 1].at \in Nat
          BY <1>1, <1>2, <2>2, <4>3, EmptySeq
        <5>2. now - l[i - 1].at >= Cooldown /\ l[i - 1].to = r
          BY <1>1, <2>1, <5>1 DEF Recent, Story
        <5> QED
          BY <1>1, <2>2, <4>1, <4>3, <5>1, <5>2
      <4> QED
        BY <4>2, <4>3
    <3> QED
      BY <2>4, <3>1, <3>2 DEF Story
  <2> QED
    BY <1>1, <2>3, <2>4, <2>5 DEF Timed
<1> QED
  BY <1>5, <1>6, <1>7, <1>8

\* Every log tells a story that fits the times of the answers.
LEMMA StoryInvariant == Spec => []StoryInv
<1>1. Init => StoryInv
  BY EmptySeq DEF Init, StoryInv, Story, Timed, Recent, Times
<1>2. TypeOK /\ StoryInv /\ [Next]_vars => StoryInv'
  <2> SUFFICES ASSUME TypeOK, StoryInv, [Next]_vars, NEW q \in Pairs
               PROVE  /\ Story(log'[q], response'[q])
                      /\ Timed(log[q], response[q], stood[q], since[q])'
    BY DEF StoryInv
  <2>1. /\ Story(log[q], response[q])
        /\ Timed(log[q], response[q], stood[q], since[q])
    BY DEF StoryInv
  <2>2. ASSUME now' = now, log'[q] = log[q], response'[q] = response[q],
               stood'[q] = stood[q], since'[q] = since[q]
        PROVE  /\ Story(log'[q], response'[q])
               /\ Timed(log[q], response[q], stood[q], since[q])'
    BY <2>1, <2>2 DEF Timed, Recent
  <2>3. ASSUME NEW p \in Pairs, NEW v \in Values, Respond(p, v)
        PROVE  /\ Story(log'[q], response'[q])
               /\ Timed(log[q], response[q], stood[q], since[q])'
    <3>1. CASE p # q
      BY <2>2, <2>3, <3>1 DEF Respond, TypeOK
    <3>2. CASE p = q
      <4>1. /\ log'[q] = Logged(log[q], response[q], v)
            /\ response'[q] = v /\ since'[q] = now /\ now' = now
            /\ stood'[q] = IF now - since[q] >= Cooldown
                           THEN response[q] ELSE stood[q]
        BY <2>3, <3>2 DEF Respond, TypeOK
      <4>2. v # response[q]
        BY <2>3, <3>2 DEF Respond
      <4>3. /\ log[q] \in Seq(Changes) /\ response[q] \in Answers
            /\ stood[q] \in Answers /\ since[q] \in Times /\ now \in Times
        BY DEF TypeOK
      <4>4. /\ Story(log'[q], response'[q])
            /\ Timed(log'[q], response'[q], stood'[q], since'[q])
        BY <2>1, <4>1, <4>2, <4>3, ResponseTold
      <4> QED
        BY <4>1, <4>4 DEF Timed, Recent
    <3> QED
      BY <3>1, <3>2
  <2>4. ASSUME NEW e \in Events, CreateEvent(e)
        PROVE  /\ Story(log'[q], response'[q])
               /\ Timed(log[q], response[q], stood[q], since[q])'
    BY <2>2, <2>4 DEF CreateEvent
  <2>5. ASSUME NEW e \in Events, DeleteEvent(e)
        PROVE  /\ Story(log'[q], response'[q])
               /\ Timed(log[q], response[q], stood[q], since[q])'
    <3>1. CASE q[2] # e
      BY <2>2, <2>5, <3>1 DEF DeleteEvent, Cascade, TypeOK
    <3>2. CASE q[2] = e
      <4>1. /\ log'[q] = <<>> /\ response'[q] = None /\ stood'[q] = None
            /\ since'[q] = since[q] /\ now' = now
        BY <2>5, <3>2 DEF DeleteEvent, Cascade
      <4> QED
        BY <2>1, <4>1, EmptySeq DEF Story, Timed, Recent
    <3> QED
      BY <3>1, <3>2
  <2>6. CASE Tick
    <3>1. /\ now' = now + 1 /\ log' = log /\ response' = response
          /\ stood' = stood /\ since' = since
      BY <2>6 DEF Tick
    <3>2. now \in Nat /\ since[q] \in Nat /\ Cooldown \in Nat
      BY DEF TypeOK, Times
    <3>3. log[q] # <<>> => LastChange(log[q]).at \in Nat
      <4>1. \A c \in Changes : c.at \in Nat
        BY DEF Changes, Times
      <4> QED
        BY <4>1, LastOfLog DEF TypeOK
    <3>4. Recent(log[q])' => Recent(log[q])
      BY <3>1, <3>2, <3>3 DEF Recent
    <3> QED
      BY <2>1, <3>1, <3>2, <3>3, <3>4 DEF Timed
  <2>7. CASE UNCHANGED vars
    BY <2>2, <2>7 DEF vars
  <2> QED
    BY <2>2, <2>3, <2>4, <2>5, <2>6, <2>7 DEF Next, RespondInVain, vars
<1> QED
  BY <1>1, <1>2, TypeCorrect, PTL DEF Spec

\* Amended, deleted or appended, the entries of a log always read as one
\* story that ends at the current answer.
THEOREM LogTellsAStory == Spec => []LogIsAStory
<1>1. StoryInv => LogIsAStory
  BY DEF StoryInv, Story, LogIsAStory
<1> QED
  BY <1>1, StoryInvariant, PTL

\* No wavering hides a withdrawal: the last entry goes from the answer that
\* stood to the current one, whenever they differ.
THEOREM WithdrawalsTold == Spec => []WithdrawalsAreTold
<1>1. StoryInv => WithdrawalsAreTold
  BY DEF StoryInv, Timed, WithdrawalsAreTold
<1> QED
  BY <1>1, StoryInvariant, PTL

-----------------------------------------------------------------------------
(* The log is the history of AnswerHistory.                                *)

\* The answers a log l tells for ever, if n of its entries are fixed and it
\* starts from the answer f.
Tale(l, n, f) == [i \in 1 .. n + 1 |-> IF i = 1 THEN f ELSE l[i - 1].to]

\* Dropping, amending or appending the last entry leaves the tale as it was.
LEMMA ChangeKeepsTale ==
    ASSUME TypeOK, StoryInv, NEW p \in Pairs, NEW v \in Values, Respond(p, v)
    PROVE  Told(p)' = Told(p)
<1> DEFINE l == log[p]
           L == Logged(l, response[p], v)
           r == response[p]
<1>1. /\ log'[p] = L /\ response'[p] = v /\ now' = now
  BY DEF Respond, TypeOK
<1>2. /\ l \in Seq(Changes) /\ r \in Answers /\ now \in Times
  BY DEF TypeOK
<1>3. L \in Seq(Changes) /\ (Dropped(l, L, v) \/ Amended(l, L, v)
                            \/ Appended(l, L, r, v))
  BY <1>2, LoggedCases
<1>4. /\ Len(l) \in Nat /\ Len(L) \in Nat /\ now \in Nat
      /\ Cooldown \in Nat \ {0}
      /\ ((l = <<>>) <=> (Len(l) = 0))
      /\ ((L = <<>>) <=> (Len(L) = 0))
  BY <1>2, <1>3, EmptySeq DEF Times
<1>5. Story(l, r) /\ Timed(l, r, stood[p], since[p])
  BY DEF StoryInv
<1>6. (\A i \in 1 .. Len(l) : l[i].at \in Nat) /\ since[p] \in Nat
  <2>1. \A i \in 1 .. Len(l) : l[i] \in Changes
    BY <1>2, ElementOfSeq
  <2>2. \A c \in Changes : c.at \in Nat
    BY DEF Changes, Times
  <2> QED
    BY <2>1, <2>2 DEF TypeOK, Times
<1>7. Told(p) = Tale(l, Fixed(p), First(p))
  BY DEF Told, Tale
<1>8. Told(p)' = Tale(L, Fixed(p)', First(p)')
  BY <1>1 DEF Told, Tale
<1>9. /\ Fixed(p) = IF Recent(l) THEN Len(l) - 1 ELSE Len(l)
      /\ Fixed(p)' = IF Recent(L) THEN Len(L) - 1 ELSE Len(L)
      /\ First(p) = IF l = <<>> THEN r ELSE l[1].from
      /\ First(p)' = IF L = <<>> THEN v ELSE L[1].from
  BY <1>1 DEF Fixed, First, Recent
<1> HIDE DEF l, L, r
<1>10. ASSUME NEW n \in Nat, Fixed(p) = n, Fixed(p)' = n,
              First(p)' = First(p), \A i \in 1 .. n : L[i] = l[i]
       PROVE  Told(p)' = Told(p)
  BY <1>7, <1>8, <1>10 DEF Tale
<1>11. CASE Dropped(l, L, v)
  <2>1. /\ l # <<>> /\ Recent(l) /\ l[Len(l)].from = v
        /\ Len(L) = Len(l) - 1 /\ \A i \in 1 .. Len(L) : L[i] = l[i]
    BY <1>11 DEF Dropped, Recent, LastChange
  <2>2. ~Recent(L)
    <3>1. CASE L = <<>>
      BY <3>1 DEF Recent
    <3>2. CASE L # <<>>
      <4>1. /\ Len(l) \in 2 .. Len(l) /\ L[Len(L)] = l[Len(l) - 1]
            /\ l[Len(l)].at \in Nat /\ l[Len(l) - 1].at \in Nat
        BY <1>4, <1>6, <2>1, <3>2
      <4>2. l[Len(l)].at >= l[Len(l) - 1].at + Cooldown
        BY <1>5, <4>1 DEF Story
      <4>3. l[Len(l)].at <= now
        BY <1>4, <1>5, <1>6, <2>1, <4>1 DEF Timed, LastChange
      <4> QED
        BY <1>4, <4>1, <4>2, <4>3 DEF Recent, LastChange
    <3> QED
      BY <3>1, <3>2
  <2>3. First(p)' = First(p)
    BY <1>4, <1>9, <2>1
  <2> QED
    BY <1>4, <1>9, <1>10, <2>1, <2>2, <2>3
<1>12. CASE Amended(l, L, v)
  <2>1. /\ l # <<>> /\ Recent(l) /\ Len(L) = Len(l)
        /\ \A i \in 1 .. Len(l) - 1 : L[i] = l[i]
        /\ L[Len(L)] = [from |-> l[Len(l)].from, to |-> v, at |-> now]
    BY <1>12 DEF Amended, Recent, LastChange
  <2>2. Recent(L)
    BY <1>4, <2>1 DEF Recent, LastChange
  <2>3. First(p)' = First(p)
    BY <1>4, <1>9, <2>1
  <2>4. /\ Len(l) - 1 \in Nat
        /\ Fixed(p) = Len(l) - 1 /\ Fixed(p)' = Len(l) - 1
    BY <1>4, <1>9, <2>1, <2>2
  <2> QED
    BY <1>10, <2>1, <2>3, <2>4
<1>13. CASE Appended(l, L, r, v)
  <2>1. /\ ~Recent(l) /\ Len(L) = Len(l) + 1
        /\ \A i \in 1 .. Len(l) : L[i] = l[i]
        /\ L[Len(L)] = [from |-> r, to |-> v, at |-> now]
    BY <1>13 DEF Appended
  <2>2. Recent(L)
    BY <1>4, <2>1 DEF Recent, LastChange
  <2>3. First(p)' = First(p)
    BY <1>4, <1>9, <2>1
  <2> QED
    BY <1>4, <1>9, <1>10, <2>1, <2>2, <2>3
<1> QED
  BY <1>3, <1>11, <1>12, <1>13

\* A tale grows by the answer of the next entry.
LEMMA TaleGrows ==
    ASSUME NEW l \in Seq(Changes), NEW f \in Answers, NEW n \in Nat, n < Len(l)
    PROVE  /\ Len(Tale(l, n, f)) = n + 1
           /\ Tale(l, n + 1, f) = Append(Tale(l, n, f), l[n + 1].to)
<1> DEFINE T == Tale(l, n, f)
           x == l[n + 1].to
<1>1. /\ Len(l) \in Nat
      /\ \A i \in 1 .. Len(l) : l[i] \in Changes
  BY ElementOfSeq
<1>2. \A c \in Changes : c.to \in Answers
  BY DEF Changes, Answers
<1>3. T \in [1 .. n + 1 -> Answers]
  <2>1. ASSUME NEW i \in 1 .. n + 1
        PROVE  (IF i = 1 THEN f ELSE l[i - 1].to) \in Answers
    <3>1. CASE i = 1
      BY <3>1
    <3>2. CASE i # 1
      <4>1. i - 1 \in 1 .. Len(l)
        BY <1>1, <3>2
      <4> QED
        BY <1>1, <1>2, <3>2, <4>1
    <3> QED
      BY <3>1, <3>2
  <2> QED
    BY <2>1 DEF Tale
<1>4. T \in Seq(Answers) /\ Len(T) = n + 1
  BY <1>3
<1>5. /\ \A i \in 1 .. n + 1 : Append(T, x)[i] = T[i]
      /\ Append(T, x)[n + 2] = x
      /\ DOMAIN Append(T, x) = 1 .. n + 2
      /\ x \in Answers
  <2>1. n + 1 \in 1 .. Len(l)
    BY <1>1
  <2>2. x \in Answers
    BY <1>1, <1>2, <2>1
  <2> HIDE DEF T, x
  <2> QED
    BY <1>4, <2>2, AppendProperties
<1>6. ASSUME NEW i \in 1 .. n + 2
      PROVE  Tale(l, n + 1, f)[i] = Append(T, x)[i]
  <2>1. Tale(l, n + 1, f)[i] = IF i = 1 THEN f ELSE l[i - 1].to
    BY DEF Tale
  <2>2. CASE i \in 1 .. n + 1
    <3>1. T[i] = IF i = 1 THEN f ELSE l[i - 1].to
      BY <2>2 DEF Tale
    <3> QED
      BY <1>5, <2>1, <2>2, <3>1
  <2>3. CASE i = n + 2
    BY <1>5, <2>1, <2>3
  <2>4. i \in 1 .. n + 1 \/ i = n + 2
    OBVIOUS
  <2> HIDE DEF T, x
  <2> QED
    BY <2>2, <2>3, <2>4
<1>7. Append(T, x) = [i \in 1 .. n + 2 |-> Append(T, x)[i]]
  <2>1. x \in Answers
    BY <1>5
  <2> HIDE DEF T, x
  <2>2. Append(T, x) \in Seq(Answers) /\ Len(Append(T, x)) = n + 2
    BY <1>4, <2>1, AppendProperties
  <2> DEFINE A == Append(T, x)
  <2> HIDE DEF A
  <2>3. A \in [1 .. n + 2 -> Answers]
    BY <2>2, LenProperties DEF A
  <2>4. A = [i \in 1 .. n + 2 |-> A[i]]
    BY <2>3
  <2> QED
    BY <2>4 DEF A
<1>8. Tale(l, n + 1, f) = [i \in 1 .. n + 2 |-> Tale(l, n + 1, f)[i]]
  BY DEF Tale
<1> QED
  BY <1>4, <1>6, <1>7, <1>8

\* When the cooldown of the last entry ends, its answer joins the history; it
\* differs from the one before.
LEMMA TickSettles ==
    ASSUME TypeOK, StoryInv, NEW p \in Pairs, Tick
    PROVE  \/ Told(p)' = Told(p)
           \/ /\ response[p] # Told(p)[Len(Told(p))]
              /\ Told(p)' = Append(Told(p), response[p])
<1> DEFINE l == log[p]
<1>1. now' = now + 1 /\ log' = log /\ response' = response
  BY DEF Tick
<1>2. /\ l \in Seq(Changes) /\ Len(l) \in Nat
      /\ now \in Nat /\ Cooldown \in Nat
  BY DEF TypeOK, Times
<1>3. First(p)' = First(p)
  BY <1>1 DEF First
<1>4. CASE Recent(l)' = Recent(l)
  <2>1. Fixed(p)' = Fixed(p)
    BY <1>1, <1>4 DEF Fixed
  <2> QED
    BY <1>1, <1>3, <2>1 DEF Told
<1>5. CASE Recent(l)' # Recent(l)
  <2>1. l # <<>>
    BY <1>1, <1>5 DEF Recent
  <2>2. Len(l) \in Nat \ {0} /\ LastChange(l) \in Changes
    BY <1>2, <2>1, LastOfLog
  <2>3. Recent(l) /\ ~Recent(l)'
    <3>1. LastChange(l).at \in Nat
      BY <2>2 DEF Changes, Times
    <3>2. Recent(l)' => Recent(l)
      BY <1>1, <1>2, <3>1 DEF Recent
    <3> QED
      BY <1>5, <3>2 DEF Recent
  <2> DEFINE n == Len(l) - 1
  <2>4. n \in Nat /\ n < Len(l) /\ n + 1 = Len(l)
    BY <2>2
  <2>5. Fixed(p) = n /\ Fixed(p)' = n + 1
    BY <1>1, <2>2, <2>3 DEF Fixed
  <2>6. First(p) = l[1].from /\ First(p) \in Answers
    <3>1. l[1] \in Changes
      BY <1>2, <2>2, ElementOfSeq
    <3> QED
      BY <2>1, <3>1 DEF First, Changes
  <2>7. Told(p) = Tale(l, n, First(p)) /\ Told(p)' = Tale(l, n + 1, First(p))
    BY <1>1, <1>3, <2>5 DEF Told, Tale
  <2>8. /\ Story(l, response[p])
        /\ l[n + 1].to = response[p] /\ l[n + 1].from # l[n + 1].to
    BY <2>1, <2>2, <2>4 DEF StoryInv, Story, LastChange
  <2> HIDE DEF n
  <2>9. /\ Len(Told(p)) = n + 1
        /\ Told(p)' = Append(Told(p), response[p])
    BY <1>2, <2>4, <2>6, <2>7, <2>8, TaleGrows
  <2>10. Told(p)[n + 1] = l[n + 1].from
    <3>1. Told(p)[n + 1] = IF n + 1 = 1 THEN l[1].from ELSE l[n].to
      BY <2>4, <2>6, <2>7 DEF Tale
    <3>2. CASE n = 0
      BY <3>1, <3>2
    <3>3. CASE n # 0
      <4>1. n + 1 \in 2 .. Len(l) /\ n + 1 - 1 = n
        BY <2>4, <3>3
      <4>2. \A i \in 2 .. Len(l) : l[i].from = l[i - 1].to
        BY <2>8 DEF Story
      <4> QED
        BY <2>4, <3>1, <3>3, <4>1, <4>2
    <3> QED
      BY <3>2, <3>3
  <2> QED
    BY <2>8, <2>9, <2>10
<1> QED
  BY <1>4, <1>5

\* The history of an empty log is the current answer.
LEMMA EmptyLogTold ==
    ASSUME NEW p \in Pairs, log[p] = <<>>
    PROVE  Told(p) = <<response[p]>>
<1>1. Fixed(p) = 0 /\ First(p) = response[p]
  BY EmptySeq DEF Fixed, First, Recent
<1>2. Told(p) = [i \in 1 .. 1 |-> response[p]]
  BY <1>1 DEF Told
<1> QED
  BY <1>2

\* The log implements AnswerHistory: whatever a member answers, the answers
\* that stood are kept as they were, time adds the current one to them, and
\* only the deletion of the event forgets them.
THEOREM LogImplementsHistory == Spec => LogIsTheHistory
<1> DEFINE Step(p) ==
               \/ History!Change(p) \/ History!Settle(p)
               \/ History!Forget(p) \/ History!Same(p)
<1>1. Init => History!Init
  <2> SUFFICES ASSUME Init
               PROVE  History!Init
    OBVIOUS
  <2>1. \A p \in Pairs : Told(p) = <<response[p]>>
    BY EmptyLogTold DEF Init
  <2>2. response \in [Pairs -> History!Answers]
    BY DEF Init, Answers, History!Answers
  <2> QED
    BY <2>1, <2>2 DEF History!Init
<1>2. TypeOK /\ TypeOK' /\ StoryInv /\ [Next]_vars
         => [History!Next]_History!vars
  <2> SUFFICES ASSUME TypeOK, TypeOK', StoryInv, [Next]_vars
               PROVE  History!Next
    OBVIOUS
  <2> SUFFICES ASSUME NEW q \in Pairs
               PROVE  Step(q)
    <3>1. (response \in [Pairs -> Answers])'
      BY DEF TypeOK
    <3>2. response' \in [Pairs -> History!Answers]
      BY <3>1 DEF Answers, History!Answers
    <3> QED
      BY <3>2 DEF History!Next
  <2>1. ASSUME Told(q)' = Told(q), response'[q] = response[q]
        PROVE  Step(q)
    BY <2>1 DEF History!Same
  <2>2. ASSUME now' = now, log'[q] = log[q], response'[q] = response[q]
        PROVE  Step(q)
    <3>1. Told(q)' = Told(q)
      BY <2>2 DEF Told, First, Fixed, Recent
    <3> QED
      BY <2>1, <2>2, <3>1
  <2>3. ASSUME NEW p \in Pairs, NEW v \in Values, Respond(p, v)
        PROVE  Step(q)
    <3>1. CASE p # q
      BY <2>2, <2>3, <3>1 DEF Respond, TypeOK
    <3>2. CASE p = q
      <4>1. Told(q)' = Told(q)
        BY <2>3, <3>2, ChangeKeepsTale
      <4>2. response'[q] = v /\ v # None
        BY <2>3, <3>2 DEF Respond, TypeOK
      <4> QED
        BY <4>1, <4>2 DEF History!Change
    <3> QED
      BY <3>1, <3>2
  <2>4. ASSUME NEW e \in Events, CreateEvent(e)
        PROVE  Step(q)
    BY <2>2, <2>4 DEF CreateEvent
  <2>5. ASSUME NEW e \in Events, DeleteEvent(e)
        PROVE  Step(q)
    <3>1. CASE q[2] # e
      BY <2>2, <2>5, <3>1 DEF DeleteEvent, Cascade, TypeOK
    <3>2. CASE q[2] = e
      <4>1. log'[q] = <<>> /\ response'[q] = None
        BY <2>5, <3>2 DEF DeleteEvent, Cascade
      <4>2. Told(q)' = <<None>>
        <5>1. Fixed(q)' = 0 /\ First(q)' = None
          BY <4>1, EmptySeq DEF Fixed, First, Recent
        <5>2. Told(q)' = [i \in 1 .. 1 |-> None]
          BY <5>1 DEF Told
        <5> QED
          BY <5>2
      <4> QED
        BY <4>1, <4>2 DEF History!Forget
    <3> QED
      BY <3>1, <3>2
  <2>6. CASE Tick
    <3>1. response'[q] = response[q]
      BY <2>6 DEF Tick
    <3>2. \/ Told(q)' = Told(q)
          \/ /\ response[q] # Told(q)[Len(Told(q))]
             /\ Told(q)' = Append(Told(q), response[q])
      BY <2>6, TickSettles
    <3> QED
      BY <2>1, <3>1, <3>2 DEF History!Settle, History!Newest
  <2>7. CASE UNCHANGED vars
    BY <2>2, <2>7 DEF vars
  <2> QED
    BY <2>2, <2>3, <2>4, <2>5, <2>6, <2>7 DEF Next, RespondInVain, vars
<1> QED
  BY <1>1, <1>2, TypeCorrect, StoryInvariant, PTL
     DEF Spec, LogIsTheHistory, History!Spec

=============================================================================
