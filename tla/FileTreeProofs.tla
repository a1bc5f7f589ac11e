--------------------------- MODULE FileTreeProofs ---------------------------
(***************************************************************************)
(* Proofs about FileTree, for any number of pages, nodes, uploads and      *)
(* moves: types, that the nodes of a folder keep different names, that     *)
(* only moves checked while another is pending can make a cycle, and that  *)
(* a conflict overwritten from its own folder touches nothing else.  The   *)
(* walk up the tree is a recursive function; what it computes is shown     *)
(* first, by induction on the members of a set of naturals.                *)
(***************************************************************************)
EXTENDS FileTree, FiniteSetTheorems, WellFoundedInduction, TLAPS

(***************************************************************************)
(* The walk up                                                             *)
(***************************************************************************)

\* Induction on the naturals for the members of a set.
LEMMA Induction ==
    ASSUME NEW S, 0 \in S, \A k \in Nat : k \in S => k + 1 \in S
    PROVE  Nat \subseteq S
<1> DEFINE T == Nat \ S
           R == OpToRel(<, Nat)
<1>1. SUFFICES ASSUME T # {} PROVE FALSE
  OBVIOUS
<1>2. PICK x \in T : \A y \in T : ~(<<y, x>> \in R)
  <2>1. IsWellFoundedOn(R, Nat) BY NatLessThanWellFounded
  <2>2. T \subseteq Nat OBVIOUS
  <2> HIDE DEF T, R
  <2> QED BY <1>1, <2>1, <2>2, WFMin
<1>3. \A y \in T : ~(y < x)
  BY <1>2 DEF OpToRel
<1> HIDE DEF R
<1>4. x \in Nat /\ x # 0 /\ x \notin S
  OBVIOUS
<1>5. x - 1 \in Nat /\ x - 1 < x /\ (x - 1) + 1 = x
  BY <1>4
<1> QED BY <1>3, <1>4, <1>5

IsWalk(t, n, k, f) ==
    f = [i \in 0 .. k |-> IF i = 0 THEN {n} ELSE WithParents(t, f[i - 1])]

\* The recursive function of WalkUp is defined: f is that function.
LEMMA WalkExists ==
    ASSUME NEW t, NEW n
    PROVE  \A k \in Nat : \E f : IsWalk(t, n, k, f)
<1> DEFINE S == {k \in Nat : \E f : IsWalk(t, n, k, f)}
<1>1. 0 \in S
  <2> DEFINE f == [i \in 0 .. 0 |-> {n}]
  <2>1. IsWalk(t, n, 0, f) BY DEF IsWalk
  <2> QED BY <2>1
<1>2. ASSUME NEW k \in Nat, k \in S PROVE k + 1 \in S
  <2>1. PICK f : IsWalk(t, n, k, f) BY <1>2
  <2> DEFINE g == [i \in 0 .. k + 1 |-> IF i = k + 1 THEN WithParents(t, f[k]) ELSE f[i]]
  <2>2. \A i \in 0 .. k + 1 : g[i] = IF i = 0 THEN {n} ELSE WithParents(t, g[i - 1])
    <3>1. \A i \in 0 .. k : f[i] = IF i = 0 THEN {n} ELSE WithParents(t, f[i - 1])
      BY <2>1 DEF IsWalk
    <3> TAKE i \in 0 .. k + 1
    <3>2. CASE i = k + 1
      <4>1. i - 1 \in 0 .. k + 1 /\ i - 1 # k + 1 /\ i - 1 = k /\ i # 0 BY <3>2
      <4> QED BY <3>2, <4>1
    <3>3. CASE i # k + 1 /\ i # 0
      <4>1. i \in 0 .. k /\ i - 1 \in 0 .. k + 1 /\ i - 1 # k + 1 BY <3>3
      <4>2. g[i] = f[i] /\ g[i - 1] = f[i - 1] BY <4>1, <3>3
      <4> QED BY <3>1, <3>3, <4>1, <4>2
    <3>4. CASE i = 0
      <4>1. i \in 0 .. k /\ i # k + 1 BY <3>4
      <4> QED BY <3>1, <3>4, <4>1
    <3> QED BY <3>2, <3>3, <3>4
  <2>3. IsWalk(t, n, k + 1, g)
    BY <2>2 DEF IsWalk
  <2> QED BY <2>3
<1>3. Nat \subseteq S
  <2> HIDE DEF S
  <2> QED BY <1>1, <1>2, Induction
<1> QED BY <1>3

\* The steps of the walk up from n, K of them.
Steps(t, n, K, f) ==
    /\ WalkUp(t, n) = f[K]
    /\ f[0] = {n}
    /\ \A i \in 1 .. K : f[i] = WithParents(t, f[i - 1])

LEMMA WalkIs ==
    ASSUME NEW t, NEW n, NEW K \in Nat, K = Cardinality(DOMAIN t)
    PROVE  \E f : Steps(t, n, K, f)
<1> DEFINE r == CHOOSE f : f = [k \in 0 .. K |->
                  IF k = 0 THEN {n} ELSE WithParents(t, f[k - 1])]
<1>1. WalkUp(t, n) = r[K]
  BY DEF WalkUp
<1>2. PICK h : IsWalk(t, n, K, h)
  BY WalkExists
<1>3. h = [k \in 0 .. K |-> IF k = 0 THEN {n} ELSE WithParents(t, h[k - 1])]
  BY <1>2 DEF IsWalk
<1>4. r = [k \in 0 .. K |-> IF k = 0 THEN {n} ELSE WithParents(t, r[k - 1])]
  BY <1>3
<1> HIDE DEF r
<1>5. K \in Nat /\ 0 \in 0 .. K
  OBVIOUS
<1>6. \A k \in 0 .. K : r[k] = IF k = 0 THEN {n} ELSE WithParents(t, r[k - 1])
  BY <1>4
<1>7. \A i \in 1 .. K : i \in 0 .. K /\ i # 0
  BY <1>5
<1>8. r[0] = {n} /\ \A i \in 1 .. K : r[i] = WithParents(t, r[i - 1])
  BY <1>5, <1>6, <1>7
<1>9. Steps(t, n, K, r)
  BY <1>1, <1>8 DEF Steps
<1> QED BY <1>9

\* U is left by no parent.
UpClosed(t, U) ==
    \A m \in U : m \in DOMAIN t /\ t[m].parent \in DOMAIN t => t[m].parent \in U

\* The walk up from n is the least set that contains n and the parents of its members.
LEMMA WalkFacts ==
    ASSUME NEW t, IsFiniteSet(DOMAIN t), NEW n \in DOMAIN t
    PROVE  /\ n \in WalkUp(t, n)
           /\ WalkUp(t, n) \subseteq DOMAIN t
           /\ UpClosed(t, WalkUp(t, n))
           /\ \A U : n \in U /\ UpClosed(t, U) => WalkUp(t, n) \subseteq U
<1> DEFINE K == Cardinality(DOMAIN t)
<1>1. K \in Nat
  BY FS_CardinalityType
<1>. PICK f : Steps(t, n, K, f)
  BY <1>1, WalkIs
<1>2. /\ WalkUp(t, n) = f[K]
      /\ f[0] = {n}
      /\ \A i \in 1 .. K : f[i] = WithParents(t, f[i - 1])
  BY DEF Steps
<1> HIDE DEF K
<1>3. \A i \in Nat : i + 1 <= K => f[i + 1] = WithParents(t, f[i])
  <2> TAKE i \in Nat
  <2> HAVE i + 1 <= K
  <2>1. i + 1 \in 1 .. K /\ (i + 1) - 1 = i BY <1>1
  <2> QED BY <1>2, <2>1
<1>4. \A i \in Nat : i <= K => n \in f[i] /\ f[i] \subseteq DOMAIN t
  <2> DEFINE S == {i \in Nat : i <= K => n \in f[i] /\ f[i] \subseteq DOMAIN t}
  <2>1. 0 \in S BY <1>2
  <2>2. ASSUME NEW k \in Nat, k \in S PROVE k + 1 \in S
    <3>1. SUFFICES ASSUME k + 1 <= K PROVE n \in f[k + 1] /\ f[k + 1] \subseteq DOMAIN t
      OBVIOUS
    <3>2. n \in f[k] /\ f[k] \subseteq DOMAIN t BY <1>1, <2>2, <3>1
    <3> QED BY <1>3, <3>1, <3>2 DEF WithParents
  <2>3. Nat \subseteq S
    <3> HIDE DEF S
    <3> QED BY <2>1, <2>2, Induction
  <2> QED BY <2>3
<1>5. \A i \in Nat : i <= K => UpClosed(t, f[i]) \/ Cardinality(f[i]) >= i + 1
  <2> DEFINE S == {i \in Nat : i <= K => UpClosed(t, f[i]) \/ Cardinality(f[i]) >= i + 1}
  <2>1. 0 \in S
    <3>1. Cardinality({n}) = 1 BY FS_Singleton
    <3> QED BY <1>2, <3>1
  <2>2. ASSUME NEW k \in Nat, k \in S PROVE k + 1 \in S
    <3>1. SUFFICES ASSUME k + 1 <= K
                   PROVE  UpClosed(t, f[k + 1]) \/ Cardinality(f[k + 1]) >= k + 2
      OBVIOUS
    <3>2. /\ UpClosed(t, f[k]) \/ Cardinality(f[k]) >= k + 1
          /\ f[k] \subseteq DOMAIN t /\ f[k + 1] \subseteq DOMAIN t
          /\ f[k + 1] = WithParents(t, f[k])
      BY <1>1, <1>3, <1>4, <2>2, <3>1
    <3>3. CASE UpClosed(t, f[k])
      <4>1. f[k + 1] = f[k] BY <3>2, <3>3 DEF WithParents, UpClosed
      <4> QED BY <3>3, <4>1
    <3>4. CASE ~UpClosed(t, f[k])
      <4>1. f[k] \subseteq f[k + 1] /\ f[k] # f[k + 1]
        BY <3>2, <3>4 DEF WithParents, UpClosed
      <4>2. IsFiniteSet(f[k + 1]) /\ IsFiniteSet(f[k])
        BY <3>2, FS_Subset
      <4>3. Cardinality(f[k]) \in Nat /\ Cardinality(f[k + 1]) \in Nat
        BY <4>2, FS_CardinalityType
      <4>4. Cardinality(f[k]) < Cardinality(f[k + 1])
        BY <4>1, <4>2, <4>3, FS_Subset
      <4> QED BY <3>2, <3>4, <4>3, <4>4
    <3> QED BY <3>3, <3>4
  <2>3. Nat \subseteq S
    <3> HIDE DEF S
    <3> QED BY <2>1, <2>2, Induction
  <2> QED BY <2>3
<1>6. UpClosed(t, f[K])
  <2>1. Cardinality(f[K]) <= K
    BY <1>1, <1>4, FS_Subset DEF K
  <2>2. Cardinality(f[K]) \in Nat
    BY <1>1, <1>4, FS_Subset, FS_CardinalityType
  <2> QED BY <1>1, <1>5, <2>1, <2>2
<1>7. ASSUME NEW U, n \in U, UpClosed(t, U) PROVE f[K] \subseteq U
  <2> DEFINE S == {i \in Nat : i <= K => f[i] \subseteq U}
  <2>1. 0 \in S BY <1>2, <1>7
  <2>2. ASSUME NEW k \in Nat, k \in S PROVE k + 1 \in S
    <3>1. SUFFICES ASSUME k + 1 <= K PROVE f[k + 1] \subseteq U
      OBVIOUS
    <3>2. f[k] \subseteq U /\ f[k] \subseteq DOMAIN t BY <1>1, <1>4, <2>2, <3>1
    <3> QED BY <1>3, <1>7, <3>1, <3>2 DEF WithParents, UpClosed
  <2>3. Nat \subseteq S
    <3> HIDE DEF S
    <3> QED BY <2>1, <2>2, Induction
  <2> QED BY <1>1, <2>3
<1> QED BY <1>1, <1>2, <1>4, <1>6, <1>7

\* No cycle: some parent leaves every set of nodes.
Forest(t) ==
    \A S \in SUBSET DOMAIN t : S # {} => \E m \in S : t[m].parent \notin S

LEMMA ForestIsAcyclic ==
    ASSUME NEW t, IsFiniteSet(DOMAIN t), Placed(t), Forest(t)
    PROVE  Acyclic(t)
<1> SUFFICES ASSUME NEW n \in DOMAIN t PROVE \E a \in WalkUp(t, n) : t[a].parent = None
  BY DEF Acyclic, WalkEnds
<1>1. /\ n \in WalkUp(t, n) /\ WalkUp(t, n) \subseteq DOMAIN t
      /\ UpClosed(t, WalkUp(t, n))
  BY WalkFacts
<1>2. PICK m \in WalkUp(t, n) : t[m].parent \notin WalkUp(t, n)
  BY <1>1 DEF Forest
<1>3. t[m].parent \notin DOMAIN t
  BY <1>1, <1>2 DEF UpClosed
<1> QED BY <1>1, <1>2, <1>3 DEF Placed

LEMMA AcyclicIsForest ==
    ASSUME NEW t, IsFiniteSet(DOMAIN t), DOMAIN t \subseteq Nat, Acyclic(t)
    PROVE  Forest(t)
<1> SUFFICES ASSUME NEW S \in SUBSET DOMAIN t, NEW n \in S, \A m \in S : t[m].parent \in S
             PROVE  FALSE
  BY DEF Forest
<1>1. UpClosed(t, S)
  BY DEF UpClosed
<1>2. WalkUp(t, n) \subseteq S
  BY <1>1, WalkFacts
<1>3. PICK a \in WalkUp(t, n) : t[a].parent = None
  BY DEF Acyclic, WalkEnds
<1>4. None \in Nat
  BY <1>2, <1>3
<1> QED BY <1>4, NoneAssumption
(***************************************************************************)
(* The invariant                                                           *)
(***************************************************************************)

\* A page is on a folder or a container, or on one that is gone.
MayShow(f) == f \in Ids /\ (f \in DOMAIN tree => tree[f].type # "FILE")

\* Uploads go where the page is until it leaves.
PageInv ==
    \A c \in Clients :
        /\ MayShow(here[c])
        /\ batch[c] # None =>
              MayShow(batch[c].folder) /\ (~left[c] => here[c] = batch[c].folder)

RowsInv ==
    /\ Placed(tree) /\ NamesApart(tree)
    /\ \A n \in DOMAIN tree : tree[n].parent # n

\* Updates to be committed are of different nodes, and their places are free
\* and different.
PendingInv ==
    /\ \A u \in pending :
          /\ u.node \in DOMAIN tree
          /\ u.parent # None => ~Taken(tree, u.name, u.parent, u.node)
          /\ Moved(u) =>
                /\ u.parent \in DOMAIN tree \ {u.node} /\ tree[u.parent].type = "DIR"
                /\ tree[u.node].parent # None
    /\ \A u, v \in pending :
          u # v => u.node # v.node /\ (u.parent # None => <<u.name, u.parent>> # <<v.name, v.parent>>)

\* Without crossing moves the one that is pending does not go below its node.
ForestInv ==
    ~crossed =>
        /\ Forest(tree)
        /\ \A u \in pending : Moved(u) => u.node \notin WalkUp(tree, u.parent)
        /\ \A u, v \in pending : Moved(u) /\ Moved(v) => u = v

RowTypes ==
    /\ nextId \in Nat \ {0} /\ crossed \in BOOLEAN
    /\ DOMAIN tree \subseteq Ids /\ \A n \in DOMAIN tree : tree[n] \in Nodes
    /\ pending \subseteq Updates

StoreInv == RowTypes /\ RowsInv /\ PendingInv /\ ForestInv

(***************************************************************************)
(* What a step does to the rows                                            *)
(***************************************************************************)

Same == UNCHANGED <<tree, nextId, pending, crossed>>

Committed(u) ==
    /\ u \in pending
    /\ tree' = Applied(tree, {u}) /\ pending' = pending \ {u}
    /\ UNCHANGED <<nextId, crossed>>

InFolder(row) ==
    /\ row \in Nodes /\ row.parent \in DOMAIN tree /\ tree[row.parent].type = "DIR"

Added(row) ==
    /\ InFolder(row)
    /\ ~Taken(tree, row.name, row.parent, None)
    /\ ~Waits({}, {row.parent}, <<row.name, row.parent>>)
    /\ tree' = With(tree, nextId, row) /\ nextId' = nextId + 1
    /\ UNCHANGED <<pending, crossed>>

Unheld(n) == n \in DOMAIN tree /\ ~Waits(Deleted(tree, n), {}, None)

Removed(n) ==
    /\ Unheld(n)
    /\ tree' = Without(tree, n)
    /\ UNCHANGED <<nextId, pending, crossed>>

FilledAgain(n, i) ==
    /\ Unheld(n) /\ tree[n].type # "DIR" /\ i \in Items
    /\ tree' = Refilled(tree, n, i)
    /\ UNCHANGED <<nextId, pending, crossed>>

Replaced(n, row) ==
    /\ Unheld(n) /\ InFolder(row)
    /\ tree[n].parent = row.parent /\ tree[n].name = row.name
    /\ tree' = With(Without(tree, n), nextId, row) /\ nextId' = nextId + 1
    /\ UNCHANGED <<pending, crossed>>

Accepted(u) ==
    /\ u \in Updates /\ AcceptsUpdate(tree, u) /\ ~UpdateWaits(u)
    /\ pending' = pending \union {u}
    /\ crossed' = (crossed \/ (Moved(u) /\ \E v \in pending : Moved(v)))
    /\ UNCHANGED <<tree, nextId>>

StoreEffect ==
    \/ Same
    \/ \E u \in pending : Committed(u)
    \/ \E row \in Nodes : Added(row)
    \/ \E n \in Ids : Removed(n)
    \/ \E n \in Ids, i \in Items : FilledAgain(n, i)
    \/ \E n \in Ids, row \in Nodes : Replaced(n, row)
    \/ \E u \in Updates : Accepted(u)

LEMMA TreeFinite ==
    ASSUME NEW t, NEW k \in Nat, DOMAIN t \subseteq 1 .. k - 1
    PROVE  /\ IsFiniteSet(DOMAIN t) /\ DOMAIN t \subseteq Nat
           /\ None \notin DOMAIN t /\ k \notin DOMAIN t
<1>1. IsFiniteSet(1 .. k - 1)
  BY FS_Interval
<1>2. IsFiniteSet(DOMAIN t)
  BY <1>1, FS_Subset
<1> QED BY <1>2, NoneAssumption

\* A file filled again is an update that nothing refuses.
LEMMA RefillAccepted ==
    ASSUME TypeOK, StoreInv, NEW n, Unheld(n), NEW i \in Items,
           tree[n].parent \in DOMAIN tree, tree[tree[n].parent].type = "DIR",
           pending' = pending \union {Refill(tree, n, i)},
           UNCHANGED <<tree, nextId, crossed>>
    PROVE  Accepted(Refill(tree, n, i))
<1> DEFINE r == Refill(tree, n, i)
<1>1. /\ r.node = n /\ r.name = tree[n].name /\ r.parent = tree[n].parent
      /\ n \in DOMAIN tree /\ tree[n] \in Nodes /\ n \in Ids
  BY DEF Refill, Unheld, TypeOK
<1>2. r \in Updates
  BY <1>1 DEF Refill, Updates, Nodes
<1>3. ~Moved(r)
  BY <1>1 DEF Moved
<1>4. None \notin DOMAIN tree
  BY TreeFinite DEF StoreInv, RowTypes, Ids
<1>5. ~Taken(tree, r.name, r.parent, n)
  BY <1>1, <1>4 DEF Taken, Children, StoreInv, RowsInv, NamesApart
<1>6. AcceptsUpdate(tree, r)
  BY <1>1, <1>5 DEF AcceptsUpdate, InContainer
<1>7. ~UpdateWaits(r)
  <2>1. \A v \in pending : v.node # n /\ (Moved(v) => v.parent # n)
    BY DEF Unheld, Waits, Deleted
  <2>2. \A v \in pending : v.parent # None => <<r.name, r.parent>> # <<v.name, v.parent>>
    BY <1>1, <2>1 DEF StoreInv, PendingInv, Taken, Children
  <2> HIDE DEF r
  <2>3. r.node = n
    BY <1>1
  <2>4. ~Waits({r.node}, {}, <<r.name, r.parent>>)
    BY <2>1, <2>2, <2>3 DEF Waits
  <2> QED BY <1>3, <2>4 DEF UpdateWaits
<1> HIDE DEF r
<1> QED BY <1>2, <1>3, <1>6, <1>7 DEF Accepted, TypeOK, r

LEMMA UploadEffect ==
    ASSUME TypeOK, StoreInv, NEW c \in Clients, NEW i \in Items, NEW f \in Ids, MayShow(f),
           NEW force \in BOOLEAN, UploadTo(c, i, f, force)
    PROVE  StoreEffect
<1> USE DEF UploadTo, store, page
<1>1. ASSUME AcceptsUpload(tree, f, i) PROVE InFolder(Uploaded(f, i))
  <2>1. tree[f] \in Nodes /\ f \in DOMAIN tree BY <1>1 DEF AcceptsUpload, TypeOK
  <2>2. tree[f].type = "DIR" BY <1>1, <2>1 DEF AcceptsUpload, MayShow, Nodes, Types
  <2>3. Uploaded(f, i) \in Nodes
    BY ItemsAssumption DEF Uploaded, Nodes, Types, Parents
  <2> QED BY <2>1, <2>2, <2>3 DEF InFolder, Uploaded
<1>2. CASE UNCHANGED <<tree, nextId, pending>>
  BY <1>2 DEF StoreEffect, Same
<1>3. ASSUME Existing(tree, f, i) = {}, AcceptsUpload(tree, f, i),
             ~Waits({}, {f}, <<NameOf[i], f>>),
             tree' = With(tree, nextId, Uploaded(f, i)), nextId' = nextId + 1,
             UNCHANGED pending
      PROVE  StoreEffect
  <2>1. Added(Uploaded(f, i))
    BY <1>1, <1>3 DEF Added, Uploaded, AcceptsUpload, MayInsert
  <2> QED BY <1>1, <1>3, <2>1 DEF StoreEffect, InFolder
<1>4. ASSUME AcceptsUpload(tree, f, i), NEW n \in Existing(tree, f, i),
             ~Waits(Deleted(tree, n), {}, None), Overwritten(n, f, i)
      PROVE  StoreEffect
  <2>1. n \in Ids /\ Unheld(n) /\ tree[n].parent = f /\ tree[n].name = NameOf[i]
    BY <1>4 DEF Existing, Children, Unheld, TypeOK
  <2>2. CASE SameKind(tree, n, i) /\ IsSource[i]
    <3>1. FilledAgain(n, i)
      BY <1>4, <2>1, <2>2 DEF FilledAgain, Overwritten, SameKind
    <3> QED BY <2>1, <3>1 DEF StoreEffect
  <2>3. CASE SameKind(tree, n, i) /\ ~IsSource[i]
    <3> DEFINE u == Refill(tree, n, i)
    <3>1. Accepted(u)
      BY <1>1, <1>4, <2>1, <2>3, RefillAccepted DEF Overwritten, InFolder, Uploaded
    <3>2. u \in Updates
      BY <3>1 DEF Accepted
    <3> QED BY <3>1, <3>2 DEF StoreEffect
  <2>4. CASE ~SameKind(tree, n, i)
    <3>1. Replaced(n, Uploaded(f, i))
      BY <1>1, <1>4, <2>1, <2>4 DEF Replaced, Overwritten, Uploaded
    <3> QED BY <1>1, <1>4, <2>1, <3>1 DEF StoreEffect, InFolder
  <2> QED BY <2>2, <2>3, <2>4
<1> QED BY <1>2, <1>3, <1>4

LEMMA StoreStep == TypeOK /\ PageInv /\ StoreInv /\ [Next]_vars => StoreEffect
<1> SUFFICES ASSUME TypeOK, PageInv, StoreInv, [Next]_vars PROVE StoreEffect
  OBVIOUS
<1> USE DEF store, page
<1>1. CASE \E u \in pending : Commit(u)
  BY <1>1 DEF Commit, Committed, StoreEffect
<1>2. ASSUME NEW c \in Clients, CreateFolder(c) PROVE StoreEffect
  <2> DEFINE f == here[c]
             name == dialog[c].name
             row == [type |-> "DIR", name |-> name, parent |-> f, by |-> None]
  <2>1. CASE UNCHANGED <<tree, nextId, pending, crossed>>
    BY <2>1 DEF StoreEffect, Same
  <2>2. ASSUME MayCreate(f, name), ~Waits({}, {f}, <<name, f>>),
               tree' = With(tree, nextId, row), nextId' = nextId + 1,
               UNCHANGED <<pending, crossed>>
        PROVE  StoreEffect
    <3>1. dialog[c] \in Creations
      BY <1>2 DEF CreateFolder, Sending, TypeOK, Dialogs
    <3>2. f \in Ids /\ name \in Names /\ row \in Nodes
      BY <3>1 DEF TypeOK, Creations, Nodes, Types, Parents
    <3>3. f \in DOMAIN tree /\ tree[f] \in Nodes /\ tree[f].type \notin {"CONTAINER", "FILE"}
      BY <2>2 DEF MayCreate, MayInsert, TypeOK, PageInv, MayShow
    <3>4. Added(row)
      BY <2>2, <3>2, <3>3 DEF Added, InFolder, MayCreate, MayInsert, Nodes, Types
    <3> QED BY <3>2, <3>4 DEF StoreEffect
  <2> QED BY <1>2, <2>1, <2>2 DEF CreateFolder, Refuse, Blocks
<1>3. ASSUME NEW c \in Clients, DeleteFile(c) PROVE StoreEffect
  <2> DEFINE n == dialog[c].node
  <2>1. CASE UNCHANGED <<tree, nextId, pending, crossed>>
    BY <2>1 DEF StoreEffect, Same
  <2>2. ASSUME MayDelete(n), ~Waits(Deleted(tree, n), {}, None), tree' = Without(tree, n),
               UNCHANGED <<nextId, pending, crossed>>
        PROVE  StoreEffect
    <3>1. n \in Ids /\ Removed(n)
      BY <2>2 DEF MayDelete, Removed, Unheld, TypeOK
    <3> QED BY <3>1 DEF StoreEffect
  <2> QED BY <1>3, <2>1, <2>2 DEF DeleteFile, Refuse, Blocks
<1>4. ASSUME NEW c \in Clients, UpdateFile(c) PROVE StoreEffect
  <2> DEFINE d == dialog[c]
  <2>1. CASE UNCHANGED <<tree, nextId, pending, crossed>>
    BY <2>1 DEF StoreEffect, Same
  <2>2. ASSUME ~UpdateHangs(d), MayUpdate(d),
               pending' = pending \union {Patch(d)},
               crossed' = (crossed \/ (Moved(Patch(d)) /\ \E u \in pending : Moved(u))),
               UNCHANGED <<tree, nextId>>
        PROVE  StoreEffect
    <3>1. d.node \in DOMAIN tree /\ tree[d.node] \in Nodes /\ d.node \in Ids
      BY <2>2 DEF MayUpdate, TypeOK
    <3>2. Patch(d) \in Updates
      <4>0. d \in Dialogs /\ d # None
        BY <1>4 DEF UpdateFile, Sending, TypeOK
      <4>1. d.kind = "rename" => d.name \in Names
        BY <4>0 DEF Dialogs, Creations
      <4>2. d.kind = "move" => d.parent \in Ids
        BY <4>0 DEF Dialogs, Creations
      <4> QED BY <3>1, <4>1, <4>2 DEF Patch, Updates, Nodes, Parents
    <3>3. Accepted(Patch(d))
      BY <2>2, <3>1, <3>2 DEF Accepted, MayUpdate, UpdateHangs
    <3> QED BY <3>2, <3>3 DEF StoreEffect
  <2> QED BY <1>4, <2>1, <2>2 DEF UpdateFile, Refuse, Blocks
<1>5. ASSUME NEW c \in Clients, NEW i \in Items, Upload(c, i) PROVE StoreEffect
  <2>1. batch[c] # None /\ batch[c].folder \in Ids /\ MayShow(batch[c].folder)
    BY <1>5 DEF Upload, In, PageInv, MayShow
  <2> QED BY <1>5, <2>1, UploadEffect DEF Upload
<1>6. ASSUME NEW c \in Clients, NEW i \in Items, Overwrite(c, i) PROVE StoreEffect
  <2>1. here[c] \in Ids /\ MayShow(here[c])
    BY DEF PageInv, MayShow
  <2> QED BY <1>6, <2>1, UploadEffect DEF Overwrite
<1>8. ASSUME NEW c \in Clients, NEW i \in Items, OverwriteFails(c, i) PROVE StoreEffect
  <2>1. PICK n \in Existing(tree, here[c], i) :
          ~Waits(Deleted(tree, n), {}, None) /\ tree' = Without(tree, n)
    BY <1>8 DEF OverwriteFails
  <2>2. n \in Ids /\ Removed(n)
    BY <1>8, <2>1 DEF OverwriteFails, Existing, Children, Removed, Unheld, TypeOK
  <2> QED BY <2>2 DEF StoreEffect
<1>7. CASE UNCHANGED vars
  BY <1>7 DEF vars, StoreEffect, Same
<1>9. ASSUME NEW c \in Clients,
             \/ \E f \in Ids : Navigate(c, f)
             \/ Load(c) \/ Breadcrumb(c)
             \/ \E name \in Names : AskCreate(c, name)
             \/ \E n \in Ids :
                    \/ AskDelete(c, n)
                    \/ \E name \in Names : AskRename(c, n, name)
                    \/ \E p \in Ids : AskMove(c, n, p)
             \/ CloseDialog(c)
             \/ \E chosen \in SUBSET Items \ {{}} : StartUpload(c, chosen)
             \/ \E i \in Items :
                    \/ SendNext(c, i) \/ UploadFails(c, i)
                    \/ \E overwrite \in BOOLEAN : ResolveConflict(c, i, overwrite)
             \/ CloseUploads(c)
      PROVE  UNCHANGED <<tree, nextId, pending, crossed>>
  BY <1>9 DEF Navigate, Load, Breadcrumb, Blocks, AskCreate, AskDelete, AskRename, AskMove,
              Open, CloseDialog, StartUpload, SendNext, UploadFails, ResolveConflict, CloseUploads
<1>10. CASE UNCHANGED <<tree, nextId, pending, crossed>>
  BY <1>10 DEF StoreEffect, Same
<1> QED
  BY <1>1, <1>2, <1>3, <1>4, <1>5, <1>6, <1>7, <1>8, <1>9, <1>10 DEF Next

(***************************************************************************)
(* Rows added and removed                                                  *)
(***************************************************************************)

\* The step changes no row but for the parents it removes; a row it adds has
\* a place of its own, which no pending update takes, and the rows that pending
\* updates hold stay.
New == DOMAIN tree' \ DOMAIN tree

Trimmed ==
    /\ UNCHANGED <<pending, crossed>>
    /\ \A n \in DOMAIN tree' \cap DOMAIN tree :
          /\ tree'[n].parent \in {tree[n].parent, None}
          /\ tree'[n].name = tree[n].name /\ tree'[n].type = tree[n].type
    /\ \A n \in DOMAIN tree' : tree'[n].parent # None => tree'[n].parent \in DOMAIN tree'
    /\ \A n \in New :
          /\ tree'[n].parent \in DOMAIN tree /\ tree[tree'[n].parent].type = "DIR"
          /\ \A m \in DOMAIN tree' \ {n} :
                tree'[m].parent = tree'[n].parent => tree'[m].name # tree'[n].name
          /\ \A u \in pending :
                u.parent # None => <<tree'[n].name, tree'[n].parent>> # <<u.name, u.parent>>
    /\ \A u \in pending :
          /\ u.node \in DOMAIN tree' /\ tree'[u.node] = tree[u.node]
          /\ Moved(u) => u.parent \in DOMAIN tree'

LEMMA ForestKept ==
    ASSUME NEW t, NEW s, Placed(t), Forest(t), None \notin DOMAIN s,
           \A n \in DOMAIN s \cap DOMAIN t : s[n].parent \in {t[n].parent, None},
           \A n \in DOMAIN s \ DOMAIN t : s[n].parent \in DOMAIN t
    PROVE  Forest(s)
<1> SUFFICES ASSUME NEW S \in SUBSET DOMAIN s, NEW n \in S, \A m \in S : s[m].parent \in S
             PROVE  FALSE
  BY DEF Forest
<1> DEFINE R == S \cap DOMAIN t
<1>1. R # {}
  OBVIOUS
<1>2. \A m \in R : t[m].parent \in R
  <2> TAKE m \in R
  <2>1. s[m].parent \in S /\ s[m].parent # None
    OBVIOUS
  <2>2. s[m].parent = t[m].parent
    BY <2>1
  <2> QED BY <2>1, <2>2 DEF Placed
<1> QED BY <1>1, <1>2 DEF Forest

LEMMA WalkShrinks ==
    ASSUME NEW t, NEW s, Placed(t), IsFiniteSet(DOMAIN t), IsFiniteSet(DOMAIN s),
           None \notin DOMAIN s,
           \A n \in DOMAIN s \cap DOMAIN t : s[n].parent \in {t[n].parent, None},
           NEW p \in DOMAIN s \cap DOMAIN t
    PROVE  WalkUp(s, p) \subseteq WalkUp(t, p)
<1>1. /\ p \in WalkUp(t, p) /\ WalkUp(t, p) \subseteq DOMAIN t
      /\ UpClosed(t, WalkUp(t, p))
  BY WalkFacts
<1>2. UpClosed(s, WalkUp(t, p))
  BY <1>1 DEF UpClosed, Placed
<1> QED BY <1>1, <1>2, WalkFacts

LEMMA TrimmedKeeps ==
    ASSUME StoreInv, RowTypes', Trimmed
    PROVE  RowsInv' /\ PendingInv' /\ ForestInv'
<1> USE DEF StoreInv
<1>1. /\ IsFiniteSet(DOMAIN tree) /\ None \notin DOMAIN tree
      /\ IsFiniteSet(DOMAIN tree') /\ None \notin DOMAIN tree'
  <2>1. /\ nextId \in Nat /\ DOMAIN tree \subseteq 1 .. nextId - 1
        /\ nextId' \in Nat /\ DOMAIN tree' \subseteq 1 .. nextId' - 1
    BY DEF RowTypes, Ids
  <2> QED BY <2>1, TreeFinite
<1>2. \A u \in pending : Moved(u)' <=> Moved(u)
  BY DEF Trimmed, Moved
<1>3. RowsInv'
  <2>1. Placed(tree')
    BY DEF Trimmed, New, RowsInv, Placed
  <2>2. NamesApart(tree')
    BY DEF Trimmed, New, RowsInv, NamesApart
  <2>3. \A n \in DOMAIN tree' : tree'[n].parent # n
    BY <1>1 DEF Trimmed, New, RowsInv
  <2> QED BY <2>1, <2>2, <2>3 DEF RowsInv
<1>4. PendingInv'
  <2>1. ASSUME NEW u \in pending, u.parent # None
        PROVE  ~Taken(tree', u.name, u.parent, u.node)
    <3> SUFFICES ASSUME NEW m \in DOMAIN tree' \ {u.node}, tree'[m].parent = u.parent,
                        tree'[m].name = u.name
                 PROVE  FALSE
      BY DEF Taken, Children
    <3>1. CASE m \in New
      BY <2>1, <3>1 DEF Trimmed
    <3>2. CASE m \notin New
      <4>1. m \in DOMAIN tree /\ tree[m].parent = u.parent /\ tree[m].name = u.name
        BY <2>1, <3>2 DEF Trimmed, New
      <4> QED BY <2>1, <4>1 DEF PendingInv, Taken, Children
    <3> QED BY <3>1, <3>2
  <2> QED BY <1>2, <2>1 DEF Trimmed, PendingInv
<1>5. ForestInv'
  <2>1. SUFFICES ASSUME ~crossed
                 PROVE  /\ Forest(tree')
                        /\ \A u \in pending : Moved(u) => u.node \notin WalkUp(tree', u.parent)
    BY <1>2 DEF ForestInv, Trimmed
  <2>2. Forest(tree')
    BY <1>1, <2>1, ForestKept DEF Trimmed, New, ForestInv, RowsInv
  <2>3. ASSUME NEW u \in pending, Moved(u) PROVE u.node \notin WalkUp(tree', u.parent)
    <3>1. u.parent \in DOMAIN tree' \cap DOMAIN tree
      BY <2>3 DEF Trimmed, PendingInv
    <3>2. WalkUp(tree', u.parent) \subseteq WalkUp(tree, u.parent)
      BY <1>1, <3>1, WalkShrinks DEF Trimmed, RowsInv
    <3> QED BY <2>1, <2>3, <3>2 DEF ForestInv
  <2> QED BY <2>2, <2>3
<1> QED BY <1>3, <1>4, <1>5

\* Nobody waits for, or moves below, what is deleted.
LEMMA UnheldPending ==
    ASSUME NEW n, Unheld(n), NEW u \in pending
    PROVE  /\ u.node \in DOMAIN tree => u.node # n /\ tree[u.node].parent # n
           /\ u.node \notin Deleted(tree, n)
           /\ Moved(u) => u.parent \notin Deleted(tree, n)
BY DEF Unheld, Waits, Deleted, Children

LEMMA AddedKeeps ==
    ASSUME StoreInv, NEW row \in Nodes, Added(row)
    PROVE  RowTypes' /\ Trimmed
<1> USE DEF StoreInv
<1>1. nextId \in Nat \ {0} /\ nextId \notin DOMAIN tree /\ None \notin DOMAIN tree
  BY TreeFinite DEF RowTypes, Ids
<1>2. /\ DOMAIN tree' = DOMAIN tree \union {nextId}
      /\ tree'[nextId] = row
      /\ \A m \in DOMAIN tree : tree'[m] = tree[m]
  BY <1>1 DEF Added, With
<1>3. nextId' \in Nat \ {0} /\ Ids \subseteq Ids' /\ nextId \in Ids'
  BY <1>1 DEF Added, Ids
<1>4. RowTypes'
  <2>1. Nodes \subseteq Nodes' /\ Updates \subseteq Updates'
    BY <1>3 DEF Nodes, Updates, Parents
  <2>2. row \in Nodes /\ pending' = pending /\ crossed' = crossed
    BY DEF Added
  <2>3. \A m \in DOMAIN tree' : tree'[m] \in Nodes
    BY <1>2, <2>2 DEF RowTypes
  <2>4. DOMAIN tree' \subseteq Ids'
    BY <1>1, <1>2, <1>3 DEF RowTypes
  <2> QED BY <1>3, <2>1, <2>2, <2>3, <2>4 DEF RowTypes
<1>5. Trimmed
  <2>1. row.parent \in DOMAIN tree /\ tree[row.parent].type = "DIR" /\ row.parent # None
    BY <1>1 DEF Added, InFolder
  <2>2. \A m \in DOMAIN tree : tree[m].parent = row.parent => tree[m].name # row.name
    BY <1>1 DEF Added, Taken, Children
  <2>3. \A u \in pending : u.parent # None => <<row.name, row.parent>> # <<u.name, u.parent>>
    BY DEF Added, Waits
  <2> QED BY <1>1, <1>2, <2>1, <2>2, <2>3 DEF Trimmed, New, Added, RowsInv, Placed, PendingInv
<1> QED BY <1>4, <1>5

LEMMA RemovedKeeps ==
    ASSUME StoreInv, NEW n \in Ids, Removed(n)
    PROVE  RowTypes' /\ Trimmed
<1> USE DEF StoreInv
<1>1. \A m \in DOMAIN tree : tree[m] \in Nodes
  BY DEF RowTypes
<1>2. /\ DOMAIN tree' = DOMAIN tree \ {n}
      /\ \A m \in DOMAIN tree \ {n} :
            /\ tree'[m].type = tree[m].type /\ tree'[m].name = tree[m].name
            /\ tree'[m].parent = IF tree[m].parent = n THEN None ELSE tree[m].parent
            /\ tree[m].parent # n => tree'[m] = tree[m]
            /\ tree'[m] \in Nodes
  BY <1>1 DEF Removed, Without, Nodes, Parents
<1>3. RowTypes'
  BY <1>2 DEF RowTypes, Removed, Ids, Nodes, Updates, Parents
<1>4. Trimmed
  <2>1. \A u \in pending :
          u.node # n /\ tree[u.node].parent # n /\ (Moved(u) => u.parent # n)
    BY UnheldPending DEF Removed, PendingInv, Deleted
  <2> QED BY <1>2, <2>1 DEF Trimmed, New, Removed, RowsInv, Placed, PendingInv
<1> QED BY <1>3, <1>4

LEMMA FilledAgainKeeps ==
    ASSUME StoreInv, NEW n \in Ids, NEW i \in Items, FilledAgain(n, i)
    PROVE  RowTypes' /\ Trimmed
<1> USE DEF StoreInv
<1>1. /\ n \in DOMAIN tree /\ tree[n].parent # n /\ tree[n] \in Nodes
      /\ \A m \in DOMAIN tree : tree[m] \in Nodes
  BY DEF RowTypes, RowsInv, FilledAgain, Unheld
<1>2. /\ DOMAIN tree' = DOMAIN tree \ Children(tree, n)
      /\ n \in DOMAIN tree' /\ tree'[n] = [tree[n] EXCEPT !.by = i]
      /\ \A m \in DOMAIN tree' \ {n} : tree'[m] = tree[m]
  BY <1>1 DEF FilledAgain, Refilled, With, Restrict, Children
<1>3. \A m \in DOMAIN tree' :
        /\ tree'[m].type = tree[m].type /\ tree'[m].name = tree[m].name
        /\ tree'[m].parent = tree[m].parent /\ tree'[m] \in Nodes
  BY <1>1, <1>2 DEF Nodes
<1>4. RowTypes'
  BY <1>2, <1>3 DEF RowTypes, FilledAgain, Ids, Nodes, Updates, Parents
<1>5. Trimmed
  <2>1. \A u \in pending :
          /\ u.node \in DOMAIN tree' \ {n}
          /\ Moved(u) => u.parent \notin Children(tree, n)
    BY <1>2, UnheldPending DEF FilledAgain, PendingInv, Deleted
  <2>2. \A m \in DOMAIN tree' : tree[m].parent \notin Children(tree, n)
    <3> SUFFICES ASSUME NEW m \in DOMAIN tree', tree[m].parent \in Children(tree, n)
                 PROVE  FALSE
      OBVIOUS
    <3> DEFINE q == tree[m].parent
    <3>1. m \in DOMAIN tree /\ q \in DOMAIN tree /\ tree[q].parent = n
      BY <1>2 DEF Children
    <3>2. q # None /\ n # None
      <4>1. None \notin DOMAIN tree BY TreeFinite DEF RowTypes, Ids
      <4> QED BY <1>1, <3>1, <4>1
    <3>3. tree[q].type = "FILE"
      BY <3>1, <3>2 DEF RowsInv, Placed, FilledAgain
    <3> QED BY <3>1, <3>2, <3>3 DEF RowsInv, Placed
  <2> QED BY <1>2, <1>3, <2>1, <2>2 DEF Trimmed, New, FilledAgain, RowsInv, Placed, PendingInv
<1> QED BY <1>4, <1>5

LEMMA ReplacedKeeps ==
    ASSUME StoreInv, NEW n \in Ids, NEW row \in Nodes, Replaced(n, row)
    PROVE  RowTypes' /\ Trimmed
<1> USE DEF StoreInv
<1>1. nextId \in Nat \ {0} /\ nextId \notin DOMAIN tree /\ None \notin DOMAIN tree
  BY TreeFinite DEF RowTypes, Ids
<1>2. /\ n \in DOMAIN tree /\ tree[n].parent # n /\ n # nextId
      /\ \A m \in DOMAIN tree : tree[m] \in Nodes
  BY <1>1 DEF RowTypes, RowsInv, Replaced, Unheld
<1>3. /\ DOMAIN tree' = (DOMAIN tree \ {n}) \union {nextId}
      /\ tree'[nextId] = row
      /\ \A m \in DOMAIN tree \ {n} :
            /\ tree'[m].type = tree[m].type /\ tree'[m].name = tree[m].name
            /\ tree'[m].parent = IF tree[m].parent = n THEN None ELSE tree[m].parent
            /\ tree[m].parent # n => tree'[m] = tree[m]
            /\ tree'[m] \in Nodes
  BY <1>1, <1>2 DEF Replaced, With, Without, Nodes, Parents
<1>4. nextId' \in Nat \ {0} /\ Ids \subseteq Ids' /\ nextId \in Ids'
  BY <1>1 DEF Replaced, Ids
<1>5. RowTypes'
  <2>1. Nodes \subseteq Nodes' /\ Updates \subseteq Updates'
    BY <1>4 DEF Nodes, Updates, Parents
  <2>2. row \in Nodes /\ pending' = pending /\ crossed' = crossed
    BY DEF Replaced
  <2>3. \A m \in DOMAIN tree' : tree'[m] \in Nodes
    BY <1>3, <2>2
  <2>4. DOMAIN tree' \subseteq Ids'
    BY <1>3, <1>4 DEF RowTypes
  <2> QED BY <1>4, <2>1, <2>2, <2>3, <2>4 DEF RowTypes
<1>6. Trimmed
  <2>1. /\ row.parent \in DOMAIN tree \ {n} /\ tree[row.parent].type = "DIR"
        /\ row.parent # None /\ tree[n].parent = row.parent /\ tree[n].name = row.name
    BY <1>1, <1>2 DEF Replaced, InFolder
  <2>2. \A m \in DOMAIN tree \ {n} : tree[m].parent = row.parent => tree[m].name # row.name
    BY <1>2, <2>1 DEF RowsInv, NamesApart
  <2>3. \A u \in pending :
          /\ u.node \in DOMAIN tree \ {n} /\ tree[u.node].parent # n
          /\ Moved(u) => u.parent # n
    BY UnheldPending DEF Replaced, PendingInv, Deleted
  <2>4. \A u \in pending : u.parent # None => <<row.name, row.parent>> # <<u.name, u.parent>>
    BY <1>2, <2>1, <2>3 DEF PendingInv, Taken, Children
  <2> QED BY <1>1, <1>3, <2>1, <2>2, <2>3, <2>4
          DEF Trimmed, New, Replaced, RowsInv, Placed, PendingInv
<1> QED BY <1>5, <1>6

(***************************************************************************)
(* Updates accepted and committed                                          *)
(***************************************************************************)

LEMMA CommittedKeeps ==
    ASSUME StoreInv, NEW u \in pending, Committed(u)
    PROVE  StoreInv'
<1> USE DEF StoreInv
<1>1. /\ u \in Updates /\ u.node \in DOMAIN tree
      /\ \A n \in DOMAIN tree : tree[n] \in Nodes
      /\ IsFiniteSet(DOMAIN tree) /\ None \notin DOMAIN tree
  BY TreeFinite DEF RowTypes, PendingInv, Ids
<1>2. /\ DOMAIN tree' = DOMAIN tree
      /\ tree'[u.node] = [tree[u.node] EXCEPT !.name = u.name, !.parent = u.parent, !.by = u.by]
      /\ \A n \in DOMAIN tree \ {u.node} : tree'[n] = tree[n]
  BY <1>1 DEF Committed, Applied
<1>3. /\ \A n \in DOMAIN tree : tree'[n].type = tree[n].type /\ tree'[n] \in Nodes
      /\ tree'[u.node].name = u.name /\ tree'[u.node].parent = u.parent
  <2>1. /\ u.name \in Names /\ u.parent \in Parents /\ u.by \in Items \union {None}
        /\ tree[u.node] \in Nodes
    BY <1>1 DEF Updates
  <2>2. /\ tree'[u.node] \in Nodes /\ tree'[u.node].type = tree[u.node].type
        /\ tree'[u.node].name = u.name /\ tree'[u.node].parent = u.parent
    BY <1>2, <2>1 DEF Nodes
  <2> QED BY <1>1, <1>2, <2>2
<1>4. \A v \in pending' : v \in pending /\ v # u /\ v.node # u.node /\ (Moved(v)' <=> Moved(v))
  BY <1>2 DEF Committed, PendingInv, Moved
<1>5. RowTypes'
  <2>1. Nodes' = Nodes /\ Updates' = Updates /\ Ids' = Ids
    BY DEF Committed, Nodes, Updates, Parents, Ids
  <2> QED BY <1>2, <1>3, <2>1 DEF RowTypes, Committed
<1>6. Moved(u) =>
        /\ u.parent \in DOMAIN tree \ {u.node} /\ tree[u.parent].type = "DIR"
        /\ tree[u.node].parent # None
  BY DEF PendingInv
<1>7. ~Moved(u) => u.parent = tree[u.node].parent
  BY DEF Moved
<1>8. RowsInv'
  <2>1. Placed(tree')
    <3> SUFFICES ASSUME NEW n \in DOMAIN tree, tree'[n].parent # None
                 PROVE  /\ tree'[n].parent \in DOMAIN tree
                        /\ \/ tree[tree'[n].parent].type = "DIR"
                           \/ tree[tree'[n].parent].type = "CONTAINER" /\ tree[n].type = "FILE"
      BY <1>2, <1>3 DEF Placed
    <3>1. CASE n = u.node /\ Moved(u)
      BY <1>3, <1>6, <3>1
    <3>2. CASE ~(n = u.node /\ Moved(u))
      <4>1. tree'[n].parent = tree[n].parent
        BY <1>2, <1>3, <1>7, <3>2
      <4> QED BY <4>1 DEF RowsInv, Placed
    <3> QED BY <3>1, <3>2
  <2>2. \A m \in DOMAIN tree \ {u.node} :
          u.parent # None /\ tree[m].parent = u.parent => tree[m].name # u.name
    BY DEF PendingInv, Taken, Children
  <2>3. NamesApart(tree')
    <3> SUFFICES ASSUME NEW n \in DOMAIN tree, NEW m \in DOMAIN tree, n # m,
                        tree'[n].parent = tree'[m].parent, tree'[n].parent # None
                 PROVE  tree'[n].name # tree'[m].name
      BY <1>2 DEF NamesApart
    <3>1. CASE n # u.node /\ m # u.node
      BY <1>2, <3>1 DEF RowsInv, NamesApart
    <3>2. CASE n = u.node
      BY <1>2, <1>3, <2>2, <3>2
    <3>3. CASE m = u.node
      BY <1>2, <1>3, <2>2, <3>3
    <3> QED BY <3>1, <3>2, <3>3
  <2>4. \A n \in DOMAIN tree' : tree'[n].parent # n
    BY <1>1, <1>2, <1>3, <1>6, <1>7 DEF RowsInv
  <2> QED BY <2>1, <2>3, <2>4 DEF RowsInv
<1>9. PendingInv'
  <2>1. ASSUME NEW v \in pending', v.parent # None
        PROVE  ~Taken(tree', v.name, v.parent, v.node)
    <3> SUFFICES ASSUME NEW m \in DOMAIN tree \ {v.node}, tree'[m].parent = v.parent,
                        tree'[m].name = v.name
                 PROVE  FALSE
      BY <1>2 DEF Taken, Children
    <3>1. CASE m = u.node
      BY <1>3, <1>4, <2>1, <3>1 DEF PendingInv
    <3>2. CASE m # u.node
      BY <1>2, <1>4, <2>1, <3>2 DEF PendingInv, Taken, Children
    <3> QED BY <3>1, <3>2
  <2>2. \A v \in pending' : v.node \in DOMAIN tree'
    BY <1>2, <1>4 DEF PendingInv
  <2>3. ASSUME NEW v \in pending', Moved(v)'
        PROVE  /\ v.parent \in DOMAIN tree' \ {v.node} /\ tree'[v.parent].type = "DIR"
               /\ tree'[v.node].parent # None
    BY <1>2, <1>3, <1>4, <2>3 DEF PendingInv
  <2>4. \A v, w \in pending' :
          v # w => v.node # w.node /\ (v.parent # None => <<v.name, v.parent>> # <<w.name, w.parent>>)
    BY <1>4 DEF PendingInv
  <2> QED BY <2>1, <2>2, <2>3, <2>4 DEF PendingInv
<1>10. ForestInv'
  <2>1. SUFFICES ASSUME ~crossed
                 PROVE  /\ Forest(tree')
                        /\ \A v \in pending' : Moved(v)' => v.node \notin WalkUp(tree', v.parent)
                        /\ \A v, w \in pending' : Moved(v)' /\ Moved(w)' => v = w
    BY DEF ForestInv, Committed
  <2>2. CASE Moved(u)
    <3>1. \A v \in pending' : ~Moved(v)'
      BY <1>4, <2>1, <2>2 DEF ForestInv
    <3>2. Forest(tree')
      <4> SUFFICES ASSUME NEW S \in SUBSET DOMAIN tree, NEW n \in S,
                          \A m \in S : tree'[m].parent \in S
                   PROVE  FALSE
        BY <1>2 DEF Forest
      <4>1. CASE u.node \notin S
        <5>1. \A m \in S : tree[m].parent \in S
          BY <1>2, <4>1
        <5> QED BY <2>1, <5>1 DEF ForestInv, Forest
      <4>2. CASE u.node \in S
        <5> DEFINE W == WalkUp(tree, u.parent)
        <5>1. u.parent \in W /\ UpClosed(tree, W) /\ u.node \notin W
          BY <1>1, <1>6, <2>1, <2>2, WalkFacts DEF ForestInv
        <5>2. u.parent \in S \cap W
          BY <1>3, <4>2, <5>1
        <5> HIDE DEF W
        <5>3. \A m \in S \cap W : tree[m].parent \in S \cap W
          BY <1>2, <5>1 DEF UpClosed
        <5>4. S \cap W \in SUBSET DOMAIN tree
          OBVIOUS
        <5> QED BY <2>1, <5>2, <5>3, <5>4 DEF ForestInv, Forest
      <4> QED BY <4>1, <4>2
    <3> QED BY <3>1, <3>2
  <2>3. CASE ~Moved(u)
    <3>1. \A n \in DOMAIN tree : tree'[n].parent = tree[n].parent
      BY <1>2, <1>3, <1>7, <2>3
    <3>2. Forest(tree')
      BY <1>2, <2>1, <3>1 DEF ForestInv, Forest
    <3>3. ASSUME NEW v \in pending', Moved(v)' PROVE v.node \notin WalkUp(tree', v.parent)
      <4>1. v \in pending /\ Moved(v) /\ v.parent \in DOMAIN tree
        BY <1>4, <3>3 DEF PendingInv
      <4>2. WalkUp(tree', v.parent) \subseteq WalkUp(tree, v.parent)
        BY <1>1, <1>2, <3>1, <4>1, WalkShrinks DEF RowsInv
      <4> QED BY <2>1, <4>1, <4>2 DEF ForestInv
    <3>4. \A v, w \in pending' : Moved(v)' /\ Moved(w)' => v = w
      BY <1>4, <2>1 DEF ForestInv
    <3> QED BY <3>2, <3>3, <3>4
  <2> QED BY <2>2, <2>3
<1> QED BY <1>5, <1>8, <1>9, <1>10

\* The test of a move: its node is not met on the walk up from the target.
LEMMA MoveTested ==
    ASSUME StoreInv, NEW u, AcceptsUpdate(tree, u), Moved(u)
    PROVE  /\ u.parent \in DOMAIN tree \ {u.node} /\ tree[u.parent].type = "DIR"
           /\ tree[u.node].parent # None
           /\ u.node \notin WalkUp(tree, u.parent)
<1> USE DEF StoreInv
<1>1. /\ u.node \in DOMAIN tree /\ tree[u.node].parent # None
      /\ u.parent \in DOMAIN tree /\ tree[u.parent].type = "DIR"
      /\ tree[u.node].type = "DIR" => u.node \notin WalkUp(tree, u.parent)
  BY DEF AcceptsUpdate, ValidMoveTarget, Moved, IsDescendantOrSelf
<1>2. IsFiniteSet(DOMAIN tree)
  BY TreeFinite DEF RowTypes, Ids
<1>3. u.parent \in WalkUp(tree, u.parent)
  BY <1>1, <1>2, WalkFacts
<1>4. tree[u.node].type # "DIR" => u.node \notin WalkUp(tree, u.parent)
  <2> DEFINE U == {m \in DOMAIN tree : tree[m].type = "DIR"}
  <2>1. None \notin DOMAIN tree
    BY TreeFinite DEF RowTypes, Ids
  <2>2. UpClosed(tree, U)
    BY <2>1 DEF UpClosed, RowsInv, Placed
  <2>3. WalkUp(tree, u.parent) \subseteq U
    BY <1>1, <1>2, <2>2, WalkFacts
  <2> QED BY <2>3
<1> QED BY <1>1, <1>3, <1>4

LEMMA AcceptedKeeps ==
    ASSUME StoreInv, NEW u \in Updates, Accepted(u)
    PROVE  StoreInv'
<1> USE DEF StoreInv
<1>1. /\ tree' = tree /\ nextId' = nextId /\ pending' = pending \union {u}
      /\ u.node \in DOMAIN tree /\ ~Taken(tree, u.name, u.parent, u.node)
  BY DEF Accepted, AcceptsUpdate
<1>2. \A v \in pending :
        v.node # u.node /\ (v.parent # None => <<u.name, u.parent>> # <<v.name, v.parent>>)
  BY DEF Accepted, UpdateWaits, Waits
<1>3. \A v \in pending' : Moved(v)' <=> Moved(v)
  BY <1>1 DEF Moved
<1>4. RowTypes'
  <2>1. Nodes' = Nodes /\ Updates' = Updates /\ Ids' = Ids
    BY <1>1 DEF Nodes, Updates, Parents, Ids
  <2>2. crossed' \in BOOLEAN
    BY DEF Accepted
  <2> QED BY <1>1, <2>1, <2>2 DEF RowTypes
<1>5. RowsInv'
  BY <1>1 DEF RowsInv
<1>6. PendingInv'
  <2>1. Moved(u) => /\ u.parent \in DOMAIN tree \ {u.node} /\ tree[u.parent].type = "DIR"
                    /\ tree[u.node].parent # None
    BY MoveTested DEF Accepted
  <2>2. ASSUME NEW v \in pending'
        PROVE  /\ v.node \in DOMAIN tree
               /\ v.parent # None => ~Taken(tree, v.name, v.parent, v.node)
               /\ Moved(v) => /\ v.parent \in DOMAIN tree \ {v.node} /\ tree[v.parent].type = "DIR"
                              /\ tree[v.node].parent # None
    BY <1>1, <2>1 DEF PendingInv
  <2>3. ASSUME NEW v \in pending', NEW w \in pending', v # w
        PROVE  v.node # w.node /\ (v.parent # None => <<v.name, v.parent>> # <<w.name, w.parent>>)
    BY <1>1, <1>2, <2>3 DEF PendingInv
  <2> QED BY <1>1, <1>3, <2>2, <2>3 DEF PendingInv
<1>7. ForestInv'
  <2>1. SUFFICES ASSUME ~crossed, ~(Moved(u) /\ \E v \in pending : Moved(v))
                 PROVE  /\ Forest(tree)
                        /\ \A v \in pending' : Moved(v) => v.node \notin WalkUp(tree, v.parent)
                        /\ \A v, w \in pending' : Moved(v) /\ Moved(w) => v = w
    BY <1>1, <1>3 DEF ForestInv, Accepted
  <2>2. Moved(u) => u.node \notin WalkUp(tree, u.parent)
    BY MoveTested DEF Accepted
  <2> QED BY <1>1, <2>1, <2>2 DEF ForestInv
<1> QED BY <1>4, <1>5, <1>6, <1>7

LEMMA SameKeeps ==
    ASSUME StoreInv, Same
    PROVE  StoreInv'
BY DEF StoreInv, Same, RowTypes, RowsInv, PendingInv, ForestInv, Moved, Nodes, Updates, Parents, Ids

LEMMA StoreKept ==
    ASSUME StoreInv, StoreEffect
    PROVE  StoreInv'
<1>1. ASSUME RowTypes', Trimmed PROVE StoreInv'
  BY <1>1, TrimmedKeeps DEF StoreInv
<1> QED
  BY <1>1, SameKeeps, CommittedKeeps, AddedKeeps, RemovedKeeps, FilledAgainKeeps,
     ReplacedKeeps, AcceptedKeeps DEF StoreEffect

(***************************************************************************)
(* The pages                                                               *)
(***************************************************************************)

\* Ids are not given twice, and a row keeps its type.
RowsAge ==
    /\ Ids \subseteq Ids'
    /\ \A n \in Ids : n \in DOMAIN tree' => n \in DOMAIN tree /\ tree'[n].type = tree[n].type

LEMMA RowsAgeStep ==
    ASSUME StoreInv, StoreEffect
    PROVE  RowsAge
<1> USE DEF StoreInv
<1>1. nextId \in Nat \ {0} /\ nextId \notin Ids /\ \A n \in DOMAIN tree : tree[n] \in Nodes
  BY DEF RowTypes, Ids
<1>2. nextId' \in {nextId, nextId + 1} => Ids \subseteq Ids'
  <2>1. ASSUME nextId' = nextId + 1 PROVE Ids \subseteq Ids'
    BY <1>1, <2>1 DEF Ids
  <2> QED BY <2>1 DEF Ids
<1>3. CASE Same
  BY <1>2, <1>3 DEF Same, RowsAge
<1>4. ASSUME NEW u \in pending, Committed(u) PROVE RowsAge
  BY <1>1, <1>2, <1>4 DEF Committed, Applied, RowsAge, Nodes
<1>5. ASSUME NEW row \in Nodes, Added(row) PROVE RowsAge
  BY <1>1, <1>2, <1>5 DEF Added, With, RowsAge
<1>6. ASSUME NEW n \in Ids, Removed(n) PROVE RowsAge
  BY <1>1, <1>2, <1>6 DEF Removed, Without, RowsAge, Nodes
<1>7. ASSUME NEW n \in Ids, NEW i \in Items, FilledAgain(n, i) PROVE RowsAge
  BY <1>1, <1>2, <1>7 DEF FilledAgain, Unheld, Refilled, With, Restrict, RowsAge, Nodes
<1>8. ASSUME NEW n \in Ids, NEW row \in Nodes, Replaced(n, row) PROVE RowsAge
  BY <1>1, <1>2, <1>8 DEF Replaced, With, Without, RowsAge, Nodes
<1>9. ASSUME NEW u \in Updates, Accepted(u) PROVE RowsAge
  BY <1>2, <1>9 DEF Accepted, RowsAge
<1> QED BY <1>3, <1>4, <1>5, <1>6, <1>7, <1>8, <1>9 DEF StoreEffect

\* What the pages hold after a step, told of the rows and ids before it.
PageNext ==
    /\ hung' \in BOOLEAN /\ moves' \in 0 .. MaxMoves
    /\ here' \in [Clients -> Ids] /\ left' \in [Clients -> BOOLEAN]
    /\ dialog' \in [Clients -> Dialogs] /\ batch' \in [Clients -> Batches]
    /\ \A c \in Clients :
          /\ MayShow(here'[c])
          /\ batch'[c] # None =>
                MayShow(batch'[c].folder) /\ (~left'[c] => here'[c] = batch'[c].folder)

LEMMA AnswerTyped ==
    ASSUME NEW d \in Dialogs \ {None}, NEW s \in Answers
    PROVE  [d EXCEPT !.state = s] \in Dialogs
<1>1. CASE d \in Creations
  BY <1>1 DEF Dialogs, Creations
<1>2. CASE d \in [kind: {"rename"}, node: Ids, name: Names, state: Answers]
  BY <1>2 DEF Dialogs
<1>3. CASE d \in [kind: {"move"}, node: Ids, parent: Ids, state: Answers]
  BY <1>3 DEF Dialogs
<1>4. CASE d \in [kind: {"delete"}, node: Ids, state: Answers]
  BY <1>4 DEF Dialogs
<1> QED BY <1>1, <1>2, <1>3, <1>4 DEF Dialogs

LEMMA PatchedTyped ==
    ASSUME TypeOK, PageInv, NEW c \in Clients, NEW i \in Items, batch[c] # None,
           NEW status \in Statuses, Patched(c, i, status),
           UNCHANGED <<here, dialog, left>>, hung' \in BOOLEAN, moves' \in 0 .. MaxMoves
    PROVE  PageNext
<1>1. batch[c] \in [folder: Ids, status: [Items -> Statuses \union {None}]]
  BY DEF TypeOK, Batches
<1>2. /\ batch'[c] = [batch[c] EXCEPT !.status = [batch[c].status EXCEPT ![i] = status]]
      /\ \A d \in Clients \ {c} : batch'[d] = batch[d]
      /\ DOMAIN batch' = Clients /\ batch' = [d \in Clients |-> batch'[d]]
  BY DEF Patched, TypeOK
<1>3. batch'[c].folder = batch[c].folder /\ batch'[c] \in Batches
  BY <1>1, <1>2 DEF Batches
<1>4. batch' \in [Clients -> Batches]
  BY <1>2, <1>3 DEF TypeOK
<1>5. \A d \in Clients : batch'[d] # None => batch[d] # None /\ batch'[d].folder = batch[d].folder
  BY <1>2, <1>3
<1> QED BY <1>4, <1>5 DEF PageNext, TypeOK, PageInv

LEMMA PageStep ==
    ASSUME TypeOK, PageInv, [Next]_vars
    PROVE  PageNext
<1> USE DEF store, page
<1>moves. Move => moves' \in 0 .. MaxMoves
  BY BoundsAssumption DEF Move, TypeOK
<1>0. CASE /\ UNCHANGED <<here, dialog, batch, left, moves>> /\ hung' \in BOOLEAN
  BY <1>0 DEF PageNext, TypeOK, PageInv
<1>1. ASSUME NEW u \in pending, Commit(u) PROVE PageNext
  BY <1>0, <1>1 DEF Commit, TypeOK
<1>2. ASSUME NEW c \in Clients, NEW f \in Ids, Navigate(c, f) PROVE PageNext
  <2>1. /\ here' = [here EXCEPT ![c] = f] /\ left' = [left EXCEPT ![c] = TRUE]
        /\ UNCHANGED <<dialog, batch, hung>> /\ MayShow(f)
    BY <1>2 DEF Navigate, MayShow
  <2> QED BY <1>moves, <1>2, <2>1 DEF PageNext, TypeOK, PageInv, Navigate
<1>3. ASSUME NEW c \in Clients, Load(c) \/ Breadcrumb(c) PROVE PageNext
  BY <1>0, <1>3 DEF Load, Breadcrumb, Blocks, TypeOK
<1>4. ASSUME NEW c \in Clients, NEW d \in Dialogs, Open(c, d) PROVE PageNext
  BY <1>moves, <1>4 DEF Open, PageNext, TypeOK, PageInv
<1>5. ASSUME NEW c \in Clients, NEW name \in Names, AskCreate(c, name) PROVE PageNext
  <2>1. [kind |-> "create", name |-> name, state |-> "asked"] \in Dialogs
    BY DEF Dialogs, Creations, Answers
  <2> QED BY <1>4, <1>5, <2>1 DEF AskCreate
<1>6. ASSUME NEW c \in Clients, NEW n \in Ids, AskDelete(c, n) PROVE PageNext
  <2>1. [kind |-> "delete", node |-> n, state |-> "asked"] \in Dialogs
    BY DEF Dialogs, Answers
  <2> QED BY <1>4, <1>6, <2>1 DEF AskDelete
<1>7. ASSUME NEW c \in Clients, NEW n \in Ids, NEW name \in Names, AskRename(c, n, name)
      PROVE  PageNext
  <2>1. [kind |-> "rename", node |-> n, name |-> name, state |-> "asked"] \in Dialogs
    BY DEF Dialogs, Answers
  <2> QED BY <1>4, <1>7, <2>1 DEF AskRename
<1>8. ASSUME NEW c \in Clients, NEW n \in Ids, NEW p \in Ids, AskMove(c, n, p) PROVE PageNext
  <2>1. [kind |-> "move", node |-> n, parent |-> p, state |-> "asked"] \in Dialogs
    BY DEF Dialogs, Answers
  <2> QED BY <1>4, <1>8, <2>1 DEF AskMove
<1>9. ASSUME NEW c \in Clients, CreateFolder(c) \/ DeleteFile(c) \/ UpdateFile(c) PROVE PageNext
  <2>1. CASE UNCHANGED <<here, dialog, batch, left, moves>> /\ hung' = TRUE
    BY <1>0, <2>1
  <2>2. ASSUME NEW accepted \in BOOLEAN, Answer(c, accepted), dialog[c] # None,
               UNCHANGED <<here, batch, left, moves, hung>>
        PROVE  PageNext
    <3>1. [dialog[c] EXCEPT !.state = IF accepted THEN "accepted" ELSE "refused"] \in Dialogs
      BY <2>2, AnswerTyped DEF TypeOK, Answers
    <3>2. dialog' \in [Clients -> Dialogs]
      BY <2>2, <3>1 DEF Answer, TypeOK
    <3> QED BY <2>2, <3>2 DEF PageNext, TypeOK, PageInv
  <2>3. dialog[c] # None
    BY <1>9 DEF CreateFolder, DeleteFile, UpdateFile, Sending
  <2>4. CASE CreateFolder(c)
    BY <2>1, <2>2, <2>3, <2>4 DEF CreateFolder, Refuse, Blocks
  <2>5. CASE DeleteFile(c)
    BY <2>1, <2>2, <2>3, <2>5 DEF DeleteFile, Refuse, Blocks
  <2>6. CASE UpdateFile(c)
    BY <2>1, <2>2, <2>3, <2>6 DEF UpdateFile, Refuse, Blocks
  <2> QED BY <1>9, <2>4, <2>5, <2>6
<1>10. ASSUME NEW c \in Clients, CloseDialog(c) PROVE PageNext
  <2>1. dialog' \in [Clients -> Dialogs]
    BY <1>10 DEF CloseDialog, TypeOK, Dialogs
  <2> QED BY <1>10, <2>1 DEF CloseDialog, PageNext, TypeOK, PageInv
<1>11. ASSUME NEW c \in Clients, NEW chosen \in SUBSET Items, StartUpload(c, chosen)
       PROVE  PageNext
  <2> DEFINE b == [folder |-> here[c],
                   status |-> [i \in Items |-> IF i \in chosen THEN "queued" ELSE None]]
  <2>1. b \in Batches /\ b.folder = here[c]
    BY DEF TypeOK, Batches, Statuses
  <2>2. batch' = [batch EXCEPT ![c] = b] /\ left' = [left EXCEPT ![c] = FALSE]
    BY <1>11 DEF StartUpload
  <2> HIDE DEF b
  <2>3. batch' \in [Clients -> Batches] /\ batch'[c] = b /\ left'[c] = FALSE
        /\ \A d \in Clients \ {c} : batch'[d] = batch[d] /\ left'[d] = left[d]
    BY <2>1, <2>2 DEF TypeOK
  <2> QED BY <1>moves, <1>11, <2>1, <2>2, <2>3 DEF StartUpload, PageNext, TypeOK, PageInv
<1>12. ASSUME NEW c \in Clients, NEW i \in Items,
              \/ SendNext(c, i) \/ OverwriteFails(c, i) \/ UploadFails(c, i)
              \/ \E overwrite \in BOOLEAN : ResolveConflict(c, i, overwrite)
       PROVE  PageNext
  <2>1. /\ batch[c] # None
        /\ \E status \in Statuses : Patched(c, i, status)
    BY <1>12 DEF SendNext, OverwriteFails, UploadFails, ResolveConflict, In, Statuses
  <2>2. /\ UNCHANGED <<here, dialog, left>> /\ hung' \in BOOLEAN /\ moves' \in 0 .. MaxMoves
    BY <1>moves, <1>12 DEF SendNext, OverwriteFails, UploadFails, ResolveConflict, TypeOK
  <2> QED BY <2>1, <2>2, PatchedTyped
<1>13. ASSUME NEW c \in Clients, NEW i \in Items, Upload(c, i) \/ Overwrite(c, i) PROVE PageNext
  <2>1. PICK f, force : UploadTo(c, i, f, force) /\ batch[c] # None
    BY <1>13 DEF Upload, Overwrite, In
  <2>2. CASE hung' = TRUE /\ UNCHANGED batch
    BY <1>0, <2>1, <2>2 DEF UploadTo
  <2>3. ASSUME NEW status \in Statuses, Patched(c, i, status), UNCHANGED hung PROVE PageNext
    <3>1. /\ UNCHANGED <<here, dialog, left>> /\ hung' \in BOOLEAN /\ moves' \in 0 .. MaxMoves
      BY <2>1, <2>3 DEF UploadTo, TypeOK
    <3> QED BY <2>1, <2>3, <3>1, PatchedTyped
  <2> QED BY <2>1, <2>2, <2>3 DEF UploadTo, Statuses
<1>14. ASSUME NEW c \in Clients, CloseUploads(c) PROVE PageNext
  <2>1. batch' \in [Clients -> Batches]
    BY <1>14 DEF CloseUploads, TypeOK, Batches
  <2> QED BY <1>14, <2>1 DEF CloseUploads, PageNext, TypeOK, PageInv
<1>15. CASE UNCHANGED vars
  BY <1>0, <1>15 DEF vars, TypeOK
<1> QED
  BY <1>1, <1>2, <1>3, <1>5, <1>6, <1>7, <1>8, <1>9, <1>10, <1>11, <1>12, <1>13, <1>14, <1>15
  DEF Next

(***************************************************************************)
(* Theorems                                                                *)
(***************************************************************************)

Inv == TypeOK /\ PageInv /\ StoreInv

LEMMA InvInit == Init => Inv
<1> SUFFICES ASSUME Init PROVE Inv
  OBVIOUS
<1> DEFINE N == Cardinality(DOMAIN InitialTree)
<1>1. N \in Nat
  BY InitialAssumption, FS_CardinalityType
<1>2. /\ DOMAIN tree = 1 .. N /\ nextId = N + 1
      /\ \A n \in 1 .. N :
            tree[n] \in [type: Types, name: Names, parent: 1 .. N \union {None},
                        by: Items \union {None}]
  <2>1. InitialTree \in
          [1 .. N -> [type: Types, name: Names, parent: 1 .. N \union {None},
                      by: Items \union {None}]]
    BY InitialAssumption
  <2> HIDE DEF N
  <2>2. tree = InitialTree /\ nextId = N + 1
    BY <1>1 DEF Init, N
  <2> QED BY <2>1, <2>2
<1>3. Ids = 1 .. N
  BY <1>1, <1>2 DEF Ids
<1>4. RowTypes
  <2>1. nextId \in Nat \ {0} BY <1>1, <1>2
  <2> QED BY <1>2, <1>3, <2>1 DEF RowTypes, Init, Nodes, Parents
<1>5. Forest(tree)
  <2>1. IsFiniteSet(DOMAIN tree) /\ DOMAIN tree \subseteq Nat /\ Acyclic(tree)
    BY <1>1, <1>2, InitialAssumption DEF Init
  <2> QED BY <2>1, AcyclicIsForest
<1>6. RowsInv
  <2>1. ASSUME NEW n \in DOMAIN tree PROVE tree[n].parent # n
    BY <1>5, {n} \in SUBSET DOMAIN tree DEF Forest
  <2> QED BY <2>1, InitialAssumption DEF RowsInv, Init
<1>7. PendingInv /\ ForestInv
  BY <1>5 DEF Init, PendingInv, ForestInv
<1>8. PageInv
  BY <1>2, <1>3, InitialAssumption DEF Init, PageInv, MayShow
<1>9. TypeOK
  <2>1. here \in [Clients -> Ids]
    BY <1>2, <1>3, InitialAssumption DEF Init
  <2>2. /\ dialog \in [Clients -> Dialogs] /\ batch \in [Clients -> Batches]
        /\ left \in [Clients -> BOOLEAN] /\ hung \in BOOLEAN /\ moves \in 0 .. MaxMoves
    <3>1. None \in Dialogs /\ None \in Batches
      BY DEF Dialogs, Batches
    <3>2. moves \in 0 .. MaxMoves
      BY BoundsAssumption DEF Init
    <3> QED BY <3>1, <3>2 DEF Init
  <2>3. pending = {}
    BY DEF Init
  <2> QED BY <1>4, <2>1, <2>2, <2>3 DEF TypeOK, RowTypes
<1> QED BY <1>4, <1>6, <1>7, <1>8, <1>9 DEF Inv, StoreInv

LEMMA InvStep == Inv /\ [Next]_vars => Inv'
<1> SUFFICES ASSUME Inv, [Next]_vars PROVE Inv'
  OBVIOUS
<1>1. StoreEffect
  BY StoreStep DEF Inv
<1>2. StoreInv'
  BY <1>1, StoreKept DEF Inv
<1>3. RowsAge
  BY <1>1, RowsAgeStep DEF Inv
<1>4. PageNext
  BY PageStep DEF Inv
<1>5. \A f : MayShow(f) => MayShow(f)'
  BY <1>3 DEF RowsAge, MayShow
<1>6. PageInv'
  BY <1>4, <1>5 DEF PageNext, PageInv
<1>7. TypeOK'
  <2>1. Dialogs \subseteq Dialogs' /\ Batches \subseteq Batches'
    BY <1>3 DEF RowsAge, Dialogs, Batches
  <2>2. /\ hung' \in BOOLEAN /\ moves' \in 0 .. MaxMoves
        /\ here' \in [Clients -> Ids'] /\ left' \in [Clients -> BOOLEAN]
        /\ dialog' \in [Clients -> Dialogs'] /\ batch' \in [Clients -> Batches']
    <3> HIDE DEF Dialogs, Batches, Ids
    <3> QED BY <1>3, <1>4, <2>1 DEF PageNext, RowsAge
  <2>3. RowTypes' /\ PendingInv'
    BY <1>2 DEF StoreInv
  <2> QED BY <2>2, <2>3 DEF RowTypes, PendingInv, TypeOK
<1> QED BY <1>2, <1>6, <1>7 DEF Inv

LEMMA InvCorrect == Spec => []Inv
<1> QED BY InvInit, InvStep, PTL DEF Spec

\* Rows, pending updates, dialogs and uploads are of their types, and an update
\* that waits for its commit is of a row that is there.
THEOREM TypesCorrect == Spec => []TypeOK
<1>1. Inv => TypeOK
  BY DEF Inv
<1> QED BY <1>1, InvCorrect, PTL

\* Whatever is renamed, moved, deleted and overwritten, no folder has two nodes
\* of one name, and as long as no move was checked while another was pending
\* every walk up the tree ends.
THEOREM TreeKept == Spec => []UncrossedMovesKeepTheTree
<1>1. ASSUME Inv PROVE UncrossedMovesKeepTheTree
  <2>1. IsFiniteSet(DOMAIN tree)
    BY <1>1, TreeFinite DEF Inv, StoreInv, RowTypes, Ids
  <2>2. Placed(tree) /\ NamesApart(tree)
    BY <1>1 DEF Inv, StoreInv, RowsInv
  <2>3. ~crossed => Forest(tree)
    BY <1>1 DEF Inv, StoreInv, ForestInv
  <2> QED BY <2>1, <2>2, <2>3, ForestIsAcyclic DEF UncrossedMovesKeepTheTree
<1>2. Inv => UncrossedMovesKeepTheTree
  BY <1>1
<1> QED BY <1>2, InvCorrect, PTL

\* What an upload that is overwritten from its own folder may change.
Touched(n) ==
    \/ n \notin DOMAIN tree' \/ tree'[n] # tree[n]
    \/ \E u \in pending' \ pending : u.node = n

Named(c, i) ==
    \A n \in DOMAIN tree : Touched(n) =>
        \E a \in DOMAIN tree :
            /\ tree[a].parent = batch[c].folder /\ tree[a].name = NameOf[i]
            /\ n = a \/ tree[n].parent = a

LEMMA OnlyOverwriteEnds ==
    ASSUME Inv, Next, NEW c \in Clients, NEW i \in Items,
           In(c, i, "forced"), batch'[c].status[i] # "forced"
    PROVE  \/ Overwrite(c, i) \/ OverwriteFails(c, i)
           \/ UNCHANGED <<tree, pending>>
<1> USE DEF store, page
<1>1. /\ batch[c] # None /\ batch[c].status[i] = "forced"
      /\ batch[c] \in [folder: Ids, status: [Items -> Statuses \union {None}]]
      /\ batch \in [Clients -> Batches]
  BY DEF Inv, In, TypeOK, Batches
<1>2. UNCHANGED batch => FALSE
  BY <1>1
<1>3. ASSUME NEW d \in Clients, NEW j \in Items, NEW status, Patched(d, j, status)
      PROVE  d = c /\ j = i
  <2>1. CASE d # c
    BY <1>1, <1>3, <2>1 DEF Patched
  <2>2. CASE d = c
    <3>1. batch'[c].status = [batch[c].status EXCEPT ![j] = status]
      BY <1>1, <1>3, <2>2 DEF Patched
    <3> QED BY <1>1, <2>2, <3>1
  <2> QED BY <2>1, <2>2
<1>4. ASSUME NEW d \in Clients, NEW j \in Items, Upload(d, j) PROVE FALSE
  <2>1. d = c /\ j = i
    BY <1>2, <1>3, <1>4 DEF Upload, UploadTo
  <2> QED BY <1>1, <1>4, <2>1 DEF Upload, In
<1>5. ASSUME NEW d \in Clients, NEW j \in Items, Overwrite(d, j) PROVE Overwrite(c, i)
  BY <1>2, <1>3, <1>5 DEF Overwrite, UploadTo
<1>6. ASSUME NEW d \in Clients, NEW j \in Items, OverwriteFails(d, j)
      PROVE  OverwriteFails(c, i)
  BY <1>3, <1>6 DEF OverwriteFails
<1>7. ASSUME \/ \E u \in pending : Commit(u)
             \/ \E d \in Clients : CreateFolder(d) \/ DeleteFile(d) \/ UpdateFile(d)
      PROVE  UNCHANGED batch
  BY <1>7 DEF Commit, Blocks, CreateFolder, DeleteFile, UpdateFile, Refuse
<1>8. ASSUME NEW d \in Clients,
             \/ \E f \in Ids : Navigate(d, f)
             \/ Load(d) \/ Breadcrumb(d)
             \/ \E name \in Names : AskCreate(d, name)
             \/ \E n \in Ids :
                    \/ AskDelete(d, n)
                    \/ \E name \in Names : AskRename(d, n, name)
                    \/ \E p \in Ids : AskMove(d, n, p)
             \/ CloseDialog(d)
             \/ \E chosen \in SUBSET Items \ {{}} : StartUpload(d, chosen)
             \/ \E j \in Items :
                    \/ SendNext(d, j) \/ UploadFails(d, j)
                    \/ \E overwrite \in BOOLEAN : ResolveConflict(d, j, overwrite)
             \/ CloseUploads(d)
      PROVE  UNCHANGED <<tree, pending>>
  BY <1>8 DEF Navigate, Load, Breadcrumb, Blocks, AskCreate, AskDelete, AskRename, AskMove,
              Open, CloseDialog, StartUpload, SendNext, UploadFails, ResolveConflict,
              CloseUploads
<1> QED BY <1>2, <1>4, <1>5, <1>6, <1>7, <1>8 DEF Next

\* A step that deletes, replaces or fills n again touches n and its children.
LEMMA NamedOnly ==
    ASSUME NEW c \in Clients, NEW i \in Items, here[c] = batch[c].folder,
           NEW n \in Existing(tree, here[c], i),
           \A m \in DOMAIN tree : Touched(m) => m = n \/ tree[m].parent = n
    PROVE  Named(c, i)
BY DEF Named, Existing, Children

LEMMA OverwriteNames ==
    ASSUME Inv, NEW c \in Clients, NEW i \in Items, ~left[c],
           \/ Overwrite(c, i) \/ OverwriteFails(c, i)
           \/ UNCHANGED <<tree, pending>>
    PROVE  Named(c, i)
<1> DEFINE f == here[c]
<1>1. CASE UNCHANGED <<tree, pending>>
  BY <1>1 DEF Named, Touched
<1>2. ~(UNCHANGED <<tree, pending>>) => f = batch[c].folder
  BY DEF Overwrite, OverwriteFails, In, Inv, PageInv
<1>3. nextId \notin DOMAIN tree
  BY TreeFinite DEF Inv, StoreInv, RowTypes, Ids
<1>4. CASE tree' = With(tree, nextId, Uploaded(f, i)) /\ UNCHANGED pending
  BY <1>3, <1>4 DEF Named, Touched, With
<1>5. ASSUME NEW n \in Existing(tree, f, i), Overwritten(n, f, i) PROVE Named(c, i)
  <2>1. n \in DOMAIN tree
    BY <1>5 DEF Existing, Children
  <2>2. \A m \in DOMAIN tree : Touched(m) => m = n \/ tree[m].parent = n
    <3>1. CASE tree' = Refilled(tree, n, i) /\ UNCHANGED pending
      BY <2>1, <3>1 DEF Touched, Refilled, With, Restrict, Children
    <3>2. CASE pending' = pending \union {Refill(tree, n, i)} /\ UNCHANGED tree
      BY <3>2 DEF Touched, Refill
    <3>3. CASE tree' = With(Without(tree, n), nextId, Uploaded(f, i)) /\ UNCHANGED pending
      BY <1>3, <2>1, <3>3 DEF Touched, With, Without
    <3> QED BY <1>5, <3>1, <3>2, <3>3 DEF Overwritten
  <2> QED BY <1>1, <1>2, <1>5, <2>2, NamedOnly
<1>6. ASSUME NEW n \in Existing(tree, f, i), tree' = Without(tree, n), UNCHANGED pending
      PROVE  Named(c, i)
  <2>1. \A m \in DOMAIN tree : Touched(m) => m = n \/ tree[m].parent = n
    BY <1>6 DEF Touched, Without
  <2> QED BY <1>1, <1>2, <1>6, <2>1, NamedOnly
<1>7. CASE Overwrite(c, i)
  BY <1>1, <1>4, <1>5, <1>7 DEF Overwrite, UploadTo
<1>8. CASE OverwriteFails(c, i)
  BY <1>6, <1>8 DEF OverwriteFails
<1> QED BY <1>1, <1>7, <1>8

\* "Ecraser", pressed on a page that stayed on the folder of its uploads, changes
\* the node of that name there and its children, and no other row.
THEOREM OverwritesNamedOnly == Spec => OverwritesWhatIsNamed
<1>1. Inv /\ [Next]_vars =>
        [\A c \in Clients, i \in Items :
            In(c, i, "forced") /\ ~left[c] /\ batch[c]'.status[i] # "forced" =>
               Named(c, i)]_vars
  BY OnlyOverwriteEnds, OverwriteNames
<1> QED BY <1>1, InvCorrect, PTL DEF Spec, OverwritesWhatIsNamed, Named, Touched
=============================================================================
