------------------------------ MODULE FileTree ------------------------------
(* The shared files: the tree kept by the server and the pages on which        *)
(* members browse, rename, move, delete and upload (src/frontend/app/src/      *)
(* pages/files; backend bbe2/services/files.py, api/v1/endpoints/files.py).    *)
(*                                                                             *)
(* A handler runs to its end on the event loop.  Creations and deletions       *)
(* commit in it; a rename, a move or a file filled again is committed after    *)
(* its answer is sent, so the handlers in between read the tree without it,    *)
(* and one that needs a row, a parent or a name it holds waits on the event    *)
(* loop, for ever (EventLoop shows why).  The database refuses two children of *)
(* one name (not two rows without parent) and a parent that does not exist.    *)
(* What a score container becomes is in ScoreContainer: here it is a node with *)
(* outputs below it.  Members may create, edit and delete.                     *)
EXTENDS Naturals, FiniteSets, Functions

CONSTANTS
    Clients,        \* pages open on the files
    Names,
    Items,          \* files that people upload
    NameOf,         \* NameOf[i]: the name of upload i
    IsSource,       \* IsSource[i]: it is a score the server converts
    InitialTree,    \* the nodes there are at first, by id
    Root,           \* the id of the root
    OpenAt,         \* OpenAt[c]: the folder page c is opened on
    Workers,        \* uploads a page sends at a time
    None,
    MaxMoves        \* bound on what people start and on refused requests

ASSUME ItemsAssumption ==
    /\ NameOf \in [Items -> Names]
    /\ IsSource \in [Items -> BOOLEAN]
ASSUME BoundsAssumption == Workers \in Nat \ {0} /\ MaxMoves \in Nat

VARIABLES
    tree,           \* tree[n]: the committed row of node n
    nextId,         \* the id of the next row
    pending,        \* the renames, moves and fillings not yet committed
    hung,           \* is the event loop in a walk or a wait without end?
    here,           \* here[c]: the folder page c is on
    listing,        \* listing[c]: its children as page c last read them
    dialog,         \* dialog[c]: the open dialog, and its answer if it has one
    batch,          \* batch[c]: the uploads of the progress dialog
    moves,          \* moves made, up to MaxMoves
    crossed,        \* history: was a move checked while another was pending?
    left            \* history: has page c changed folder since its uploads began?

store == <<tree, nextId, pending, hung>>
page  == <<here, listing>>
vars  == <<store, page, dialog, batch, moves, crossed, left>>

Types    == {"DIR", "FILE", "CONTAINER"}
Ids      == 1 .. nextId - 1            \* given so far
Parents  == Ids \union {None}
Nodes    == [type: Types, name: Names, parent: Parents, by: Items \union {None}]
Updates  == [node: Ids, name: Names, parent: Parents, by: Items \union {None}]
Statuses == {"queued", "sent", "forced", "conflict", "done", "error", "skipped"}
ASSUME NoneAssumption == None \notin Nat \union Statuses

Batches  == {None} \union [folder: Ids, status: [Items -> Statuses \union {None}]]
Answers  == {"asked", "sent", "accepted", "refused"}
Creations == [kind: {"create"}, name: Names, state: Answers]
Dialogs   ==
    {None} \union Creations
           \union [kind: {"rename"}, node: Ids, name: Names, state: Answers]
           \union [kind: {"move"}, node: Ids, parent: Ids, state: Answers]
           \union [kind: {"delete"}, node: Ids, state: Answers]

Move == moves < MaxMoves /\ moves' = moves + 1

(***************************************************************************)
(* The server                                                              *)
(***************************************************************************)

Children(t, f) == {n \in DOMAIN t : t[n].parent = f}

WithParents(t, nodes) == nodes \union ({t[n].parent : n \in nodes} \cap DOMAIN t)

(* The nodes of the walk up from n; in a cycle it never gets to the end. *)
WalkUp(t, n) ==
    LET reached[k \in 0 .. Cardinality(DOMAIN t)] ==
            IF k = 0 THEN {n}
            ELSE WithParents(t, reached[k - 1])
    IN  reached[Cardinality(DOMAIN t)]

WalkEnds(t, n) == \E a \in WalkUp(t, n) : t[a].parent = None

Acyclic(t) == \A n \in DOMAIN t : WalkEnds(t, n)

(* The rows the database and the handlers admit: a node is in a folder, or is  *)
(* an output of a container.                                                  *)
Placed(t) ==
    \A n \in DOMAIN t : t[n].parent # None =>
        /\ t[n].parent \in DOMAIN t
        /\ \/ t[t[n].parent].type = "DIR"
           \/ t[t[n].parent].type = "CONTAINER" /\ t[n].type = "FILE"

NamesApart(t) ==
    \A n, m \in DOMAIN t :
        n # m /\ t[n].parent = t[m].parent /\ t[n].parent # None => t[n].name # t[m].name

InContainer(t, n) ==
    t[n].parent # None /\ t[t[n].parent].type = "CONTAINER"

(* Mutant: only the folder itself is looked at. *)
BugSelfOnly(t, n, a) == n = a

IsDescendantOrSelf(t, n, a) == a \in WalkUp(t, n)

(* Where a node may be moved: to a folder, the root never, and no folder      *)
(* below itself.                                                              *)
ValidMoveTarget(t, n, p) ==
    /\ t[n].parent # None
    /\ p \in DOMAIN t
    /\ t[p].type = "DIR"
    /\ t[n].type = "DIR" => ~IsDescendantOrSelf(t, p, n)

Taken(t, name, p, except) ==
    \E m \in Children(t, p) \ {except} : t[m].name = name

(* update_file: whether it accepts the new name and parent of node n. *)
AcceptsUpdate(t, u) ==
    /\ u.node \in DOMAIN t
    /\ ~InContainer(t, u.node)
    /\ u.parent # t[u.node].parent => ValidMoveTarget(t, u.node, u.parent)
    /\ ~Taken(t, u.name, u.parent, u.node)

Applied(t, updates) ==
    [n \in DOMAIN t |->
        IF \E u \in updates : u.node = n
        THEN LET u == CHOOSE u \in updates : u.node = n
             IN  [t[n] EXCEPT !.name = u.name, !.parent = u.parent, !.by = u.by]
        ELSE t[n]]

Moved(u) == u.parent # tree[u.node].parent

(* Mutant: nothing is held by what is not committed. *)
BugNothingHeld(written, read, place) == FALSE

(* Must what writes and reads these rows and takes this place, a name below a *)
(* parent, wait?  An update holds its row, its place and the parent it moved  *)
(* its row to.                                                                *)
Waits(written, read, place) ==
    \E u \in pending :
        \/ u.node \in written \union read
        \/ Moved(u) /\ u.parent \in written
        \/ u.parent # None /\ place = <<u.name, u.parent>>

(* session.delete: the children lose their parent. *)
Deleted(t, n) == {n} \union Children(t, n)

Without(t, n) ==
    [m \in DOMAIN t \ {n} |->
        IF t[m].parent = n THEN [t[m] EXCEPT !.parent = None] ELSE t[m]]

(* A new row below f: its id, unless the database refuses it. *)
MayInsert(t, f, name) ==
    /\ f \in DOMAIN t
    /\ ~Taken(t, name, f, None)

With(t, n, node) == [m \in DOMAIN t \union {n} |-> IF m = n THEN node ELSE t[m]]

(* Mutant: the name is looked for in the whole tree. *)
BugAnyFolder(t, f, i) == {n \in DOMAIN t : t[n].name = NameOf[i]}

(* The node an upload of i into f would overwrite. *)
Existing(t, f, i) == {n \in Children(t, f) : t[n].name = NameOf[i]}

(* upload_file is answered 409 unless the page insists. *)
Conflicts(t, f, i, force) == Existing(t, f, i) # {} /\ ~force

SameKind(t, n, i) == t[n].type = (IF IsSource[i] THEN "CONTAINER" ELSE "FILE")

(* A container is filled again without its former outputs, and committed... *)
Refilled(t, n, i) ==
    With(Restrict(t, DOMAIN t \ Children(t, n)), n, [t[n] EXCEPT !.by = i])

(* ... a file is only flushed... *)
Refill(t, n, i) ==
    [node |-> n, name |-> t[n].name, parent |-> t[n].parent, by |-> i]

Uploaded(f, i) ==
    [type |-> IF IsSource[i] THEN "CONTAINER" ELSE "FILE",
     name |-> NameOf[i], parent |-> f, by |-> i]

(* ... and anything else of that name is deleted and made anew. *)
Overwritten(n, f, i) ==
    \/ /\ SameKind(tree, n, i) /\ IsSource[i]
       /\ tree' = Refilled(tree, n, i)
       /\ UNCHANGED <<nextId, pending>>
    \/ /\ SameKind(tree, n, i) /\ ~IsSource[i]
       /\ pending' = pending \union {Refill(tree, n, i)}
       /\ UNCHANGED <<tree, nextId>>
    \/ /\ ~SameKind(tree, n, i)
       /\ tree' = With(Without(tree, n), nextId, Uploaded(f, i))
       /\ nextId' = nextId + 1
       /\ UNCHANGED pending

AcceptsUpload(t, f, i) ==
    /\ f \in DOMAIN t /\ t[f].type # "CONTAINER"
    /\ Existing(t, f, i) = {} => MayInsert(t, f, NameOf[i])

(* The session of a request is committed. *)
Commit(u) ==
    /\ ~hung
    /\ u \in pending
    /\ tree' = Applied(tree, {u})
    /\ pending' = pending \ {u}
    /\ UNCHANGED <<nextId, hung, page, dialog, batch, moves, crossed, left>>

(* The handler waits for an update, whose commit waits for the event loop. *)
Blocks ==
    /\ hung' = TRUE
    /\ UNCHANGED <<tree, nextId, pending, page, dialog, batch, moves, crossed, left>>

(***************************************************************************)
(* A page                                                                  *)
(***************************************************************************)

(* A link, the breadcrumb or the browser's buttons: the dialogs stay. *)
Navigate(c, f) ==
    /\ Move
    /\ f \in DOMAIN tree /\ tree[f].type # "FILE" /\ f # here[c]
    /\ here'    = [here EXCEPT ![c] = f]
    /\ listing' = [listing EXCEPT ![c] = None]
    /\ left'    = [left EXCEPT ![c] = TRUE]
    /\ UNCHANGED <<store, dialog, batch, crossed>>

(* The row of the folder, its children and the breadcrumb are read on mount,  *)
(* after a change, while a score is converted and on focus.                   *)
Found(f) == ~hung /\ f \in DOMAIN tree

Listed(f) == Restrict(tree, Children(tree, f))

Load(c) ==
    /\ Found(here[c]) /\ WalkEnds(tree, here[c])
    /\ listing[c] # Listed(here[c])
    /\ listing' = [listing EXCEPT ![c] = Listed(here[c])]
    /\ UNCHANGED <<store, here, dialog, batch, moves, crossed, left>>

(* The breadcrumb of the folder is read by walking up to the root. *)
Breadcrumb(c) ==
    /\ Found(here[c]) /\ ~WalkEnds(tree, here[c])
    /\ Blocks

(* effectivePermissions: nothing is changed from within a container. *)
CanWriteHere(c) ==
    /\ listing[c] # None
    /\ here[c] \in DOMAIN tree /\ tree[here[c]].type # "CONTAINER"

(* The entries of the menu of a listed node. *)
Offered(c, n, action) ==
    /\ CanWriteHere(c) /\ n \in DOMAIN listing[c]
    /\ action = "rename" => listing[c][n].type # "CONTAINER"

(* One dialog covers the page. *)
Open(c, d) ==
    /\ Move
    /\ CanWriteHere(c) /\ dialog[c] = None /\ batch[c] = None
    /\ dialog' = [dialog EXCEPT ![c] = d]
    /\ UNCHANGED <<store, page, batch, crossed, left>>

AskCreate(c, name) == Open(c, [kind |-> "create", name |-> name, state |-> "asked"])

AskDelete(c, n) ==
    Offered(c, n, "delete") /\ Open(c, [kind |-> "delete", node |-> n, state |-> "asked"])

AskRename(c, n, name) ==
    /\ Offered(c, n, "rename")
    /\ Open(c, [kind |-> "rename", node |-> n, name |-> name, state |-> "asked"])

(* The folders of the move dialog are browsed from the root. *)
Browsed(p) == p \in DOMAIN tree /\ tree[p].type = "DIR" /\ Root \in WalkUp(tree, p)

AskMove(c, n, p) ==
    /\ Offered(c, n, "move")
    /\ Browsed(p) /\ p # listing[c][n].parent
    /\ Open(c, [kind |-> "move", node |-> n, parent |-> p, state |-> "asked"])

Sending(c, kind) ==
    dialog[c] # None /\ dialog[c].kind = kind /\ dialog[c].state = "asked" /\ ~hung

Answer(c, accepted) ==
    dialog' = [dialog EXCEPT ![c].state = IF accepted THEN "accepted" ELSE "refused"]

Refuse(c) == Answer(c, FALSE) /\ UNCHANGED <<store, page, batch, moves, crossed, left>>

(* "Creer": in the folder the page is on by then. *)
MayCreate(f, name) == MayInsert(tree, f, name) /\ tree[f].type # "CONTAINER"

CreateFolder(c) ==
    /\ Sending(c, "create")
    /\ LET name == dialog[c].name
       IN  \/ ~MayCreate(here[c], name) /\ Refuse(c)
           \/ MayCreate(here[c], name) /\ Waits({}, {here[c]}, <<name, here[c]>>) /\ Blocks
           \/ /\ MayCreate(here[c], name) /\ ~Waits({}, {here[c]}, <<name, here[c]>>)
              /\ tree' = With(tree, nextId,
                     [type |-> "DIR", name |-> name, parent |-> here[c], by |-> None])
              /\ nextId' = nextId + 1
              /\ Answer(c, TRUE)
              /\ UNCHANGED <<pending, hung, page, batch, moves, crossed, left>>

(* "Supprimer" *)
MayDelete(n) == n \in DOMAIN tree /\ ~InContainer(tree, n)

DeleteFile(c) ==
    /\ Sending(c, "delete")
    /\ LET n == dialog[c].node
       IN  \/ ~MayDelete(n) /\ Refuse(c)
           \/ MayDelete(n) /\ Waits(Deleted(tree, n), {}, None) /\ Blocks
           \/ /\ MayDelete(n) /\ ~Waits(Deleted(tree, n), {}, None)
              /\ tree' = Without(tree, n)
              /\ Answer(c, TRUE)
              /\ UNCHANGED <<nextId, pending, hung, page, batch, moves, crossed, left>>

(* PATCH /files/<id>: the part of the row the dialog names. *)
Patch(d) ==
    [node   |-> d.node,
     name   |-> IF d.kind = "rename" THEN d.name ELSE tree[d.node].name,
     parent |-> IF d.kind = "move" THEN d.parent ELSE tree[d.node].parent,
     by     |-> tree[d.node].by]

MayUpdate(d) == d.node \in DOMAIN tree /\ AcceptsUpdate(tree, Patch(d))

(* A rename does not look at the parent's row. *)
UpdateWaits(u) ==
    Waits({u.node}, IF Moved(u) THEN {u.parent} ELSE {}, <<u.name, u.parent>>)

(* The walk up from the target of a folder comes before the name is looked at. *)
EndlessWalk(u) ==
    /\ ~InContainer(tree, u.node) /\ tree[u.node].type = "DIR" /\ Moved(u)
    /\ ValidMoveTarget(tree, u.node, u.parent) /\ ~WalkEnds(tree, u.parent)

UpdateHangs(d) ==
    /\ d.node \in DOMAIN tree
    /\ EndlessWalk(Patch(d)) \/ (MayUpdate(d) /\ UpdateWaits(Patch(d)))

UpdateFile(c) ==
    /\ Sending(c, "rename") \/ Sending(c, "move")
    /\ LET d == dialog[c]
       IN  \/ UpdateHangs(d) /\ Blocks
           \/ ~UpdateHangs(d) /\ ~MayUpdate(d) /\ Refuse(c)
           \/ /\ ~UpdateHangs(d) /\ MayUpdate(d)
              /\ pending' = pending \union {Patch(d)}
              /\ crossed' = (crossed \/ (Moved(Patch(d)) /\ \E u \in pending : Moved(u)))
              /\ Answer(c, TRUE)
              /\ UNCHANGED <<tree, nextId, hung, page, batch, moves, left>>

(* A refused rename or move may be tried again; the other dialogs close. *)
CloseDialog(c) ==
    /\ dialog[c] # None
    /\ dialog[c].state # "asked"
    /\ dialog' = [dialog EXCEPT ![c] = None]
    /\ UNCHANGED <<store, page, batch, moves, crossed, left>>

(***************************************************************************)
(* Uploads                                                                 *)
(***************************************************************************)

(* Dropped on the page, or chosen: all are listed as being sent. *)
StartUpload(c, chosen) ==
    /\ Move
    /\ CanWriteHere(c) /\ dialog[c] = None /\ batch[c] = None
    /\ batch' = [batch EXCEPT ![c] =
           [folder |-> here[c],
            status |-> [i \in Items |-> IF i \in chosen THEN "queued" ELSE None]]]
    /\ left' = [left EXCEPT ![c] = FALSE]
    /\ UNCHANGED <<store, page, dialog, crossed>>

In(c, i, status) == batch[c] # None /\ batch[c].status[i] = status

(* Mutant: a worker stops at an upload that fails. *)
BugFailureStopsWorker(c) == {i \in Items : In(c, i, "sent") \/ In(c, i, "error")}

(* runWithConcurrency: the uploads its workers are at. *)
InFlight(c) == {i \in Items : In(c, i, "sent")}

Patched(c, i, status) == batch' = [batch EXCEPT ![c].status[i] = status]

SendNext(c, i) ==
    /\ In(c, i, "queued")
    /\ Cardinality(InFlight(c)) < Workers
    /\ Patched(c, i, "sent")
    /\ UNCHANGED <<store, page, dialog, moves, crossed, left>>

UploadWaits(f, i) ==
    \/ Existing(tree, f, i) = {} /\ Waits({}, {f}, <<NameOf[i], f>>)
    \/ \E n \in Existing(tree, f, i) : Waits(Deleted(tree, n), {}, None)

(* uploadOne, answered: into the folder the uploads were dropped on, or, when *)
(* forced, the one the page was on when the conflict was resolved.            *)
UploadTo(c, i, f, force) ==
    /\ ~hung
    /\ \/ /\ Conflicts(tree, f, i, force)
          /\ Patched(c, i, "conflict")
          /\ UNCHANGED <<tree, nextId, pending, hung>>
       \/ /\ ~Conflicts(tree, f, i, force) /\ ~AcceptsUpload(tree, f, i)
          /\ Patched(c, i, "error")
          /\ UNCHANGED <<tree, nextId, pending, hung>>
       \/ /\ Existing(tree, f, i) = {} /\ AcceptsUpload(tree, f, i)
          /\ ~Waits({}, {f}, <<NameOf[i], f>>)
          /\ tree' = With(tree, nextId, Uploaded(f, i))
          /\ nextId' = nextId + 1
          /\ Patched(c, i, "done")
          /\ UNCHANGED <<pending, hung>>
       \/ /\ force /\ AcceptsUpload(tree, f, i)
          /\ \E n \in Existing(tree, f, i) :
                ~Waits(Deleted(tree, n), {}, None) /\ Overwritten(n, f, i)
          /\ Patched(c, i, "done")
          /\ UNCHANGED hung
       \/ /\ ~Conflicts(tree, f, i, force) /\ AcceptsUpload(tree, f, i)
          /\ UploadWaits(f, i)
          /\ hung' = TRUE
          /\ UNCHANGED <<tree, nextId, pending, batch>>
    /\ UNCHANGED <<page, dialog, moves, crossed, left>>

Upload(c, i) == In(c, i, "sent") /\ UploadTo(c, i, batch[c].folder, FALSE)

Overwrite(c, i) == In(c, i, "forced") /\ UploadTo(c, i, here[c], TRUE)

(* What is of another kind is deleted and committed before the object is sent, *)
(* so that a refused object leaves neither.                                    *)
OverwriteFails(c, i) ==
    /\ Move
    /\ ~hung
    /\ In(c, i, "forced") /\ AcceptsUpload(tree, here[c], i)
    /\ \E n \in Existing(tree, here[c], i) :
          /\ ~SameKind(tree, n, i)
          /\ ~Waits(Deleted(tree, n), {}, None)
          /\ tree' = Without(tree, n)
    /\ Patched(c, i, "error")
    /\ UNCHANGED <<nextId, pending, hung, page, dialog, crossed, left>>

(* A request that does not come through, or whose object is refused before    *)
(* anything is changed.                                                       *)
UploadFails(c, i) ==
    /\ Move
    /\ In(c, i, "sent") \/ In(c, i, "forced")
    /\ Patched(c, i, "error")
    /\ UNCHANGED <<store, page, dialog, crossed, left>>

(* "Ignorer" or "Ecraser" *)
ResolveConflict(c, i, overwrite) ==
    /\ In(c, i, "conflict")
    /\ Patched(c, i, IF overwrite THEN "forced" ELSE "skipped")
    /\ UNCHANGED <<store, page, dialog, moves, crossed, left>>

(* The dialog can be closed once every upload is settled, and closes by itself *)
(* when all are done.                                                          *)
Settled(c) ==
    \A i \in Items : batch[c].status[i] \in {None, "done", "error", "skipped"}

CloseUploads(c) ==
    /\ batch[c] # None /\ Settled(c)
    /\ batch' = [batch EXCEPT ![c] = None]
    /\ UNCHANGED <<store, page, dialog, moves, crossed, left>>

ASSUME InitialAssumption ==
    /\ IsFiniteSet(DOMAIN InitialTree)
    /\ LET ids == 1 .. Cardinality(DOMAIN InitialTree)
       IN  InitialTree \in
              [ids -> [type: Types, name: Names, parent: ids \union {None}, by: Items \union {None}]]
    /\ Placed(InitialTree) /\ Acyclic(InitialTree) /\ NamesApart(InitialTree)
    /\ Root \in DOMAIN InitialTree
    /\ OpenAt \in [Clients -> {n \in DOMAIN InitialTree : InitialTree[n].type # "FILE"}]

Init ==
    /\ tree    = InitialTree
    /\ nextId  = 1 + Cardinality(DOMAIN InitialTree)
    /\ pending = {}
    /\ hung    = FALSE
    /\ here    = OpenAt
    /\ listing = [c \in Clients |-> None]
    /\ dialog  = [c \in Clients |-> None]
    /\ batch   = [c \in Clients |-> None]
    /\ moves   = 0
    /\ crossed = FALSE
    /\ left    = [c \in Clients |-> FALSE]

Next ==
    \/ \E u \in pending : Commit(u)
    \/ \E c \in Clients :
           \/ \E f \in Ids : Navigate(c, f)
           \/ Load(c) \/ Breadcrumb(c)
           \/ \E name \in Names : AskCreate(c, name)
           \/ \E n \in Ids :
                  \/ AskDelete(c, n)
                  \/ \E name \in Names : AskRename(c, n, name)
                  \/ \E p \in Ids : AskMove(c, n, p)
           \/ CreateFolder(c) \/ DeleteFile(c) \/ UpdateFile(c)
           \/ CloseDialog(c)
           \/ \E chosen \in SUBSET Items \ {{}} : StartUpload(c, chosen)
           \/ \E i \in Items :
                  \/ SendNext(c, i) \/ Upload(c, i) \/ Overwrite(c, i)
                  \/ OverwriteFails(c, i) \/ UploadFails(c, i)
                  \/ \E overwrite \in BOOLEAN : ResolveConflict(c, i, overwrite)
           \/ CloseUploads(c)

(* Requests are answered and committed, and a member answers the conflicts. *)
Fairness ==
    /\ WF_vars(\E u \in pending : Commit(u))
    /\ \A c \in Clients :
           /\ WF_vars(CloseUploads(c))
           /\ \A i \in Items :
                  /\ WF_vars(SendNext(c, i))
                  /\ WF_vars(Upload(c, i) \/ Overwrite(c, i))
                  /\ WF_vars(\E overwrite \in BOOLEAN : ResolveConflict(c, i, overwrite))

Spec == Init /\ [][Next]_vars /\ Fairness

(***************************************************************************)
(* Properties                                                              *)
(***************************************************************************)

TypeOK ==
    /\ DOMAIN tree \subseteq Ids
    /\ \A n \in DOMAIN tree : tree[n] \in Nodes
    /\ nextId \in Nat \ {0}
    /\ pending \subseteq Updates /\ \A u \in pending : u.node \in DOMAIN tree
    /\ hung \in BOOLEAN
    /\ here \in [Clients -> Ids]
    /\ dialog \in [Clients -> Dialogs] /\ batch \in [Clients -> Batches]
    /\ moves \in 0 .. MaxMoves
    /\ crossed \in BOOLEAN
    /\ left \in [Clients -> BOOLEAN]

(* Renames, moves, deletions and forced uploads never leave two children of    *)
(* one folder with one name, and leave a forest as long as no move was checked *)
(* while another was waiting to be committed.                                  *)
UncrossedMovesKeepTheTree ==
    /\ NamesApart(tree)
    /\ ~crossed => Acyclic(tree)

(* While its page stays on the folder, "Ecraser", answered or failed half way,  *)
(* touches the node of that name in that folder and its children: no other row  *)
(* is lost, changed or about to be.                                             *)
OverwritesWhatIsNamed ==
    [][\A c \in Clients, i \in Items :
           In(c, i, "forced") /\ ~left[c] /\ batch[c]'.status[i] # "forced" =>
               \A n \in DOMAIN tree :
                   \/ n \notin DOMAIN tree' \/ tree'[n] # tree[n]
                   \/ \E u \in pending' \ pending : u.node = n
                   =>
                   \E a \in DOMAIN tree :
                       /\ tree[a].parent = batch[c].folder /\ tree[a].name = NameOf[i]
                       /\ n = a \/ tree[n].parent = a]_vars

(* Uploads that were dropped on a folder all come to an end, one after the     *)
(* other and with their conflicts answered, and the dialog can be left: unless *)
(* the server is stopped.                                                      *)
BatchesSettle == \A c \in Clients : (batch[c] # None) ~> (batch[c] = None \/ hung)

=============================================================================
