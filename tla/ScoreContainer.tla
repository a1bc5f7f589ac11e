--------------------------- MODULE ScoreContainer ---------------------------
(***************************************************************************)
(* A score container and the generation of its PDFs.                       *)
(*                                                                         *)
(* A member uploads a score source; FileService.upload stores it in S3,    *)
(* writes a CONTAINER row and hands ConversionService.generate to the      *)
(* server's thread pool.  The job renders the source it finds in the row   *)
(* and writes the PDFs back as child rows.  Meanwhile the event loop goes  *)
(* on serving requests: the same score is uploaded again with force, or    *)
(* the container is deleted.                                               *)
(*                                                                         *)
(* The request handlers are `async def` with a synchronous body, so one    *)
(* request runs at a time (`req`); the jobs run in threads, so every       *)
(* SELECT, COMMIT and S3 call of a job or of the request is a step of its  *)
(* own.  Postgres runs at READ COMMITTED and the code takes no row lock.   *)
(*                                                                         *)
(* Uploads are numbered.  Upload u stores its source under the fresh key    *)
(* <<u, Source>> and starts at most one job, also called u, which stores   *)
(* the PDF of part p under the fresh key <<u, p>>.  The number of uploads  *)
(* is the bound of the model.                                              *)
(***************************************************************************)
EXTENDS Naturals, FiniteSets

CONSTANTS
    Containers,      \* ids of container rows; the sequence never reuses one
    MaxUploads,      \* uploads of a score source (bound)
    Parts,           \* display names of rendered parts
    Source,          \* stands for the source in the key of an object
    PartsOf,         \* the parts a renderer finds in the source of an upload
    None,            \* no container, no upload
    MaxFaults        \* refused S3 deletes and process deaths (bound)

ASSUME BoundsAssumption ==
    MaxUploads \in Nat /\ MaxFaults \in Nat

Uploads == 1 .. MaxUploads

ASSUME PartsAssumption ==
    PartsOf \in [Uploads -> (SUBSET Parts) \ {{}}]

ASSUME NamesAssumption ==
    None \notin Containers \cup Nat /\ Source \notin Parts

PdfKeys == Uploads \X Parts
Keys == Uploads \X (Parts \cup {Source})
SourceKey(u) == <<u, Source>>

Statuses == {"pending", "processing", "completed", "failed"}

\* A job is "queued" until a thread takes it; the last four are ends.
JobPcs == {"none", "queued", "seen", "marked", "running", "uploaded",
           "checked", "failing", "marking",
           "completed", "discarded", "failed", "lost"}

VARIABLES
    life,       \* a container row: "unused", "live" or "deleted"
    fileKey,    \* FileOrFolderDB.file_key: the upload holding the source
    status,     \* FileOrFolderDB.processing_status
    children,   \* file_key of each row whose parent_id is the container
    orphans,    \* file_key of each PDF row left with a NULL parent_id
    s3,         \* an object: "absent", "stored" or "tagged" to_delete
    req,        \* the request the event loop is serving
    job,        \* the generation job of each upload
    overtaken,  \* history: jobs a re-upload overtook past their last check
    faults      \* S3 deletes refused and process deaths so far

vars == <<life, fileKey, status, children, orphans, s3, req, job, overtaken,
          faults>>

rows == <<life, fileKey, status, children, orphans>>

-----------------------------------------------------------------------------
(* Types and initial state *)

Requests ==
    [op : {"idle", "create", "reupload", "delete"},
     pc : {"idle", "stored", "read", "loaded", "written", "tagged"},
     c : Containers \cup {None},
     u : Uploads \cup {None},
     seen : Statuses \cup {"expired"},
     victims : SUBSET PdfKeys,
     doomed : SUBSET Keys]

Idle == [op |-> "idle", pc |-> "idle", c |-> None, u |-> None,
         seen |-> "expired", victims |-> {}, doomed |-> {}]

Jobs ==
    [pc : JobPcs,
     c : Containers \cup {None},
     seen : Statuses \cup {"expired"},
     source : Uploads \cup {None}]

NoJob == [pc |-> "none", c |-> None, seen |-> "expired", source |-> None]

TypeOK ==
    /\ life \in [Containers -> {"unused", "live", "deleted"}]
    /\ fileKey \in [Containers -> Uploads \cup {None}]
    /\ status \in [Containers -> Statuses]
    /\ children \in [Containers -> SUBSET PdfKeys]
    /\ orphans \in SUBSET PdfKeys
    /\ s3 \in [Keys -> {"absent", "stored", "tagged"}]
    /\ req \in Requests
    /\ job \in [Uploads -> Jobs]
    /\ overtaken \in SUBSET Uploads
    /\ faults \in 0 .. MaxFaults

Init ==
    /\ life = [c \in Containers |-> "unused"]
    /\ fileKey = [c \in Containers |-> None]
    /\ status = [c \in Containers |-> "pending"]
    /\ children = [c \in Containers |-> {}]
    /\ orphans = {}
    /\ s3 = [k \in Keys |-> "absent"]
    /\ req = Idle
    /\ job = [u \in Uploads |-> NoJob]
    /\ overtaken = {}
    /\ faults = 0

-----------------------------------------------------------------------------
(* S3 *)

Store(ks) == s3' = [k \in Keys |-> IF k \in ks THEN "stored" ELSE s3[k]]

\* S3Helper.delete_object only tags the object; a bucket rule expires it.
Tag(ks) == s3' = [k \in Keys |-> IF k \in ks THEN "tagged" ELSE s3[k]]

\* A fault happens: within the bound, any time.
Fault == faults < MaxFaults /\ faults' = faults + 1

\* delete_object raises part way through a list of keys.
TagSome(ks) ==
    /\ Fault
    /\ \E some \in SUBSET ks : some # ks /\ Tag(some)

\* The keys the rows of a live container refer to.
KeysOf(c) == children[c] \cup {SourceKey(fileKey[c])}

\* The keys job u writes: one per part of the source it read.
Outputs(u) == {<<u, p>> : p \in IF job[u].source = None
                                THEN {} ELSE PartsOf[job[u].source]}

-----------------------------------------------------------------------------
(* Requests: a first upload *)

\* Upload numbers stand for random UUIDs: the next one is the smallest unused.
Fresh(u) ==
    /\ s3[SourceKey(u)] = "absent"
    /\ \A v \in Uploads : v < u => s3[SourceKey(v)] # "absent"

\* FileService.upload, no row of that name: the source goes to S3.
UploadNew(u, c) ==
    /\ req = Idle
    /\ Fresh(u)
    /\ life[c] = "unused"
    /\ Store({SourceKey(u)})
    /\ req' = [Idle EXCEPT !.op = "create", !.pc = "stored", !.c = c, !.u = u]
    /\ UNCHANGED <<rows, job, overtaken, faults>>

\* file_crud.create: the row is inserted, pending, and committed.
CreateRow ==
    /\ req.op = "create" /\ req.pc = "stored"
    /\ life' = [life EXCEPT ![req.c] = "live"]
    /\ fileKey' = [fileKey EXCEPT ![req.c] = req.u]
    /\ status' = [status EXCEPT ![req.c] = "pending"]
    /\ req' = [req EXCEPT !.pc = "tagged"]
    /\ UNCHANGED <<children, orphans, s3, job, overtaken, faults>>

\* Mutant: a re-upload starts no job.
BugNoJob ==
    /\ req.op \in {"create", "reupload"} /\ req.pc = "tagged"
    /\ job' = IF req.op = "create"
              THEN [job EXCEPT ![req.u].pc = "queued", ![req.u].c = req.c]
              ELSE job
    /\ req' = Idle
    /\ UNCHANGED <<rows, s3, overtaken, faults>>

\* The response is sent and its background task goes to the thread pool.
Respond ==
    /\ req.op \in {"create", "reupload"} /\ req.pc = "tagged"
    /\ job' = [job EXCEPT ![req.u].pc = "queued", ![req.u].c = req.c]
    /\ req' = Idle
    /\ UNCHANGED <<rows, s3, overtaken, faults>>

-----------------------------------------------------------------------------
(* Requests: an upload with force over a live container *)

\* The row is read (its status stays in the ORM session) and the new source
\* goes to S3.
UploadAgain(u, c) ==
    /\ req = Idle
    /\ Fresh(u)
    /\ life[c] = "live"
    /\ Store({SourceKey(u)})
    /\ req' = [Idle EXCEPT !.op = "reupload", !.pc = "read", !.c = c, !.u = u,
                           !.seen = status[c]]
    /\ UNCHANGED <<rows, job, overtaken, faults>>

\* Mutant: the replaced objects go as soon as they are listed.
BugTagFirst ==
    /\ req.op = "reupload" /\ req.pc = "read"
    /\ req' = [req EXCEPT !.pc = "loaded", !.victims = children[req.c]]
    /\ Tag(KeysOf(req.c))
    /\ UNCHANGED <<rows, job, overtaken, faults>>

\* container.children is loaded: the rows to delete and the keys to tag.
ListOutputs ==
    /\ req.op = "reupload" /\ req.pc = "read"
    /\ req' = [req EXCEPT !.pc = "loaded",
                          !.victims = children[req.c],
                          !.doomed = KeysOf(req.c)]
    /\ UNCHANGED <<rows, s3, job, overtaken, faults>>

\* crud.delete(child) commits, which expires what the session knows of the
\* container.
DeleteOutput ==
    /\ req.op = "reupload" /\ req.pc = "loaded"
    /\ \E k \in req.victims :
        /\ children' = [children EXCEPT ![req.c] = @ \ {k}]
        /\ req' = [req EXCEPT !.victims = @ \ {k}, !.seen = "expired"]
    /\ UNCHANGED <<life, fileKey, status, orphans, s3, job, overtaken,
                   faults>>

\* Mutant: the status of the container is not reset.
BugNoReset ==
    /\ req.op = "reupload" /\ req.pc = "loaded" /\ req.victims = {}
    /\ fileKey' = [fileKey EXCEPT ![req.c] = req.u]
    /\ req' = [req EXCEPT !.pc = "written"]
    /\ UNCHANGED <<life, status, children, orphans, s3, job, overtaken,
                   faults>>

\* The new key and the pending status are committed.  The ORM writes only a
\* column that changed: a status the session read as pending is not written.
CommitReupload ==
    /\ req.op = "reupload" /\ req.pc = "loaded" /\ req.victims = {}
    /\ fileKey' = [fileKey EXCEPT ![req.c] = req.u]
    /\ status' = [status EXCEPT ![req.c] =
                    IF req.seen = "pending" THEN @ ELSE "pending"]
    /\ overtaken' = overtaken \cup
         {u \in Uploads : job[u].c = req.c /\ job[u].pc = "checked"}
    /\ req' = [req EXCEPT !.pc = "written"]
    /\ UNCHANGED <<life, children, orphans, s3, job, faults>>

\* The replaced objects are tagged; if S3 refuses one, the handler raises and
\* never reaches _enqueue_generation.
TagReplaced ==
    /\ req.op = "reupload" /\ req.pc = "written"
    /\ \/ /\ Tag(req.doomed) /\ UNCHANGED faults
          /\ req' = [req EXCEPT !.pc = "tagged", !.doomed = {}]
       \/ TagSome(req.doomed) /\ req' = Idle
    /\ UNCHANGED <<rows, job, overtaken>>

-----------------------------------------------------------------------------
(* Requests: deleting a container *)

\* _delete_node_s3: children and source are tagged before any row goes.
DeleteContainer(c) ==
    /\ req = Idle
    /\ life[c] = "live"
    /\ \/ /\ Tag(KeysOf(c)) /\ UNCHANGED faults
          /\ req' = [Idle EXCEPT !.op = "delete", !.pc = "tagged", !.c = c,
                                 !.victims = children[c]]
       \/ TagSome(KeysOf(c)) /\ req' = Idle
    /\ UNCHANGED <<rows, job, overtaken>>

\* crud.delete(container): the ORM sets the parent_id of the children it has
\* loaded to NULL, then the row goes; ON DELETE CASCADE takes the children a
\* job committed since.
DropRow ==
    /\ req.op = "delete" /\ req.pc = "tagged"
    /\ life' = [life EXCEPT ![req.c] = "deleted"]
    /\ orphans' = orphans \cup req.victims
    /\ children' = [children EXCEPT ![req.c] = {}]
    /\ req' = Idle
    /\ UNCHANGED <<fileKey, status, s3, job, overtaken, faults>>

-----------------------------------------------------------------------------
(* ConversionService.generate, in a thread *)

Goto(u, pc) == job' = [job EXCEPT ![u].pc = pc]

\* session.get: a container that is gone ends the job.
JobSelect(u) ==
    /\ job[u].pc = "queued"
    /\ IF life[job[u].c] = "live"
       THEN job' = [job EXCEPT ![u].pc = "seen", ![u].seen = status[job[u].c]]
       ELSE Goto(u, "discarded")
    /\ UNCHANGED <<rows, s3, req, overtaken, faults>>

\* status = processing, commit.  A status read as processing is not written;
\* an UPDATE that finds no row raises.
JobMark(u) ==
    /\ job[u].pc = "seen"
    /\ IF life[job[u].c] = "live"
       THEN /\ status' = [status EXCEPT ![job[u].c] =
                            IF job[u].seen = "processing" THEN @
                                                          ELSE "processing"]
            /\ job' = [job EXCEPT ![u].pc = "marked", ![u].seen = "expired"]
       ELSE UNCHANGED status /\ Goto(u, "failing")
    /\ UNCHANGED <<life, fileKey, children, orphans, s3, req, overtaken,
                   faults>>

\* The commit expired the row: container.file_key reads it again.
JobReadSource(u) ==
    /\ job[u].pc = "marked"
    /\ IF life[job[u].c] = "live"
       THEN job' = [job EXCEPT ![u].pc = "running",
                               ![u].source = fileKey[job[u].c]]
       ELSE Goto(u, "failing")
    /\ UNCHANGED <<rows, s3, req, overtaken, faults>>

\* The source is downloaded and rendered, and every PDF is stored.
JobProduce(u) ==
    /\ job[u].pc = "running"
    /\ Store(Outputs(u))
    /\ Goto(u, "uploaded")
    /\ UNCHANGED <<rows, req, overtaken, faults>>

\* Mutant: generate lets the exception go without marking the container.
BugFailUnmarked(u) ==
    /\ job[u].pc = "running"
    /\ \E some \in SUBSET Outputs(u) : some # Outputs(u) /\ Tag(some)
    /\ Goto(u, "failed")
    /\ UNCHANGED <<rows, req, overtaken, faults>>

\* The download, the renderer (timeout, refusal, no output) or the upload of
\* a PDF fails; the PDFs stored so far are tagged.
JobFail(u) ==
    /\ job[u].pc = "running"
    /\ \E some \in SUBSET Outputs(u) : some # Outputs(u) /\ Tag(some)
    /\ Goto(u, "failing")
    /\ UNCHANGED <<rows, req, overtaken, faults>>

\* Mutant: the run does not compare the source it read with the row's.
BugNoSourceCheck(u) ==
    life[job[u].c] = "live" /\ status[job[u].c] = "processing"

\* The container as the job reads it before writing its results.
StillMine(u) ==
    LET c == job[u].c IN
    /\ life[c] = "live"
    /\ status[c] = "processing"
    /\ fileKey[c] = job[u].source

\* Mutant: a superseded run returns without tagging what it stored.
BugKeepDiscarded(u) ==
    /\ job[u].pc = "uploaded"
    /\ Goto(u, IF StillMine(u) THEN "checked" ELSE "discarded")
    /\ UNCHANGED <<rows, s3, req, overtaken, faults>>

\* The last look at the row: a run that was superseded tags what it stored.
JobRecheck(u) ==
    /\ job[u].pc = "uploaded"
    /\ \/ StillMine(u) /\ Goto(u, "checked") /\ UNCHANGED <<s3, faults>>
       \/ /\ ~StillMine(u)
          /\ Tag(Outputs(u)) /\ UNCHANGED faults
          /\ Goto(u, "discarded")
       \/ ~StillMine(u) /\ TagSome(Outputs(u)) /\ Goto(u, "failing")
    /\ UNCHANGED <<rows, req, overtaken>>

\* Mutant: the source is added to the children with the PDFs.
BugSourceChild(u) ==
    /\ job[u].pc = "checked" /\ life[job[u].c] = "live"
    /\ children' = [children EXCEPT ![job[u].c] =
                      @ \cup Outputs(u) \cup {SourceKey(job[u].source)}]
    /\ status' = [status EXCEPT ![job[u].c] = "completed"]
    /\ Goto(u, "completed")
    /\ UNCHANGED <<life, fileKey, orphans, s3, req, overtaken, faults>>

\* Two children of a container cannot have one name.
NamesFree(u) ==
    \A k \in children[job[u].c] : \A o \in Outputs(u) : k[2] # o[2]

\* A re-upload of c has already listed the outputs it will delete.
Listed(c) == req.op = "reupload" /\ req.pc = "loaded" /\ req.c = c

\* The children are inserted and the status becomes completed, in a commit.
\* The foreign key or the unique constraint may refuse it; the objects stay.
JobFinish(u) ==
    /\ job[u].pc = "checked"
    /\ LET c == job[u].c IN
       IF life[c] = "live" /\ NamesFree(u)
       THEN /\ children' = [children EXCEPT ![c] = @ \cup Outputs(u)]
            /\ status' = [status EXCEPT ![c] = "completed"]
            /\ overtaken' = IF Listed(c) THEN overtaken \cup {u} ELSE overtaken
            /\ Goto(u, "completed")
       ELSE UNCHANGED <<children, status, overtaken>> /\ Goto(u, "failing")
    /\ UNCHANGED <<life, fileKey, orphans, s3, req, faults>>

\* _mark_failed reads the row: only a container in processing is failed.
JobFailSelect(u) ==
    /\ job[u].pc = "failing"
    /\ IF life[job[u].c] = "live" /\ status[job[u].c] = "processing"
       THEN Goto(u, "marking")
       ELSE Goto(u, "failed")
    /\ UNCHANGED <<rows, s3, req, overtaken, faults>>

\* _mark_failed commits; an UPDATE that finds no row is logged and dropped.
JobFailCommit(u) ==
    /\ job[u].pc = "marking"
    /\ status' = IF life[job[u].c] = "live"
                 THEN [status EXCEPT ![job[u].c] = "failed"]
                 ELSE status
    /\ Goto(u, "failed")
    /\ UNCHANGED <<life, fileKey, children, orphans, s3, req, overtaken,
                   faults>>

-----------------------------------------------------------------------------
(* The process dies: the request and the jobs are in memory only *)

Ended == {"completed", "discarded", "failed", "lost"}

Active(u) == job[u].pc \notin Ended \cup {"none"}

Restart ==
    /\ Fault
    /\ req' = Idle
    /\ job' = [u \in Uploads |->
                 IF Active(u) THEN [job[u] EXCEPT !.pc = "lost"] ELSE job[u]]
    /\ UNCHANGED <<rows, s3, overtaken>>

-----------------------------------------------------------------------------

RequestStep ==
    \/ CreateRow \/ Respond
    \/ ListOutputs \/ DeleteOutput \/ CommitReupload \/ TagReplaced
    \/ DropRow

JobStep(u) ==
    \/ JobSelect(u) \/ JobMark(u) \/ JobReadSource(u)
    \/ JobProduce(u) \/ JobFail(u)
    \/ JobRecheck(u) \/ JobFinish(u)
    \/ JobFailSelect(u) \/ JobFailCommit(u)

Next ==
    \/ \E u \in Uploads, c \in Containers : UploadNew(u, c)
    \/ \E u \in Uploads, c \in Containers : UploadAgain(u, c)
    \/ \E c \in Containers : DeleteContainer(c)
    \/ RequestStep
    \/ \E u \in Uploads : JobStep(u)
    \/ Restart

\* The event loop runs a handler to its end, and a pool thread runs its job:
\* rendering is bounded by a timeout, so a running job always moves.
Fairness ==
    /\ WF_vars(RequestStep)
    /\ \A u \in Uploads : WF_vars(JobStep(u))

Spec == Init /\ [][Next]_vars

FairSpec == Spec /\ Fairness

-----------------------------------------------------------------------------
(* Properties.  A fault is a death of the process or a refused S3 delete.    *)

Live(c) == life[c] = "live"

Unsettled(c) == Live(c) /\ status[c] \in {"pending", "processing"}

\* The request being served is working on c.
Busy(c) == req # Idle /\ req.c = c

\* Every key a row of a live container refers to can be served: view and
\* download presign it without looking.  Only while the event loop is deleting
\* that very container may its objects be tagged already (files.py deletes
\* objects after the rows on a re-upload, but before them on a delete).
LiveRowsServable ==
    faults = 0 =>
      \A c \in Containers :
        Live(c) /\ ~(Busy(c) /\ req.op = "delete") =>
            \A k \in KeysOf(c) : s3[k] = "stored"

\* A container waiting for its PDFs has somebody left to settle it: a job, or
\* the request that is about to start one.  Without, the explorer shows a
\* spinner for ever; that takes a job lost with its process, or a re-upload
\* whose S3 clean-up failed before it started its job.  No interleaving of
\* superseded jobs and re-uploads does it.
UnsettledHasWorker ==
    \A c \in Containers :
        Unsettled(c) =>
            \/ Busy(c)
            \/ \E u \in Uploads : job[u].c = c /\ Active(u)
            \/ faults > 0 /\ \/ \E u \in Uploads : /\ job[u].c = c
                                                   /\ job[u].pc = "lost"
                             \/ job[fileKey[c]].pc = "none"

\* A PDF of a container was rendered from its current source, unless its job
\* was overtaken between its last look at the row and its commit (or
\* finished after a re-upload had listed the outputs to delete).  That window
\* is open, although requirement 5.5 has only the latest generation's PDFs
\* stored; the source check of ConversionService._run leaves no other way in
\* for stale PDFs.
NoStaleOutputs ==
    \A c \in Containers : \A k \in children[c] :
        \/ job[k[1]].source = fileKey[c]
        \/ k[1] \in overtaken

\* A container that says completed shows all the PDFs of one finished job,
\* never a part of them, except while a re-upload is deleting them.
CompletedIsWhole ==
    faults = 0 =>
      \A c \in Containers :
        Live(c) /\ status[c] = "completed" /\ ~Listed(c) =>
            \E u \in Uploads : /\ job[u].pc = "completed" /\ job[u].c = c
                               /\ Outputs(u) \subseteq children[c]

\* A job's commit was refused: the row is gone, or another run's PDFs have
\* the names.
Refused(u) ==
    \/ life[job[u].c] = "deleted"
    \/ \E v \in Uploads \ {u} : job[v].c = job[u].c /\ job[v].pc = "completed"

\* Without a fault, every PDF in S3 that is not tagged is one of a run that is
\* still to commit, has its row, or is about to be tagged; but for two leaks,
\* those of a run whose commit was refused and those of a container deleted
\* since, although requirement 6.1 has a deletion leave none.  A run that is
\* discarded, that fails to render or to store its PDFs, or that a re-upload
\* replaces leaves none.
OutputsAccountedFor ==
    faults = 0 =>
      \A k \in PdfKeys : s3[k] = "stored" =>
        LET u == k[1]
            c == job[u].c
        IN  /\ k \in Outputs(u)
            /\ \/ job[u].pc \in {"uploaded", "checked"}
               \/ job[u].pc = "completed" /\ k \in children[c] \cup req.doomed
               \/ job[u].pc = "completed" /\ life[c] = "deleted"
               \/ job[u].pc \in {"failing", "marking", "failed"} /\ Refused(u)

\* Without a fault, a container that waits for its PDFs is settled, or
\* deleted, in the end.
PendingIsSettled ==
    \A c \in Containers :
        Unsettled(c) /\ faults = 0 ~> ~Unsettled(c) \/ faults > 0

\* No job and no request works on c any more.
AtRest(c) == ~Busy(c) /\ \A u \in Uploads : job[u].c = c => ~Active(u)

\* A container that is left failed had a run of its current source fail: the
\* design has a superseded run abort silently.
FailureIsOfCurrentSource ==
    \A c \in Containers :
        Live(c) /\ status[c] = "failed" /\ AtRest(c) =>
            \E u \in Uploads : /\ job[u].c = c /\ job[u].pc = "failed"
                               /\ job[u].source = fileKey[c]

=============================================================================
