------------------------ MODULE ScoreContainerProofs ------------------------
(***************************************************************************)
(* Proofs about ScoreContainer, for any number of containers, uploads,     *)
(* parts and faults.                                                       *)
(*   - Types; an unsettled container always has a worker; stale PDFs enter *)
(*     a container only through the window between a job's last look at    *)
(*     the row and its commit.                                             *)
(*   - As long as S3 refuses no delete and the process does not die, every *)
(*     key of a live row can be served, a completed container shows a      *)
(*     whole run, and no ended run leaves objects nobody refers to.        *)
(***************************************************************************)
EXTENDS ScoreContainer, TLAPS

\* The request has committed the row of its upload and will start the job.
AboutToStart(c) ==
    /\ req.c = c
    /\ \/ req.op = "create" /\ req.pc = "tagged"
       \/ req.op = "reupload" /\ req.pc \in {"written", "tagged"}

\* What the request holds about its upload and its container.
ReqInv ==
    /\ req.op \in {"create", "reupload"} =>
         /\ req.c \in Containers /\ req.u \in Uploads
         /\ job[req.u].pc = "none"
         /\ s3[SourceKey(req.u)] # "absent"
         /\ \A c \in Containers \ {req.c} : fileKey[c] # req.u
    /\ req.op = "create" => req.pc \in {"stored", "tagged"}
    /\ req.op = "create" =>
         life[req.c] = IF req.pc = "stored" THEN "unused" ELSE "live"
    /\ req.op = "reupload" =>
         req.pc \in {"read", "loaded", "written", "tagged"}
    /\ req.op \in {"reupload", "delete"} =>
         req.c \in Containers /\ life[req.c] = "live"
    /\ \A c \in Containers : AboutToStart(c) => fileKey[c] = req.u

\* A fresh upload is unknown to rows and jobs; a job knows its container.
FreshInv ==
    /\ \A u \in Uploads : s3[SourceKey(u)] = "absent" =>
         /\ job[u].pc = "none"
         /\ \A c \in Containers : fileKey[c] # u
    /\ \A u \in Uploads : job[u].pc # "none" =>
         job[u].c \in Containers /\ life[job[u].c] # "unused"
    /\ \A c \in Containers :
         /\ life[c] = "unused" => children[c] = {}
         /\ life[c] = "live" => fileKey[c] \in Uploads

CoreInv == TypeOK /\ ReqInv /\ FreshInv

\* Job u will move c out of the unsettled statuses, or hand on to one that
\* will.
Settles(u, c) ==
    /\ job[u].c = c
    /\ \/ job[u].pc = "queued"
       \/ job[u].pc = "seen" /\ (job[u].seen = "processing" =>
                                 status[c] = "processing")
       \/ job[u].pc \in {"marked", "failing", "marking"}
            /\ status[c] = "processing"
       \/ job[u].pc \in {"running", "uploaded", "checked"}
            /\ status[c] = "processing" /\ job[u].source = fileKey[c]

WorkerOf(c) ==
    Unsettled(c) =>
        \/ AboutToStart(c)
        \/ \E u \in Uploads : Settles(u, c)
        \/ faults > 0 /\ \/ \E u \in Uploads : /\ job[u].c = c
                                               /\ job[u].pc = "lost"
                         \/ job[fileKey[c]].pc = "none"

WorkerInv == \A c \in Containers : WorkerOf(c)

StaleInv ==
    /\ \A c \in Containers : \A k \in children[c] :
         /\ job[k[1]].pc = "completed" /\ job[k[1]].c = c
         /\ job[k[1]].source = fileKey[c] \/ k[1] \in overtaken
         /\ Listed(c) => k \in req.victims \/ k[1] \in overtaken
    /\ \A u \in Uploads : job[u].pc = "checked" =>
         job[u].source = fileKey[job[u].c] \/ u \in overtaken

-----------------------------------------------------------------------------
(* Types *)

\* The outputs of a job are PDF keys, and PDF keys are keys.
LEMMA OutputsAreKeys ==
    ASSUME TypeOK, NEW u \in Uploads
    PROVE  Outputs(u) \subseteq PdfKeys /\ PdfKeys \subseteq Keys
<1>1. job[u].source \in Uploads \cup {None}
  BY DEF TypeOK, Jobs
<1>2. job[u].source # None => PartsOf[job[u].source] \subseteq Parts
  BY <1>1, PartsAssumption
<1> QED
  BY <1>2 DEF Outputs, PdfKeys, Keys

\* Storing or tagging objects keeps s3 a map from keys to object states.
LEMMA ObjectStates ==
    ASSUME TypeOK, NEW ks
    PROVE  /\ Store(ks) => s3' \in [Keys -> {"absent", "stored", "tagged"}]
           /\ Tag(ks) => s3' \in [Keys -> {"absent", "stored", "tagged"}]
BY DEF TypeOK, Store, Tag

\* A fault keeps the count of faults within its bound.
LEMMA FaultCount ==
    ASSUME TypeOK, Fault
    PROVE  faults' \in 0 .. MaxFaults /\ faults' > 0
BY BoundsAssumption DEF TypeOK, Fault

\* Every variable keeps its type (ScoreContainer's whole next-state relation).
LEMMA TypeStep == CoreInv /\ [Next]_vars => TypeOK'
<1> SUFFICES ASSUME TypeOK, ReqInv, FreshInv, [Next]_vars PROVE TypeOK'
  BY DEF CoreInv
<1> USE DEF TypeOK, rows
<1>1. ASSUME NEW u \in Uploads, NEW c \in Containers, UploadNew(u, c)
      PROVE TypeOK'
  BY <1>1, ObjectStates DEF UploadNew, Requests, Idle
<1>2. ASSUME NEW u \in Uploads, NEW c \in Containers, UploadAgain(u, c)
      PROVE TypeOK'
  BY <1>2, ObjectStates DEF UploadAgain, Requests, Idle
<1>3. CASE CreateRow
  BY <1>3 DEF CreateRow, Requests, Statuses
<1>4. CASE Respond
  <2>1. req.u \in Uploads /\ req.c \in Containers
    BY <1>4 DEF Respond, ReqInv
  <2>2. [job[req.u] EXCEPT !.pc = "queued", !.c = req.c] \in Jobs
    <3>1. job[req.u] \in Jobs
      BY <2>1
    <3> QED
      BY <2>1, <3>1 DEF Jobs, JobPcs
  <2>3. job' \in [Uploads -> Jobs]
    BY <1>4, <2>1, <2>2 DEF Respond
  <2> QED
    BY <1>4, <2>3 DEF Respond, Requests, Idle
<1>5. CASE ListOutputs
  <2>1. req.c \in Containers /\ fileKey[req.c] \in Uploads
    BY <1>5 DEF ListOutputs, ReqInv, FreshInv
  <2>2. children[req.c] \subseteq PdfKeys /\ KeysOf(req.c) \subseteq Keys
    BY <2>1 DEF KeysOf, SourceKey, PdfKeys, Keys
  <2> QED
    BY <1>5, <2>2 DEF ListOutputs, Requests
<1>6. CASE DeleteOutput
  <2>1. PICK k \in req.victims :
           /\ children' = [children EXCEPT ![req.c] = @ \ {k}]
           /\ req' = [req EXCEPT !.victims = @ \ {k}, !.seen = "expired"]
    BY <1>6 DEF DeleteOutput
  <2>2. req.c \in Containers
    BY <1>6 DEF DeleteOutput, ReqInv
  <2>3. children' \in [Containers -> SUBSET PdfKeys]
    BY <2>1, <2>2
  <2>4. req' \in Requests
    BY <2>1 DEF Requests
  <2> QED
    BY <1>6, <2>3, <2>4 DEF DeleteOutput
<1>7. CASE CommitReupload
  BY <1>7 DEF CommitReupload, Requests, Statuses
<1>8. CASE TagReplaced
  <2>1. s3' \in [Keys -> {"absent", "stored", "tagged"}]
    BY <1>8, ObjectStates DEF TagReplaced, TagSome
  <2>2. faults' \in 0 .. MaxFaults
    BY <1>8, FaultCount DEF TagReplaced, TagSome
  <2>3. req' \in Requests
    <3>1. CASE req' = [req EXCEPT !.pc = "tagged", !.doomed = {}]
      BY <3>1 DEF Requests
    <3>2. CASE req' = Idle
      BY <3>2 DEF Requests, Idle
    <3> QED
      BY <1>8, <3>1, <3>2 DEF TagReplaced
  <2> QED
    BY <1>8, <2>1, <2>2, <2>3 DEF TagReplaced
<1>9. ASSUME NEW c \in Containers, DeleteContainer(c) PROVE TypeOK'
  <2>1. s3' \in [Keys -> {"absent", "stored", "tagged"}]
    BY <1>9, ObjectStates DEF DeleteContainer, TagSome
  <2>2. faults' \in 0 .. MaxFaults
    BY <1>9, FaultCount DEF DeleteContainer, TagSome
  <2>3. req' \in Requests
    <3>1. CASE req' = [Idle EXCEPT !.op = "delete", !.pc = "tagged", !.c = c,
                                   !.victims = children[c]]
      BY <3>1 DEF Requests, Idle
    <3>2. CASE req' = Idle
      BY <3>2 DEF Requests, Idle
    <3> QED
      BY <1>9, <3>1, <3>2 DEF DeleteContainer
  <2> QED
    BY <1>9, <2>1, <2>2, <2>3 DEF DeleteContainer
<1>10. CASE DropRow
  BY <1>10 DEF DropRow, Requests, Idle
<1>11. ASSUME NEW u \in Uploads, JobStep(u) PROVE TypeOK'
  <2> USE DEF Jobs, JobPcs, Goto, Statuses
  <2>1. CASE JobSelect(u)
    BY <2>1 DEF JobSelect
  <2>2. CASE JobMark(u)
    BY <2>2 DEF JobMark
  <2>3. CASE JobReadSource(u)
    BY <2>3 DEF JobReadSource
  <2>4. CASE JobProduce(u)
    BY <2>4, ObjectStates DEF JobProduce
  <2>5. CASE JobFail(u)
    BY <2>5, ObjectStates DEF JobFail
  <2>6. CASE JobRecheck(u)
    BY <2>6, ObjectStates, FaultCount DEF JobRecheck, TagSome
  <2>7. CASE JobFinish(u)
    BY <2>7, OutputsAreKeys DEF JobFinish
  <2>8. CASE JobFailSelect(u)
    BY <2>8 DEF JobFailSelect
  <2>9. CASE JobFailCommit(u)
    BY <2>9 DEF JobFailCommit
  <2> QED
    BY <1>11, <2>1, <2>2, <2>3, <2>4, <2>5, <2>6, <2>7, <2>8, <2>9 DEF JobStep
<1>12. CASE Restart
  BY <1>12, FaultCount DEF Restart, Requests, Idle, Jobs, JobPcs
<1>13. CASE UNCHANGED vars
  BY <1>13 DEF vars
<1> QED
  BY <1>1, <1>2, <1>3, <1>4, <1>5, <1>6, <1>7, <1>8, <1>9, <1>10, <1>11, <1>12,
     <1>13 DEF Next, RequestStep

\* Init has the types.
LEMMA TypeInit == Init => TypeOK
BY BoundsAssumption
   DEF Init, TypeOK, Requests, Idle, Jobs, NoJob, JobPcs, Statuses

-----------------------------------------------------------------------------
(* What the request and the fresh uploads keep *)

\* No step makes an object absent again.
LEMMA NeverAbsentAgain ==
    ASSUME TypeOK, [Next]_vars, NEW k \in Keys, s3'[k] = "absent"
    PROVE  s3[k] = "absent"
<1>1. (\E ks : Store(ks) \/ Tag(ks)) => s3[k] = "absent"
  BY DEF Store, Tag
<1>2. s3' = s3 => s3[k] = "absent"
  OBVIOUS
<1>3. s3' = s3 \/ \E ks : Store(ks) \/ Tag(ks)
  BY DEF Next, vars, UploadNew, UploadAgain, RequestStep, CreateRow, Respond,
         ListOutputs, DeleteOutput, CommitReupload, TagReplaced,
         DeleteContainer, DropRow, JobStep, JobSelect, JobMark, JobReadSource,
         JobProduce, JobFail, JobRecheck, JobFinish, JobFailSelect,
         JobFailCommit, Restart, TagSome
<1> QED
  BY <1>1, <1>2, <1>3

\* A job moves its own record and the rows of its container, and nothing a
\* request relies on.
LEMMA JobFrame ==
    ASSUME TypeOK, NEW u \in Uploads, JobStep(u)
    PROVE  /\ UNCHANGED <<life, fileKey, orphans, req>>
           /\ job[u].pc # "none" /\ job'[u].pc # "none"
           /\ job'[u].c = job[u].c
           /\ \A v \in Uploads \ {u} : job'[v] = job[v]
           /\ \A c \in Containers : c # job[u].c =>
                children'[c] = children[c] /\ status'[c] = status[c]
           /\ \A c \in Containers : life[c] # "live" =>
                children'[c] = children[c] /\ status'[c] = status[c]
           /\ \A k \in Keys : s3[k] # "absent" => s3'[k] # "absent"
           /\ faults' = faults \/ faults' = faults + 1
<1> USE DEF Goto, Jobs, rows, TypeOK
<1>1. CASE JobSelect(u)
  BY <1>1 DEF JobSelect
<1>2. CASE JobMark(u)
  BY <1>2 DEF JobMark
<1>3. CASE JobReadSource(u)
  BY <1>3 DEF JobReadSource
<1>4. CASE JobProduce(u)
  BY <1>4 DEF JobProduce, Store
<1>5. CASE JobFail(u)
  BY <1>5 DEF JobFail, Tag
<1>6. CASE JobRecheck(u)
  BY <1>6 DEF JobRecheck, TagSome, Tag, Fault
<1>7. CASE JobFinish(u)
  BY <1>7 DEF JobFinish
<1>8. CASE JobFailSelect(u)
  BY <1>8 DEF JobFailSelect
<1>9. CASE JobFailCommit(u)
  BY <1>9 DEF JobFailCommit
<1> QED
  BY <1>1, <1>2, <1>3, <1>4, <1>5, <1>6, <1>7, <1>8, <1>9 DEF JobStep

\* A step gives a job number or a container's key to an upload only from the
\* request that stored its source, so a fresh upload stays unknown.
LEMMA FreshStep == CoreInv /\ [Next]_vars => FreshInv'
<1> SUFFICES ASSUME TypeOK, ReqInv, FreshInv, [Next]_vars PROVE FreshInv'
  BY DEF CoreInv
<1>0. \A u \in Uploads : SourceKey(u) \in Keys
  BY DEF SourceKey, Keys
<1>a. \A u \in Uploads : s3'[SourceKey(u)] = "absent" =>
        s3[SourceKey(u)] = "absent"
  BY <1>0, NeverAbsentAgain
<1> USE DEF TypeOK, rows, FreshInv
<1>1. ASSUME NEW u \in Uploads, NEW c \in Containers, UploadNew(u, c)
      PROVE FreshInv'
  BY <1>1, <1>a DEF UploadNew
<1>2. ASSUME NEW u \in Uploads, NEW c \in Containers, UploadAgain(u, c)
      PROVE FreshInv'
  BY <1>2, <1>a DEF UploadAgain
<1>3. CASE CreateRow
  BY <1>3, <1>a DEF CreateRow, ReqInv
<1>4. CASE Respond
  <2>1. /\ req.u \in Uploads /\ req.c \in Containers
        /\ s3[SourceKey(req.u)] # "absent" /\ life[req.c] # "unused"
    BY <1>4 DEF Respond, ReqInv
  <2>2. job' = [job EXCEPT ![req.u] =
                  [job[req.u] EXCEPT !.pc = "queued", !.c = req.c]]
    BY <1>4 DEF Respond
  <2> QED
    BY <1>4, <2>1, <2>2 DEF Respond, Jobs
<1>5. CASE ListOutputs
  BY <1>5, <1>a DEF ListOutputs
<1>6. CASE DeleteOutput
  BY <1>6, <1>a DEF DeleteOutput, ReqInv
<1>7. CASE CommitReupload
  BY <1>7, <1>a DEF CommitReupload, ReqInv
<1>8. CASE TagReplaced
  BY <1>8, <1>a DEF TagReplaced
<1>9. ASSUME NEW c \in Containers, DeleteContainer(c) PROVE FreshInv'
  BY <1>9, <1>a DEF DeleteContainer
<1>10. CASE DropRow
  BY <1>10, <1>a DEF DropRow, ReqInv
<1>11. ASSUME NEW u \in Uploads, JobStep(u) PROVE FreshInv'
  <2>1. /\ fileKey' = fileKey /\ life' = life
        /\ job[u].pc # "none"
        /\ \A v \in Uploads \ {u} : job'[v] = job[v]
        /\ job'[u].c = job[u].c
        /\ \A c \in Containers : life[c] = "unused" =>
             children'[c] = children[c]
    BY <1>11, JobFrame
  <2> QED
    BY <2>1, <1>a
<1>12. CASE Restart
  BY <1>12, <1>a DEF Restart, Active, Ended, Jobs
<1>13. CASE UNCHANGED vars
  BY <1>13 DEF vars
<1> QED
  BY <1>1, <1>2, <1>3, <1>4, <1>5, <1>6, <1>7, <1>8, <1>9, <1>10, <1>11, <1>12,
     <1>13 DEF Next, RequestStep

\* What the request holds stays true until it answers.
LEMMA ReqStep == CoreInv /\ [Next]_vars => ReqInv'
<1> SUFFICES ASSUME TypeOK, ReqInv, FreshInv, [Next]_vars PROVE ReqInv'
  BY DEF CoreInv
<1>0. \A u \in Uploads : SourceKey(u) \in Keys
  BY DEF SourceKey, Keys
<1>idle. req' = Idle => ReqInv'
  BY NamesAssumption DEF ReqInv, Idle, AboutToStart
<1>a. \A u \in Uploads : s3'[SourceKey(u)] = "absent" =>
        s3[SourceKey(u)] = "absent"
  BY <1>0, NeverAbsentAgain
<1> USE DEF TypeOK, rows, Requests
<1>1. ASSUME NEW u \in Uploads, NEW c \in Containers, UploadNew(u, c)
      PROVE ReqInv'
  <2>1. s3'[SourceKey(u)] = "stored"
    BY <1>1, <1>0 DEF UploadNew, Store
  <2>2. job[u].pc = "none" /\ \A d \in Containers : fileKey[d] # u
    BY <1>1 DEF UploadNew, Fresh, FreshInv
  <2> QED
    BY <1>1, <2>1, <2>2 DEF UploadNew, ReqInv, AboutToStart, Idle
<1>2. ASSUME NEW u \in Uploads, NEW c \in Containers, UploadAgain(u, c)
      PROVE ReqInv'
  <2>1. s3'[SourceKey(u)] = "stored"
    BY <1>2, <1>0 DEF UploadAgain, Store
  <2>2. job[u].pc = "none" /\ \A d \in Containers : fileKey[d] # u
    BY <1>2 DEF UploadAgain, Fresh, FreshInv
  <2> QED
    BY <1>2, <2>1, <2>2 DEF UploadAgain, ReqInv, AboutToStart, Idle
<1>3. CASE CreateRow
  BY <1>3 DEF CreateRow, ReqInv, AboutToStart
<1>4. CASE Respond
  BY <1>4, <1>idle DEF Respond
<1>5. CASE ListOutputs
  BY <1>5 DEF ListOutputs, ReqInv, AboutToStart
<1>6. CASE DeleteOutput
  <2>1. PICK k \in req.victims :
           req' = [req EXCEPT !.victims = @ \ {k}, !.seen = "expired"]
    BY <1>6 DEF DeleteOutput
  <2> QED
    BY <1>6, <2>1 DEF DeleteOutput, ReqInv, AboutToStart
<1>7. CASE CommitReupload
  BY <1>7 DEF CommitReupload, ReqInv, AboutToStart
<1>8. CASE TagReplaced
  <2>1. CASE req' = [req EXCEPT !.pc = "tagged", !.doomed = {}]
    <3>1. req.u \in Uploads => s3'[SourceKey(req.u)] # "absent"
      BY <1>8, <1>a DEF TagReplaced, ReqInv
    <3> QED
      BY <1>8, <2>1, <3>1 DEF TagReplaced, ReqInv, AboutToStart
  <2> QED
    BY <1>8, <2>1, <1>idle DEF TagReplaced
<1>9. ASSUME NEW c \in Containers, DeleteContainer(c) PROVE ReqInv'
  <2>1. CASE req' = [Idle EXCEPT !.op = "delete", !.pc = "tagged", !.c = c,
                                 !.victims = children[c]]
    BY <1>9, <2>1 DEF DeleteContainer, ReqInv, AboutToStart, Idle
  <2> QED
    BY <1>9, <2>1, <1>idle DEF DeleteContainer
<1>10. CASE DropRow
  BY <1>10, <1>idle DEF DropRow
<1>11. ASSUME NEW u \in Uploads, JobStep(u) PROVE ReqInv'
  <2>1. /\ UNCHANGED <<life, fileKey, req>>
        /\ job[u].pc # "none"
        /\ \A v \in Uploads \ {u} : job'[v] = job[v]
    BY <1>11, JobFrame
  <2> QED
    BY <2>1, <1>a DEF ReqInv, AboutToStart
<1>12. CASE Restart
  BY <1>12, <1>idle DEF Restart
<1>13. CASE UNCHANGED vars
  BY <1>13 DEF vars, ReqInv, AboutToStart
<1> QED
  BY <1>1, <1>2, <1>3, <1>4, <1>5, <1>6, <1>7, <1>8, <1>9, <1>10, <1>11, <1>12,
     <1>13 DEF Next, RequestStep

\* CoreInv is inductive.
LEMMA CoreInit == Init => CoreInv
<1> SUFFICES ASSUME Init PROVE ReqInv /\ FreshInv
  BY TypeInit DEF CoreInv
<1>1. ReqInv
  BY NamesAssumption DEF Init, ReqInv, Idle, AboutToStart
<1>2. FreshInv
  BY NamesAssumption DEF Init, FreshInv, NoJob, Uploads
<1> QED
  BY <1>1, <1>2

\* Every step keeps CoreInv: what FileService holds about its upload.
LEMMA CoreStep == CoreInv /\ [Next]_vars => CoreInv'
BY TypeStep, FreshStep, ReqStep DEF CoreInv

\* What a request knows of its upload holds in every reachable state of
\* FileService.upload, _reupload_container, delete and the jobs.
THEOREM CoreCorrect == Spec => []CoreInv
BY CoreInit, CoreStep, PTL DEF Spec

\* TypeOK holds in every reachable state.
THEOREM TypeCorrect == Spec => []TypeOK
<1>1. CoreInv => TypeOK
  BY DEF CoreInv
<1> QED
  BY <1>1, CoreCorrect, PTL

-----------------------------------------------------------------------------
(* An unsettled container has a worker *)

\* A job that changes the status of a container it leaves unsettled settles
\* it next, and a job that settles a container goes on doing so.
LEMMA JobHandsOn ==
    ASSUME CoreInv, NEW u \in Uploads, NEW c \in Containers, JobStep(u),
           Unsettled(c)'
    PROVE  /\ \/ status'[c] = status[c]
              \/ status'[c] = "processing" /\ Settles(u, c)'
           /\ Settles(u, c) => Settles(u, c)'
           /\ job[u].pc \notin {"none", "lost"}
<1>a. job \in [Uploads -> Jobs] /\ status \in [Containers -> Statuses]
  BY DEF CoreInv, TypeOK
<1>b. \A p : Goto(u, p) => /\ job'[u].pc = p
                           /\ job'[u].c = job[u].c
                           /\ job'[u].source = job[u].source
  BY <1>a DEF Goto, Jobs
<1> USE DEF rows, Unsettled, Live, Settles
<1>1. CASE JobSelect(u)
  <2>1. CASE life[job[u].c] = "live"
    <3>1. /\ job'[u].pc = "seen" /\ job'[u].c = job[u].c
          /\ job'[u].seen = status[job[u].c]
      BY <1>1, <2>1, <1>a DEF JobSelect, Jobs
    <3> QED
      BY <1>1, <3>1 DEF JobSelect
  <2> QED
    BY <1>1, <2>1, <1>b DEF JobSelect
<1>2. CASE JobMark(u)
  <2>1. CASE life[job[u].c] = "live"
    <3>1. job'[u].pc = "marked" /\ job'[u].c = job[u].c
      BY <1>2, <2>1, <1>a DEF JobMark, Jobs
    <3> QED
      BY <1>2, <2>1, <3>1, <1>a DEF JobMark
  <2> QED
    BY <1>2, <2>1, <1>b DEF JobMark
<1>3. CASE JobReadSource(u)
  <2>1. CASE life[job[u].c] = "live"
    <3>1. /\ job'[u].pc = "running" /\ job'[u].c = job[u].c
          /\ job'[u].source = fileKey[job[u].c]
      BY <1>3, <2>1, <1>a DEF JobReadSource, Jobs
    <3> QED
      BY <1>3, <3>1 DEF JobReadSource
  <2> QED
    BY <1>3, <2>1, <1>b DEF JobReadSource
<1>4. CASE JobProduce(u)
  BY <1>4, <1>b DEF JobProduce
<1>5. CASE JobFail(u)
  BY <1>5, <1>b DEF JobFail
<1>6. CASE JobRecheck(u)
  BY <1>6, <1>b DEF JobRecheck, StillMine
<1>7. CASE JobFinish(u)
  BY <1>7, <1>a, <1>b DEF JobFinish
<1>8. CASE JobFailSelect(u)
  BY <1>8, <1>b DEF JobFailSelect
<1>9. CASE JobFailCommit(u)
  BY <1>9, <1>a, <1>b DEF JobFailCommit
<1> QED
  BY <1>1, <1>2, <1>3, <1>4, <1>5, <1>6, <1>7, <1>8, <1>9 DEF JobStep

\* A container whose row and worker no step touches keeps its worker.
LEMMA WorkerKept ==
    ASSUME CoreInv, WorkerInv, NEW c \in Containers,
           life'[c] = life[c], status'[c] = status[c],
           fileKey'[c] = fileKey[c], AboutToStart(c) => AboutToStart(c)',
           faults > 0 => faults' > 0,
           \A u \in Uploads : job'[u] = job[u]
    PROVE  WorkerOf(c)'
<1>1. Live(c) => fileKey[c] \in Uploads
  BY DEF CoreInv, FreshInv, Live
<1> QED
  BY <1>1 DEF WorkerInv, WorkerOf, Unsettled, Live, Settles

\* Every step of a request or job keeps a worker for an unsettled container.
LEMMA WorkerStep == CoreInv /\ WorkerInv /\ [Next]_vars => WorkerInv'
<1> SUFFICES ASSUME CoreInv, WorkerInv, [Next]_vars, NEW c \in Containers
             PROVE  WorkerOf(c)'
  BY DEF WorkerInv
<1> USE DEF CoreInv, TypeOK, rows
<1>1. ASSUME NEW u \in Uploads, NEW d \in Containers, UploadNew(u, d)
      PROVE  WorkerOf(c)'
  BY <1>1, WorkerKept DEF UploadNew, AboutToStart, Idle
<1>2. ASSUME NEW u \in Uploads, NEW d \in Containers, UploadAgain(u, d)
      PROVE  WorkerOf(c)'
  BY <1>2, WorkerKept DEF UploadAgain, AboutToStart, Idle
<1>3. CASE CreateRow
  <2>1. CASE c = req.c
    BY <1>3, <2>1 DEF CreateRow, WorkerOf, AboutToStart, Requests
  <2>2. CASE c # req.c
    BY <1>3, <2>2, WorkerKept DEF CreateRow, AboutToStart
  <2> QED
    BY <2>1, <2>2
<1>4. CASE Respond
  <2>1. /\ req.u \in Uploads /\ job[req.u].pc = "none"
        /\ AboutToStart(req.c) /\ req.c \in Containers
    BY <1>4 DEF Respond, ReqInv, AboutToStart
  <2>2. job' = [job EXCEPT ![req.u] =
                  [job[req.u] EXCEPT !.pc = "queued", !.c = req.c]]
    BY <1>4 DEF Respond
  <2>3. CASE c = req.c
    <3>1. PICK u \in Uploads : u = req.u
      BY <2>1
    <3>2. job'[u].pc = "queued" /\ job'[u].c = c
      BY <1>4, <2>1, <2>2, <2>3, <3>1 DEF Jobs
    <3> QED
      BY <3>2 DEF WorkerOf, Settles
  <2>4. CASE c # req.c
    <3>1. fileKey[c] # req.u /\ (Live(c) => fileKey[c] \in Uploads)
      BY <1>4, <2>4 DEF Respond, ReqInv, FreshInv, Live
    <3>2. \A u \in Uploads : u # req.u => job'[u] = job[u]
      BY <2>1, <2>2
    <3>3. \A u \in Uploads : Settles(u, c) => Settles(u, c)'
      BY <1>4, <2>1, <3>2 DEF Settles, Respond
    <3>4. \A u \in Uploads : job[u].pc = "lost" => job'[u] = job[u]
      BY <2>1, <3>2
    <3> QED
      BY <1>4, <2>4, <3>1, <3>2, <3>3, <3>4
         DEF Respond, WorkerInv, WorkerOf, Unsettled, Live, AboutToStart
  <2> QED
    BY <2>3, <2>4
<1>5. CASE ListOutputs
  BY <1>5, WorkerKept DEF ListOutputs, AboutToStart
<1>6. CASE DeleteOutput
  BY <1>6, WorkerKept DEF DeleteOutput, AboutToStart
<1>7. CASE CommitReupload
  <2>1. CASE c = req.c
    BY <1>7, <2>1 DEF CommitReupload, WorkerOf, AboutToStart, Requests
  <2>2. CASE c # req.c
    BY <1>7, <2>2, WorkerKept DEF CommitReupload, AboutToStart
  <2> QED
    BY <2>1, <2>2
<1>8. CASE TagReplaced
  <2>1. CASE /\ UNCHANGED faults
             /\ req' = [req EXCEPT !.pc = "tagged", !.doomed = {}]
    BY <1>8, <2>1, WorkerKept DEF TagReplaced, AboutToStart, Requests
  <2>2. CASE TagSome(req.doomed)
    <3>1. faults' > 0
      BY <2>2, FaultCount DEF TagSome
    <3>2. CASE AboutToStart(c)
      BY <1>8, <3>1, <3>2 DEF TagReplaced, AboutToStart, ReqInv, WorkerOf
    <3>3. CASE ~AboutToStart(c)
      BY <1>8, <3>1, <3>3, WorkerKept DEF TagReplaced
    <3> QED
      BY <3>2, <3>3
  <2> QED
    BY <1>8, <2>1, <2>2 DEF TagReplaced
<1>9. ASSUME NEW d \in Containers, DeleteContainer(d) PROVE WorkerOf(c)'
  <2>1. faults > 0 => faults' > 0
    BY <1>9, FaultCount DEF DeleteContainer, TagSome
  <2> QED
    BY <1>9, <2>1, WorkerKept DEF DeleteContainer, AboutToStart, Idle
<1>10. CASE DropRow
  <2>1. CASE c = req.c
    BY <1>10, <2>1 DEF DropRow, WorkerOf, Unsettled, Live
  <2>2. CASE c # req.c
    BY <1>10, <2>2, WorkerKept DEF DropRow, AboutToStart
  <2> QED
    BY <2>1, <2>2
<1>11. ASSUME NEW u \in Uploads, JobStep(u) PROVE WorkerOf(c)'
  <2> SUFFICES ASSUME Unsettled(c)' PROVE WorkerOf(c)'
    BY DEF WorkerOf
  <2>1. /\ UNCHANGED <<life, fileKey, req>>
        /\ job'[u].pc # "none" /\ job'[u].c = job[u].c
        /\ \A v \in Uploads \ {u} : job'[v] = job[v]
        /\ faults > 0 => faults' > 0
    BY <1>11, JobFrame
  <2>2. /\ \/ status'[c] = status[c]
           \/ status'[c] = "processing" /\ Settles(u, c)'
        /\ Settles(u, c) => Settles(u, c)'
        /\ job[u].pc \notin {"none", "lost"}
    BY <1>11, JobHandsOn
  <2>3. CASE Settles(u, c)'
    BY <2>3 DEF WorkerOf
  <2>4. CASE ~Settles(u, c)'
    <3>1. status'[c] = status[c] /\ Unsettled(c) /\ fileKey[c] \in Uploads
      BY <2>1, <2>2, <2>4 DEF Unsettled, Live, FreshInv
    <3>2. \A v \in Uploads : Settles(v, c) => Settles(v, c)'
      BY <2>1, <2>2, <3>1 DEF Settles
    <3>3. \A v \in Uploads : job[v].pc \in {"lost", "none"} => job'[v] = job[v]
      BY <2>1, <2>2
    <3> QED
      BY <2>1, <3>1, <3>2, <3>3 DEF WorkerInv, WorkerOf, AboutToStart
  <2> QED
    BY <2>3, <2>4
<1>12. CASE Restart
  <2>1. faults' > 0
    BY <1>12, FaultCount DEF Restart
  <2> SUFFICES ASSUME Unsettled(c)' PROVE WorkerOf(c)'
    BY DEF WorkerOf
  <2>2. Unsettled(c) /\ fileKey[c] \in Uploads
    BY <1>12 DEF Restart, Unsettled, Live, FreshInv
  <2>3. CASE AboutToStart(c)
    BY <1>12, <2>1, <2>2, <2>3
       DEF Restart, AboutToStart, ReqInv, WorkerOf, Active, Ended
  <2>4. ASSUME NEW u \in Uploads, Settles(u, c) PROVE WorkerOf(c)'
    BY <1>12, <2>1, <2>4 DEF Restart, Settles, Active, Ended, WorkerOf, Jobs
  <2>5. ASSUME NEW u \in Uploads, job[u].c = c, job[u].pc = "lost"
        PROVE WorkerOf(c)'
    BY <1>12, <2>1, <2>5 DEF Restart, Active, Ended, WorkerOf
  <2>6. CASE job[fileKey[c]].pc = "none"
    BY <1>12, <2>1, <2>2, <2>6 DEF Restart, Active, Ended, WorkerOf
  <2> QED
    BY <2>2, <2>3, <2>4, <2>5, <2>6 DEF WorkerInv, WorkerOf
<1>13. CASE UNCHANGED vars
  BY <1>13, WorkerKept DEF vars, AboutToStart
<1> QED
  BY <1>1, <1>2, <1>3, <1>4, <1>5, <1>6, <1>7, <1>8, <1>9, <1>10, <1>11, <1>12,
     <1>13 DEF Next, RequestStep

\* A container waiting for its PDFs has a job or a request that settles it,
\* or lost it to a fault (FileService._reupload_container, _run, _mark_failed).
THEOREM WorkersNeverForgotten == Spec => []UnsettledHasWorker
<1>1. Init => WorkerInv
  BY DEF Init, WorkerInv, WorkerOf, Unsettled, Live
<1>2. CoreInv /\ WorkerInv => UnsettledHasWorker
  <2> SUFFICES ASSUME CoreInv, WorkerInv, NEW c \in Containers, Unsettled(c)
               PROVE  \/ Busy(c)
                      \/ \E u \in Uploads : job[u].c = c /\ Active(u)
                      \/ faults > 0 /\ \/ \E u \in Uploads :
                                            /\ job[u].c = c
                                            /\ job[u].pc = "lost"
                                       \/ job[fileKey[c]].pc = "none"
    BY DEF UnsettledHasWorker
  <2>1. AboutToStart(c) => Busy(c)
    BY DEF AboutToStart, Busy, Idle
  <2>2. \A u \in Uploads : Settles(u, c) => job[u].c = c /\ Active(u)
    BY DEF Settles, Active, Ended
  <2> QED
    BY <2>1, <2>2 DEF WorkerInv, WorkerOf
<1> QED
  BY <1>1, <1>2, WorkerStep, CoreCorrect, PTL DEF Spec

-----------------------------------------------------------------------------
(* Stale PDFs *)

\* Only JobFinish adds PDFs, its own, and only JobRecheck lets a job commit.
LEMMA JobOutputs ==
    ASSUME CoreInv, StaleInv, NEW u \in Uploads, JobStep(u)
    PROVE  /\ \A c \in Containers : \A k \in children'[c] :
                \/ k \in children[c] /\ k[1] # u
                \/ /\ k[1] = u /\ job[u].c = c /\ job'[u].pc = "completed"
                   /\ job'[u].source = job[u].source
                   /\ job[u].source = fileKey[c] \/ u \in overtaken
                   /\ Listed(c) => u \in overtaken'
           /\ job'[u].pc = "checked" => job'[u].source = fileKey[job'[u].c]
           /\ overtaken \subseteq overtaken'
<1>a. job \in [Uploads -> Jobs] /\ children \in [Containers -> SUBSET PdfKeys]
  BY DEF CoreInv, TypeOK
<1>b. \A p : Goto(u, p) => /\ job'[u].pc = p
                           /\ job'[u].c = job[u].c
                           /\ job'[u].source = job[u].source
  BY <1>a DEF Goto, Jobs
<1>c. job[u].pc # "completed" =>
        \A c \in Containers : \A k \in children[c] : k[1] # u
  BY DEF StaleInv
<1> USE DEF rows
<1>1. CASE JobSelect(u)
  <2>1. job'[u].pc \in {"seen", "discarded"}
    BY <1>1, <1>a, <1>b DEF JobSelect, Jobs
  <2> QED
    BY <1>1, <2>1, <1>c DEF JobSelect
<1>2. CASE JobMark(u)
  <2>1. job'[u].pc \in {"marked", "failing"}
    BY <1>2, <1>a, <1>b DEF JobMark, Jobs
  <2> QED
    BY <1>2, <2>1, <1>c DEF JobMark
<1>3. CASE JobReadSource(u)
  <2>1. job'[u].pc \in {"running", "failing"}
    BY <1>3, <1>a, <1>b DEF JobReadSource, Jobs
  <2> QED
    BY <1>3, <2>1, <1>c DEF JobReadSource
<1>4. CASE JobProduce(u)
  BY <1>4, <1>b, <1>c DEF JobProduce
<1>5. CASE JobFail(u)
  BY <1>5, <1>b, <1>c DEF JobFail
<1>6. CASE JobRecheck(u)
  BY <1>6, <1>b, <1>c DEF JobRecheck, StillMine
<1>7. CASE JobFinish(u)
  <2>1. \A k \in Outputs(u) : k[1] = u
    BY DEF Outputs
  <2>2. /\ job[u].c \in Containers
        /\ job[u].source = fileKey[job[u].c] \/ u \in overtaken
    BY <1>7 DEF JobFinish, StaleInv, CoreInv, FreshInv
  <2>3. CASE Goto(u, "completed")
    <3>1. children' = [children EXCEPT ![job[u].c] = @ \cup Outputs(u)]
      BY <1>7, <2>3, <1>b DEF JobFinish
    <3>2. \A c \in Containers : \A k \in children'[c] :
            k \in children[c] \/ (c = job[u].c /\ k \in Outputs(u))
      BY <3>1, <1>a
    <3> QED
      BY <1>7, <2>1, <2>2, <2>3, <3>2, <1>b, <1>c DEF JobFinish
  <2>4. CASE Goto(u, "failing")
    BY <1>7, <2>4, <1>b, <1>c DEF JobFinish
  <2> QED
    BY <1>7, <2>3, <2>4 DEF JobFinish
<1>8. CASE JobFailSelect(u)
  BY <1>8, <1>b, <1>c DEF JobFailSelect
<1>9. CASE JobFailCommit(u)
  BY <1>9, <1>b, <1>c DEF JobFailCommit
<1> QED
  BY <1>1, <1>2, <1>3, <1>4, <1>5, <1>6, <1>7, <1>8, <1>9 DEF JobStep

\* Every step keeps the outputs of a container current or overtaken
\* (ConversionService._run, FileService._reupload_container).
LEMMA StaleStep == CoreInv /\ StaleInv /\ [Next]_vars => StaleInv'
<1> SUFFICES ASSUME CoreInv, StaleInv, [Next]_vars PROVE StaleInv'
  OBVIOUS
<1>a. \A c \in Containers : \A k \in children[c] : k[1] \in Uploads
  BY DEF CoreInv, TypeOK, PdfKeys
<1> USE DEF CoreInv, TypeOK, rows, StaleInv, Listed
<1>1. ASSUME NEW u \in Uploads, NEW c \in Containers, UploadNew(u, c)
      PROVE  StaleInv'
  BY <1>1 DEF UploadNew, Idle
<1>2. ASSUME NEW u \in Uploads, NEW c \in Containers, UploadAgain(u, c)
      PROVE  StaleInv'
  BY <1>2 DEF UploadAgain, Idle
<1>3. CASE CreateRow
  <2>1. req.c \in Containers /\ life[req.c] = "unused" /\ children[req.c] = {}
    <3>1. req.c \in Containers /\ life[req.c] = "unused"
      BY <1>3 DEF CreateRow, ReqInv
    <3> QED
      BY <3>1 DEF FreshInv
  <2>2. \A u \in Uploads : job[u].pc # "none" => job[u].c # req.c
    BY <2>1 DEF FreshInv
  <2> QED
    BY <1>3, <2>1, <2>2 DEF CreateRow
<1>4. CASE Respond
  <2>1. req.u \in Uploads /\ job[req.u].pc = "none"
    BY <1>4 DEF Respond, ReqInv
  <2>2. \A u \in Uploads : u # req.u => job'[u] = job[u]
    BY <1>4, <2>1 DEF Respond
  <2>3. job'[req.u].pc = "queued"
    BY <1>4, <2>1 DEF Respond, Jobs
  <2> QED
    BY <1>4, <2>1, <2>2, <2>3, <1>a DEF Respond, Idle
<1>5. CASE ListOutputs
  BY <1>5 DEF ListOutputs, Requests
<1>6. CASE DeleteOutput
  <2>1. PICK k \in req.victims :
           /\ children' = [children EXCEPT ![req.c] = @ \ {k}]
           /\ req' = [req EXCEPT !.victims = @ \ {k}, !.seen = "expired"]
    BY <1>6 DEF DeleteOutput
  <2>2. req.c \in Containers
    BY <1>6 DEF DeleteOutput, ReqInv
  <2> QED
    BY <1>6, <2>1, <2>2 DEF DeleteOutput, Requests
<1>7. CASE CommitReupload
  <2>1. req.c \in Containers /\ Listed(req.c) /\ req.victims = {}
    BY <1>7 DEF CommitReupload, ReqInv
  <2>2. \A k \in children[req.c] : k[1] \in overtaken
    BY <2>1
  <2>3. \A u \in Uploads : job[u].pc = "checked" =>
          job[u].c # req.c \/ u \in overtaken'
    BY <1>7 DEF CommitReupload
  <2>4. /\ \A c \in Containers : c # req.c => fileKey'[c] = fileKey[c]
        /\ overtaken \subseteq overtaken'
        /\ UNCHANGED <<job, children>>
        /\ \A c \in Containers : ~Listed(c)'
    BY <1>7 DEF CommitReupload, Requests
  <2>5. \A u \in Uploads : job[u].pc # "none" => job[u].c \in Containers
    BY DEF FreshInv
  <2> QED
    BY <2>2, <2>3, <2>4, <2>5, <1>a
<1>8. CASE TagReplaced
  <2> HIDE DEF CoreInv, TypeOK, StaleInv
  <2>1. \A c \in Containers : ~Listed(c)'
    <3>1. req \in Requests
      BY DEF CoreInv, TypeOK
    <3>2. CASE req' = [req EXCEPT !.pc = "tagged", !.doomed = {}]
      BY <3>1, <3>2 DEF Requests
    <3>3. CASE req' = Idle
      BY <3>3 DEF Idle
    <3> QED
      BY <1>8, <3>2, <3>3 DEF TagReplaced
  <2> USE DEF StaleInv
  <2> QED
    BY <1>8, <2>1, <1>a DEF TagReplaced
<1>9. ASSUME NEW c \in Containers, DeleteContainer(c) PROVE StaleInv'
  <2> HIDE DEF CoreInv, TypeOK
  <2>1. \A d \in Containers : ~Listed(d)'
    <3>1. CASE req' = [Idle EXCEPT !.op = "delete", !.pc = "tagged", !.c = c,
                                   !.victims = children[c]]
      BY <3>1 DEF Idle
    <3>2. CASE req' = Idle
      BY <3>2 DEF Idle
    <3> QED
      BY <1>9, <3>1, <3>2 DEF DeleteContainer
  <2> QED
    BY <1>9, <2>1, <1>a DEF DeleteContainer
<1>10. CASE DropRow
  BY <1>10 DEF DropRow, ReqInv, Idle
<1>11. ASSUME NEW u \in Uploads, JobStep(u) PROVE StaleInv'
  <2>1. /\ UNCHANGED <<fileKey, req>>
        /\ job'[u].c = job[u].c
        /\ \A v \in Uploads \ {u} : job'[v] = job[v]
    BY <1>11, JobFrame
  <2> HIDE DEF CoreInv, StaleInv
  <2>2. /\ \A c \in Containers : \A k \in children'[c] :
             \/ k \in children[c] /\ k[1] # u
             \/ /\ k[1] = u /\ job[u].c = c /\ job'[u].pc = "completed"
                /\ job'[u].source = job[u].source
                /\ job[u].source = fileKey[c] \/ u \in overtaken
                /\ Listed(c) => u \in overtaken'
        /\ job'[u].pc = "checked" => job'[u].source = fileKey[job'[u].c]
        /\ overtaken \subseteq overtaken'
    BY <1>11, JobOutputs
  <2> HIDE DEF TypeOK
  <2>3. ASSUME NEW c \in Containers, NEW k \in children'[c]
        PROVE  /\ job'[k[1]].pc = "completed" /\ job'[k[1]].c = c
               /\ job'[k[1]].source = fileKey'[c] \/ k[1] \in overtaken'
               /\ Listed(c)' => k \in req'.victims \/ k[1] \in overtaken'
    <3>1. CASE k \in children[c] /\ k[1] # u
      BY <2>1, <2>2, <3>1, <1>a DEF StaleInv
    <3>2. CASE ~(k \in children[c] /\ k[1] # u)
      BY <2>1, <2>2, <3>2
    <3> QED
      BY <3>1, <3>2
  <2>4. ASSUME NEW v \in Uploads, job'[v].pc = "checked"
        PROVE  job'[v].source = fileKey'[job'[v].c] \/ v \in overtaken'
    BY <2>1, <2>2, <2>4 DEF StaleInv
  <2> QED
    BY <2>3, <2>4 DEF StaleInv
<1>12. CASE Restart
  <2>1. \A u \in Uploads : job[u].pc = "completed" => job'[u] = job[u]
    BY <1>12 DEF Restart, Active, Ended
  <2>2. \A u \in Uploads : job'[u].pc # "checked"
    BY <1>12 DEF Restart, Active, Ended, Jobs
  <2>3. \A c \in Containers : ~Listed(c)'
    BY <1>12 DEF Restart, Idle
  <2>4. UNCHANGED <<children, fileKey, overtaken>>
    BY <1>12 DEF Restart
  <2> HIDE DEF CoreInv, TypeOK, Listed
  <2> QED
    BY <2>1, <2>2, <2>3, <2>4, <1>a
<1>13. CASE UNCHANGED vars
  BY <1>13 DEF vars
<1> QED
  BY <1>1, <1>2, <1>3, <1>4, <1>5, <1>6, <1>7, <1>8, <1>9, <1>10, <1>11, <1>12,
     <1>13 DEF Next, RequestStep

\* Every PDF of a container was rendered from its current source, except by a
\* job overtaken between its last look and its commit (ConversionService._run).
THEOREM StaleOnlyIfOvertaken == Spec => []NoStaleOutputs
<1>1. Init => StaleInv
  BY DEF Init, StaleInv, NoJob
<1>2. StaleInv => NoStaleOutputs
  BY DEF StaleInv, NoStaleOutputs
<1> QED
  BY <1>1, <1>2, StaleStep, CoreCorrect, PTL DEF Spec

-----------------------------------------------------------------------------
\* What a container shows and what S3 holds.

\* A re-upload has listed the objects it will tag and has not tagged them.
Dooming == req.op = "reupload" /\ req.pc \in {"loaded", "written"}

\* No two rows share a source, and a job has one only once it has read it.
SourcesInv ==
    /\ \A c, d \in Containers :
         c # d /\ fileKey[c] \in Uploads => fileKey[d] # fileKey[c]
    /\ req.op = "reupload" /\ req.pc \in {"read", "loaded"} =>
         fileKey[req.c] # req.u
    /\ \A u \in Uploads :
         job[u].pc \in {"none", "queued", "seen", "marked"} =>
            job[u].source = None

\* The listed objects are those of the container's former rows: its source
\* until the new one is committed, and PDFs of finished jobs, each in a row
\* only as long as that row is still to be deleted.
DoomedInv ==
    /\ ~Dooming => req.doomed = {}
    /\ Dooming => \A k \in req.doomed :
         IF k[2] = Source
         THEN IF req.pc = "loaded" THEN k[1] = fileKey[req.c]
                                   ELSE \A c \in Containers : fileKey[c] # k[1]
         ELSE /\ job[k[1]].pc = "completed" /\ job[k[1]].c = req.c
              /\ k \in children[req.c] => req.pc = "loaded" /\ k \in req.victims
    /\ req.op = "reupload" /\ req.pc = "loaded" => req.victims \subseteq req.doomed

Deleting(c) == Busy(c) /\ req.op = "delete"

\* The source of the request's upload is in S3 and not yet in a row.
SourceSent ==
    \/ req.op = "create" /\ req.pc = "stored"
    \/ req.op = "reupload" /\ req.pc \in {"read", "loaded"}

\* What is stored: the objects of the live rows, the PDFs a job is about to
\* give rows, the source the request is about to.
Served ==
    \A c \in Containers : Live(c) /\ ~Deleting(c) =>
        \A k \in KeysOf(c) : s3[k] = "stored"

Produced ==
    \A u \in Uploads : job[u].pc \in {"uploaded", "checked"} =>
        \A k \in Outputs(u) : s3[k] = "stored"

Sent == SourceSent => s3[SourceKey(req.u)] = "stored"

StoredInv == faults = 0 => Served /\ Produced /\ Sent

\* A finished job of c whose PDFs are all there.
Whole(c) ==
    \E u \in Uploads : /\ job[u].pc = "completed" /\ job[u].c = c
                       /\ Outputs(u) \subseteq children[c]

\* A re-upload that has deleted a row has forgotten the status it read, and
\* will write "pending".
WholeInv ==
    faults = 0 =>
      \A c \in Containers :
        /\ Live(c) /\ status[c] = "completed"
        /\ ~(Listed(c) /\ req.seen = "expired")
        => Whole(c)

BaseInv == CoreInv /\ StaleInv /\ SourcesInv

-----------------------------------------------------------------------------
(* Keys *)

\* The keys of the rows, and whose they are.
LEMMA RowKeys ==
    ASSUME BaseInv, NEW c \in Containers
    PROVE  /\ \A k \in children[c] :
                /\ k \in PdfKeys /\ k \in Keys /\ k[1] \in Uploads
                /\ k[2] # Source
                /\ job[k[1]].pc = "completed" /\ job[k[1]].c = c
           /\ Live(c) => fileKey[c] \in Uploads
           /\ Live(c) => KeysOf(c) \subseteq Keys
<1>1. \A k \in PdfKeys : k \in Keys /\ k[1] \in Uploads /\ k[2] # Source
  BY NamesAssumption DEF PdfKeys, Keys
<1>2. children[c] \subseteq PdfKeys
  BY DEF BaseInv, CoreInv, TypeOK
<1>3. Live(c) => fileKey[c] \in Uploads
  BY DEF BaseInv, CoreInv, FreshInv, Live
<1>4. \A u \in Uploads : SourceKey(u) \in Keys
  BY DEF SourceKey, Keys
<1>5. \A k \in children[c] : job[k[1]].pc = "completed" /\ job[k[1]].c = c
  BY DEF BaseInv, StaleInv
<1>6. Live(c) => KeysOf(c) \subseteq Keys
  BY <1>1, <1>2, <1>3, <1>4 DEF KeysOf
<1> QED
  BY <1>1, <1>2, <1>3, <1>5, <1>6

\* The keys a job writes are its own, and none is a source.
LEMMA OutputKeys ==
    ASSUME CoreInv, NEW u \in Uploads
    PROVE  \A k \in Outputs(u) :
             k \in PdfKeys /\ k \in Keys /\ k[1] = u /\ k[2] # Source
<1>1. Outputs(u) \subseteq PdfKeys /\ PdfKeys \subseteq Keys
  BY OutputsAreKeys DEF CoreInv
<1>2. \A k \in PdfKeys : k[2] # Source
  BY NamesAssumption DEF PdfKeys
<1>3. \A k \in Outputs(u) : k[1] = u
  BY DEF Outputs
<1> QED
  BY <1>1, <1>2, <1>3

\* What one call of S3 does to one object.
LEMMA Objects ==
    ASSUME NEW ks, NEW k \in Keys
    PROVE  /\ Store(ks) => s3'[k] = IF k \in ks THEN "stored" ELSE s3[k]
           /\ Tag(ks) => s3'[k] = IF k \in ks THEN "tagged" ELSE s3[k]
BY DEF Store, Tag

\* After a fault the count of faults is not zero.
LEMMA FaultsCounted ==
    ASSUME CoreInv
    PROVE  /\ Fault => faults' # 0
           /\ \A ks : TagSome(ks) => faults' # 0
BY FaultCount DEF CoreInv, TagSome

\* All that a step of a job does, when nothing fails S3 or the process: to
\* S3, to its own record and to the rows.
LEMMA JobEffect ==
    ASSUME BaseInv, NEW u \in Uploads, JobStep(u), faults' = 0
    PROVE  /\ faults = 0
           /\ job[u].pc \notin {"none", "completed", "discarded"}
           /\ job'[u].pc # job[u].pc
           /\ \A k \in Keys : s3'[k] = s3[k] \/ k \in Outputs(u)
           /\ job'[u].source = job[u].source \/ job'[u].pc = "running"
           /\ job'[u].pc \in {"queued", "seen", "marked"} =>
                job[u].pc \in {"queued", "seen", "marked"}
           /\ job'[u].pc = "uploaded" => \A k \in Outputs(u) : s3'[k] = "stored"
           /\ job'[u].pc = "checked" => job[u].pc = "uploaded" /\ s3' = s3
           /\ job'[u].pc = "discarded" =>
                \A k \in Outputs(u) : s3'[k] # "stored"
           /\ job'[u].pc = "completed" =>
                /\ job[u].pc = "checked" /\ s3' = s3
                /\ Outputs(u) \subseteq children'[job[u].c]
           /\ \A c \in Containers :
                /\ children[c] \subseteq children'[c]
                /\ \A k \in children'[c] : k \notin children[c] =>
                     /\ c = job[u].c /\ k \in Outputs(u)
                     /\ job'[u].pc = "completed"
                /\ status'[c] = "completed" =>
                     \/ status[c] = "completed"
                     \/ c = job[u].c /\ job'[u].pc = "completed"
<1>a. /\ job \in [Uploads -> Jobs] /\ children \in [Containers -> SUBSET PdfKeys]
      /\ status \in [Containers -> Statuses]
  BY DEF BaseInv, CoreInv, TypeOK
<1>b. \A p : Goto(u, p) => /\ job'[u].pc = p
                           /\ job'[u].source = job[u].source
  BY <1>a DEF Goto, Jobs
<1>c. ~TagSome(Outputs(u))
  BY FaultsCounted DEF BaseInv
<1>d. \A k \in Outputs(u) : k \in Keys
  BY OutputKeys DEF BaseInv
<1>e. job[u].pc \in {"queued", "seen", "marked"} => Outputs(u) = {}
  BY DEF BaseInv, SourcesInv, Outputs
<1>f. job[u].pc # "none" => job[u].c \in Containers
  BY DEF BaseInv, CoreInv, FreshInv
<1> USE DEF rows
<1>1. CASE JobSelect(u)
  <2>1. /\ job'[u].pc \in {"seen", "discarded"}
        /\ job'[u].source = job[u].source
    BY <1>1, <1>a, <1>b DEF JobSelect, Jobs
  <2> QED
    BY <1>1, <2>1, <1>e DEF JobSelect
<1>2. CASE JobMark(u)
  <2>1. /\ job'[u].pc \in {"marked", "failing"}
        /\ job'[u].source = job[u].source
    BY <1>2, <1>a, <1>b DEF JobMark, Jobs
  <2>2. \A c \in Containers : status'[c] = "completed" => status[c] = "completed"
    BY <1>2, <1>a DEF JobMark
  <2> QED
    BY <1>2, <2>1, <2>2 DEF JobMark
<1>3. CASE JobReadSource(u)
  <2>1. \/ job'[u].pc = "running"
        \/ job'[u].pc = "failing" /\ job'[u].source = job[u].source
    BY <1>3, <1>a, <1>b DEF JobReadSource, Jobs
  <2> QED
    BY <1>3, <2>1 DEF JobReadSource
<1>4. CASE JobProduce(u)
  BY <1>4, <1>b, <1>d, Objects DEF JobProduce
<1>5. CASE JobFail(u)
  <2>1. PICK some \in SUBSET Outputs(u) : Tag(some)
    BY <1>5 DEF JobFail
  <2>2. \A k \in Keys : s3'[k] = s3[k] \/ k \in Outputs(u)
    BY <2>1, Objects
  <2> QED
    BY <1>5, <2>2, <1>b DEF JobFail
<1>6. CASE JobRecheck(u)
  <2>1. CASE Goto(u, "checked") /\ UNCHANGED <<s3, faults>>
    BY <1>6, <2>1, <1>b DEF JobRecheck
  <2>2. CASE Tag(Outputs(u)) /\ UNCHANGED faults /\ Goto(u, "discarded")
    <3>1. \A k \in Outputs(u) : s3'[k] = "tagged"
      BY <2>2, <1>d, Objects
    <3>2. \A k \in Keys : s3'[k] = s3[k] \/ k \in Outputs(u)
      BY <2>2, Objects
    <3> QED
      BY <1>6, <2>2, <3>1, <3>2, <1>b DEF JobRecheck
  <2> QED
    BY <1>6, <2>1, <2>2, <1>c DEF JobRecheck
<1>7. CASE JobFinish(u)
  <2>0. job[u].c \in Containers /\ job[u].pc = "checked"
    BY <1>7, <1>f DEF JobFinish
  <2>1. CASE Goto(u, "completed")
    <3>1. /\ children' = [children EXCEPT ![job[u].c] = @ \cup Outputs(u)]
          /\ status' = [status EXCEPT ![job[u].c] = "completed"]
      BY <1>7, <2>1, <1>b DEF JobFinish
    <3>2. /\ children'[job[u].c] = children[job[u].c] \cup Outputs(u)
          /\ \A c \in Containers : c # job[u].c =>
               children'[c] = children[c] /\ status'[c] = status[c]
      BY <2>0, <3>1, <1>a
    <3> QED
      BY <1>7, <2>0, <2>1, <3>2, <1>b DEF JobFinish
  <2>2. CASE Goto(u, "failing") /\ UNCHANGED <<children, status>>
    BY <1>7, <2>2, <1>b DEF JobFinish
  <2> QED
    BY <1>7, <2>1, <2>2 DEF JobFinish
<1>8. CASE JobFailSelect(u)
  BY <1>8, <1>b DEF JobFailSelect
<1>9. CASE JobFailCommit(u)
  <2>1. \A c \in Containers : status'[c] = "completed" => status[c] = "completed"
    BY <1>9, <1>a DEF JobFailCommit
  <2> QED
    BY <1>9, <2>1, <1>b DEF JobFailCommit
<1> QED
  BY <1>1, <1>2, <1>3, <1>4, <1>5, <1>6, <1>7, <1>8, <1>9 DEF JobStep

\* A deletion leaves the request deleting, or gone if S3 refused.
LEMMA DeleteRequest ==
    ASSUME NEW c \in Containers, DeleteContainer(c)
    PROVE  /\ req'.op \in {"idle", "delete"} /\ req'.doomed = {}
           /\ req'.op = "delete" => req'.c = c
           /\ req' = Idle => \E ks : TagSome(ks)
           /\ req' # Idle => Tag(KeysOf(c)) /\ req'.op = "delete" /\ faults' = faults
<1>1. CASE /\ Tag(KeysOf(c)) /\ UNCHANGED faults
           /\ req' = [Idle EXCEPT !.op = "delete", !.pc = "tagged", !.c = c,
                                  !.victims = children[c]]
  <2>1. /\ req'.op = "delete" /\ req'.doomed = {} /\ req'.c = c
        /\ req' # Idle
    BY <1>1 DEF Idle
  <2> QED
    BY <1>1, <2>1
<1>2. CASE TagSome(KeysOf(c)) /\ req' = Idle
  BY <1>2 DEF Idle
<1> QED
  BY <1>1, <1>2 DEF DeleteContainer

-----------------------------------------------------------------------------
(* Sources *)

\* Every step keeps the sources of the rows apart (FileService.upload and
\* _reupload_container, ConversionService._run).
LEMMA SourcesStep == BaseInv /\ [Next]_vars => SourcesInv'
<1> SUFFICES ASSUME BaseInv, [Next]_vars PROVE SourcesInv'
  OBVIOUS
<1>a. /\ job \in [Uploads -> Jobs] /\ req \in Requests
      /\ fileKey \in [Containers -> Uploads \cup {None}]
  BY DEF BaseInv, CoreInv, TypeOK
<1>b. ReqInv /\ FreshInv
  BY DEF BaseInv, CoreInv
<1> USE DEF rows, SourcesInv, BaseInv
<1>1. ASSUME NEW u \in Uploads, NEW c \in Containers, UploadNew(u, c)
      PROVE  SourcesInv'
  BY <1>1 DEF UploadNew, Idle
<1>2. ASSUME NEW u \in Uploads, NEW c \in Containers, UploadAgain(u, c)
      PROVE  SourcesInv'
  BY <1>2, <1>b DEF UploadAgain, Idle, Fresh, FreshInv
<1>3. CASE CreateRow
  BY <1>3, <1>a, <1>b DEF CreateRow, ReqInv
<1>4. CASE Respond
  <2>1. /\ req.u \in Uploads /\ job[req.u].pc = "none"
        /\ req' = Idle /\ fileKey' = fileKey
        /\ job' = [job EXCEPT ![req.u] =
                     [job[req.u] EXCEPT !.pc = "queued", !.c = req.c]]
    BY <1>4, <1>b DEF Respond, ReqInv
  <2>2. job'[req.u].source = job[req.u].source
    BY <2>1, <1>a DEF Jobs
  <2>3. \A u \in Uploads : u # req.u => job'[u] = job[u]
    BY <2>1, <1>a
  <2> QED
    BY <2>1, <2>2, <2>3 DEF Idle
<1>5. CASE ListOutputs
  BY <1>5, <1>a DEF ListOutputs, Requests
<1>6. CASE DeleteOutput
  <2>1. PICK k \in req.victims :
           req' = [req EXCEPT !.victims = @ \ {k}, !.seen = "expired"]
    BY <1>6 DEF DeleteOutput
  <2> QED
    BY <1>6, <2>1, <1>a DEF DeleteOutput, Requests
<1>7. CASE CommitReupload
  BY <1>7, <1>a, <1>b DEF CommitReupload, Requests, ReqInv
<1>8. CASE TagReplaced
  <2>1. req' = [req EXCEPT !.pc = "tagged", !.doomed = {}] => req'.pc = "tagged"
    BY <1>a DEF Requests
  <2>2. req' = Idle => req'.op = "idle"
    BY DEF Idle
  <2> QED
    BY <1>8, <2>1, <2>2 DEF TagReplaced
<1>9. ASSUME NEW c \in Containers, DeleteContainer(c) PROVE SourcesInv'
  <2>1. req'.op # "reupload"
    BY <1>9, DeleteRequest
  <2> QED
    BY <1>9, <2>1 DEF DeleteContainer
<1>10. CASE DropRow
  BY <1>10 DEF DropRow, Idle
<1>11. ASSUME NEW u \in Uploads, JobStep(u) PROVE SourcesInv'
  <2>1. /\ UNCHANGED <<fileKey, req>>
        /\ \A v \in Uploads \ {u} : job'[v] = job[v]
    BY <1>11, JobFrame DEF CoreInv
  <2>2. job'[u].pc \in {"none", "queued", "seen", "marked"} =>
          job'[u].source = None
    <3> USE <1>a DEF Goto, Jobs
    <3>1. CASE JobSelect(u)
      BY <3>1 DEF JobSelect
    <3>2. CASE JobMark(u)
      BY <3>2 DEF JobMark
    <3>3. CASE JobReadSource(u)
      BY <3>3 DEF JobReadSource
    <3>4. CASE JobProduce(u) \/ JobFail(u) \/ JobRecheck(u)
      BY <3>4 DEF JobProduce, JobFail, JobRecheck
    <3>5. CASE JobFinish(u) \/ JobFailSelect(u) \/ JobFailCommit(u)
      BY <3>5 DEF JobFinish, JobFailSelect, JobFailCommit
    <3> QED
      BY <1>11, <3>1, <3>2, <3>3, <3>4, <3>5 DEF JobStep
  <2> QED
    BY <2>1, <2>2
<1>12. CASE Restart
  <2>1. \A u \in Uploads : job'[u] = job[u] \/ job'[u].pc = "lost"
    BY <1>12, <1>a DEF Restart, Jobs
  <2> QED
    BY <1>12, <2>1 DEF Restart, Idle
<1>13. CASE UNCHANGED vars
  BY <1>13 DEF vars
<1> QED
  BY <1>1, <1>2, <1>3, <1>4, <1>5, <1>6, <1>7, <1>8, <1>9, <1>10, <1>11, <1>12,
     <1>13 DEF Next, RequestStep

\* No two rows share a source.
LEMMA BaseCorrect == Spec => []BaseInv
<1>1. Init => StaleInv /\ SourcesInv
  BY NamesAssumption DEF Init, StaleInv, SourcesInv, NoJob, Idle, Uploads
<1>2. BaseInv /\ [Next]_vars => StaleInv' /\ SourcesInv'
  BY StaleStep, SourcesStep DEF BaseInv
<1>3. CoreInv /\ StaleInv /\ SourcesInv <=> BaseInv
  BY DEF BaseInv
<1> QED
  BY <1>1, <1>2, <1>3, CoreCorrect, PTL DEF Spec

-----------------------------------------------------------------------------
(* What a re-upload lists *)

\* Every step keeps the listed objects out of the rows that stay
\* (FileService._reupload_container).
LEMMA DoomedStep == BaseInv /\ DoomedInv /\ [Next]_vars => DoomedInv'
<1> SUFFICES ASSUME BaseInv, DoomedInv, [Next]_vars PROVE DoomedInv'
  OBVIOUS
<1>a. /\ job \in [Uploads -> Jobs] /\ req \in Requests
      /\ fileKey \in [Containers -> Uploads \cup {None}]
      /\ children \in [Containers -> SUBSET PdfKeys]
      /\ CoreInv /\ ReqInv /\ FreshInv /\ StaleInv /\ SourcesInv
  BY DEF BaseInv, CoreInv, TypeOK
<1>b. \A k \in req.doomed : k \in Keys /\ k[1] \in Uploads
  BY <1>a DEF Requests, Keys
<1>idle. req' = Idle => DoomedInv'
  BY DEF DoomedInv, Dooming, Idle
<1> USE DEF rows, DoomedInv, Dooming
<1>1. ASSUME NEW u \in Uploads, NEW c \in Containers, UploadNew(u, c)
      PROVE  DoomedInv'
  BY <1>1 DEF UploadNew, Idle
<1>2. ASSUME NEW u \in Uploads, NEW c \in Containers, UploadAgain(u, c)
      PROVE  DoomedInv'
  BY <1>2 DEF UploadAgain, Idle
<1>3. CASE CreateRow
  BY <1>3, <1>a DEF CreateRow, Requests
<1>4. CASE Respond
  BY <1>4, <1>idle DEF Respond
<1>5. CASE ListOutputs
  <2>1. /\ req.c \in Containers /\ life[req.c] = "live"
        /\ req' = [req EXCEPT !.pc = "loaded", !.victims = children[req.c],
                              !.doomed = KeysOf(req.c)]
        /\ UNCHANGED <<children, fileKey, job>> /\ req.op = "reupload"
    BY <1>5, <1>a DEF ListOutputs, ReqInv
  <2>2. /\ req'.pc = "loaded" /\ req'.victims = children[req.c]
        /\ req'.doomed = KeysOf(req.c) /\ req'.c = req.c
        /\ req'.op = "reupload"
    BY <2>1, <1>a DEF Requests
  <2>3. \A k \in children[req.c] :
          k[2] # Source /\ job[k[1]].pc = "completed" /\ job[k[1]].c = req.c
    BY <2>1, RowKeys
  <2>4. /\ SourceKey(fileKey[req.c])[1] = fileKey[req.c]
        /\ SourceKey(fileKey[req.c])[2] = Source
    BY DEF SourceKey
  <2>5. \A k \in KeysOf(req.c) :
          k \in children[req.c] \/ k = SourceKey(fileKey[req.c])
    BY DEF KeysOf
  <2>6. children[req.c] \subseteq KeysOf(req.c)
    BY DEF KeysOf
  <2> QED
    BY <2>1, <2>2, <2>3, <2>4, <2>5, <2>6
<1>6. CASE DeleteOutput
  <2>1. PICK k \in req.victims :
           /\ children' = [children EXCEPT ![req.c] = @ \ {k}]
           /\ req' = [req EXCEPT !.victims = @ \ {k}, !.seen = "expired"]
    BY <1>6 DEF DeleteOutput
  <2>2. /\ req.c \in Containers /\ UNCHANGED <<fileKey, job>>
        /\ req.op = "reupload" /\ req.pc = "loaded"
    BY <1>6, <1>a DEF DeleteOutput, ReqInv
  <2>3. /\ req'.pc = "loaded" /\ req'.victims = req.victims \ {k}
        /\ req'.doomed = req.doomed /\ req'.c = req.c
        /\ req'.op = "reupload"
        /\ children'[req.c] = children[req.c] \ {k}
    BY <2>1, <2>2, <1>a DEF Requests
  <2> QED
    BY <2>2, <2>3
<1>7. CASE CommitReupload
  <2>1. /\ req.c \in Containers /\ life[req.c] = "live" /\ req.u \in Uploads
        /\ req.op = "reupload" /\ req.pc = "loaded" /\ req.victims = {}
        /\ fileKey' = [fileKey EXCEPT ![req.c] = req.u]
        /\ req' = [req EXCEPT !.pc = "written"]
        /\ UNCHANGED <<children, job>>
    BY <1>7, <1>a DEF CommitReupload, ReqInv
  <2>2. /\ req'.pc = "written" /\ req'.doomed = req.doomed /\ req'.c = req.c
        /\ req'.op = "reupload"
    BY <2>1, <1>a DEF Requests
  <2>3. /\ fileKey[req.c] \in Uploads /\ fileKey[req.c] # req.u
        /\ \A c \in Containers : c # req.c => fileKey[c] # fileKey[req.c]
    BY <2>1, <1>a DEF SourcesInv, FreshInv
  <2>4. \A c \in Containers : fileKey'[c] # fileKey[req.c]
    BY <2>1, <2>3, <1>a
  <2> QED
    BY <2>1, <2>2, <2>4
<1>8. CASE TagReplaced
  <2>1. CASE req' = [req EXCEPT !.pc = "tagged", !.doomed = {}]
    BY <2>1, <1>a DEF Requests
  <2> QED
    BY <1>8, <2>1, <1>idle DEF TagReplaced
<1>9. ASSUME NEW c \in Containers, DeleteContainer(c) PROVE DoomedInv'
  <2>1. req'.op # "reupload" /\ req'.doomed = {}
    BY <1>9, DeleteRequest
  <2> QED
    BY <2>1
<1>10. CASE DropRow
  BY <1>10, <1>idle DEF DropRow
<1>11. ASSUME NEW u \in Uploads, JobStep(u) PROVE DoomedInv'
  <2>1. /\ UNCHANGED <<fileKey, req>>
        /\ \A v \in Uploads \ {u} : job'[v] = job[v]
    BY <1>11, <1>a, JobFrame DEF CoreInv
  <2>2. \A c \in Containers : \A k \in children'[c] :
          k \in children[c] \/ k[1] = u
    BY <1>11, <1>a, JobOutputs
  <2>3. job[u].pc # "completed"
    BY <1>11 DEF JobStep, JobSelect, JobMark, JobReadSource, JobProduce,
                 JobFail, JobRecheck, JobFinish, JobFailSelect, JobFailCommit
  <2>4. Dooming => req.c \in Containers
    BY <1>a DEF ReqInv
  <2> QED
    BY <2>1, <2>2, <2>3, <2>4, <1>b
<1>12. CASE Restart
  BY <1>12, <1>idle DEF Restart
<1>13. CASE UNCHANGED vars
  BY <1>13 DEF vars
<1> QED
  BY <1>1, <1>2, <1>3, <1>4, <1>5, <1>6, <1>7, <1>8, <1>9, <1>10, <1>11, <1>12,
     <1>13 DEF Next, RequestStep

\* What a re-upload is going to tag is in no row that stays.
LEMMA DoomedCorrect == Spec => [](BaseInv /\ DoomedInv)
<1>1. Init => DoomedInv
  BY DEF Init, DoomedInv, Dooming, Idle
<1> QED
  BY <1>1, DoomedStep, BaseCorrect, PTL DEF Spec

-----------------------------------------------------------------------------
(* Live rows can be served *)

DataInv == BaseInv /\ DoomedInv /\ StoredInv

\* No output of a job that has not finished is in a row or going to be tagged.
LEMMA UnfinishedIsPrivate ==
    ASSUME BaseInv, DoomedInv, NEW u \in Uploads, job[u].pc # "completed",
           NEW k \in Outputs(u)
    PROVE  k \notin req.doomed /\ \A c \in Containers : k \notin KeysOf(c)
<1>1. k[1] = u /\ k[2] # Source
  BY OutputKeys DEF BaseInv
<1>2. k \notin req.doomed
  BY <1>1 DEF DoomedInv
<1>3. ASSUME NEW c \in Containers PROVE k \notin KeysOf(c)
  <2>1. k \notin children[c]
    BY <1>1, RowKeys
  <2>2. k # SourceKey(fileKey[c])
    BY <1>1 DEF SourceKey
  <2> QED
    BY <2>1, <2>2 DEF KeysOf
<1> QED
  BY <1>2, <1>3

\* The rows of two live containers have no key in common.
LEMMA RowsApart ==
    ASSUME BaseInv, NEW c \in Containers, NEW d \in Containers, c # d,
           Live(c), NEW k \in KeysOf(c)
    PROVE  k \notin KeysOf(d)
<1>1. CASE k \in children[c]
  <2>1. job[k[1]].c = c /\ k[2] # Source
    BY <1>1, RowKeys
  <2>2. k \notin children[d]
    BY <2>1, RowKeys
  <2>3. k # SourceKey(fileKey[d])
    BY <2>1 DEF SourceKey
  <2> QED
    BY <2>2, <2>3 DEF KeysOf
<1>2. CASE k = SourceKey(fileKey[c])
  <2>1. k[1] = fileKey[c] /\ k[2] = Source
    BY <1>2 DEF SourceKey
  <2>2. fileKey[d] # fileKey[c]
    BY RowKeys DEF BaseInv, SourcesInv
  <2>3. k \notin children[d]
    BY <2>1, RowKeys
  <2>4. k # SourceKey(fileKey[d])
    BY <2>1, <2>2 DEF SourceKey
  <2> QED
    BY <2>3, <2>4 DEF KeysOf
<1> QED
  BY <1>1, <1>2 DEF KeysOf

\* No step that keeps S3 and the process alive takes an object from an
\* unfinished job.
LEMMA PdfsKept ==
    ASSUME DataInv, [Next]_vars, faults' = 0, NEW u \in Uploads,
           job[u].pc # "completed", job'[u] = job[u], NEW k \in Outputs(u),
           s3[k] = "stored"
    PROVE  s3'[k] = "stored"
<1>a. BaseInv /\ DoomedInv /\ CoreInv
  BY DEF DataInv, BaseInv
<1>b. k \in Keys /\ k[1] = u
  BY <1>a, OutputKeys
<1>c. ~Fault /\ \A ks : ~TagSome(ks)
  BY <1>a, FaultsCounted
<1>d. k \notin req.doomed /\ \A c \in Containers : k \notin KeysOf(c)
  BY <1>a, UnfinishedIsPrivate
<1>1. (\E ks : Store(ks)) => s3'[k] = "stored"
  BY <1>b, Objects
<1>2. CASE TagReplaced
  BY <1>2, <1>b, <1>c, <1>d, Objects DEF TagReplaced
<1>3. ASSUME NEW c \in Containers, DeleteContainer(c) PROVE s3'[k] = "stored"
  BY <1>3, <1>b, <1>c, <1>d, Objects DEF DeleteContainer
<1>4. ASSUME NEW v \in Uploads, JobStep(v) PROVE s3'[k] = "stored"
  <2>1. v # u => k \notin Outputs(v)
    BY <1>a, <1>b, OutputKeys
  <2>2. s3'[k] = s3[k] \/ k \in Outputs(v)
    BY <1>4, <1>a, <1>b, JobEffect
  <2>3. v # u
    BY <1>4, <1>a, JobEffect
  <2> QED
    BY <2>1, <2>2, <2>3
<1>5. CASE UNCHANGED s3
  BY <1>5
<1> QED
  BY <1>1, <1>2, <1>3, <1>4, <1>5, <1>c
     DEF Next, RequestStep, vars, rows, UploadNew, UploadAgain, CreateRow, Respond,
         ListOutputs, DeleteOutput, CommitReupload, DropRow, Restart

\* A state without a fault comes from one without.
LEMMA FaultFree ==
    ASSUME CoreInv, [Next]_vars, faults' = 0
    PROVE  faults = 0
<1>1. (\E ks : TagSome(ks)) => FALSE
  BY FaultsCounted
<1>2. Fault => FALSE
  BY FaultsCounted
<1>3. ASSUME NEW u \in Uploads, JobStep(u) PROVE faults = 0
  <2>1. faults' = faults \/ faults' = faults + 1
    BY <1>3, JobFrame DEF CoreInv
  <2> QED
    BY <2>1 DEF CoreInv, TypeOK
<1>4. CASE UNCHANGED faults
  BY <1>4
<1> QED
  BY <1>1, <1>2, <1>3, <1>4
     DEF Next, RequestStep, vars, UploadNew, UploadAgain, CreateRow, Respond,
         ListOutputs, DeleteOutput, CommitReupload, TagReplaced,
         DeleteContainer, DropRow, Restart

\* A job whose PDFs are all in S3 keeps them there until it has its rows
\* (ConversionService._run).
LEMMA ProducedStep ==
    ASSUME DataInv, [Next]_vars, faults' = 0
    PROVE  Produced'
<1> SUFFICES ASSUME NEW u \in Uploads, job'[u].pc \in {"uploaded", "checked"},
                    NEW k \in Outputs(u)'
             PROVE  s3'[k] = "stored"
  BY DEF Produced
<1>a. BaseInv /\ CoreInv /\ job \in [Uploads -> Jobs]
  BY DEF DataInv, BaseInv, CoreInv, TypeOK
<1>b. Produced
  BY <1>a, FaultFree DEF DataInv, StoredInv
<1>1. CASE job'[u] = job[u]
  BY <1>1, <1>b, PdfsKept DEF Outputs, Produced
<1>2. CASE JobStep(u)
  <2>1. k \in Outputs(u)
    BY <1>2, <1>a, JobEffect DEF Outputs
  <2> QED
    BY <1>2, <2>1, <1>a, <1>b, JobEffect DEF Produced
<1>3. ASSUME NEW v \in Uploads, v # u, JobStep(v) PROVE job'[u] = job[u]
  BY <1>3, <1>a, JobFrame DEF CoreInv
<1>4. CASE Respond
  <2>1. req.u \in Uploads
    BY <1>4, <1>a DEF Respond, CoreInv, ReqInv
  <2>2. job'[req.u].pc = "queued"
    BY <1>4, <1>a, <2>1 DEF Respond, Jobs
  <2>3. job'[u] = job[u]
    BY <1>4, <1>a, <2>1, <2>2 DEF Respond
  <2> QED
    BY <2>3, <1>1
<1>5. ~Restart
  BY <1>a, FaultsCounted DEF Restart
<1> QED
  BY <1>1, <1>2, <1>3, <1>4, <1>5
     DEF Next, RequestStep, vars, UploadNew, UploadAgain, CreateRow,
         ListOutputs, DeleteOutput, CommitReupload, TagReplaced,
         DeleteContainer, DropRow

\* The source of an upload stays in S3 until a row refers to it
\* (FileService.upload, _reupload_container).
LEMMA SentStep ==
    ASSUME DataInv, [Next]_vars, faults' = 0
    PROVE  Sent'
<1>a. /\ BaseInv /\ CoreInv /\ req \in Requests
      /\ \A u \in Uploads : SourceKey(u) \in Keys
  BY DEF DataInv, BaseInv, CoreInv, TypeOK, SourceKey, Keys
<1>b. Sent
  BY <1>a, FaultFree DEF DataInv, StoredInv
<1>c. \A u : SourceKey(u)' = SourceKey(u) /\ SourceKey(u)[2] = Source
  BY DEF SourceKey
<1>d. SourceKey(req.u)' = SourceKey(req'.u)
  BY DEF SourceKey
<1> USE DEF Sent, SourceSent
<1>1. ASSUME NEW u \in Uploads, NEW c \in Containers,
             UploadNew(u, c) \/ UploadAgain(u, c)
      PROVE  Sent'
  <2>1. Store({SourceKey(u)}) /\ req'.u = u
    BY <1>1 DEF UploadNew, UploadAgain, Idle
  <2> QED
    BY <2>1, <1>a, <1>d, Objects
<1>2. CASE ListOutputs
  BY <1>2, <1>a, <1>b, <1>d DEF ListOutputs, Requests
<1>3. CASE DeleteOutput
  <2>1. PICK k \in req.victims :
           req' = [req EXCEPT !.victims = @ \ {k}, !.seen = "expired"]
    BY <1>3 DEF DeleteOutput
  <2>2. req'.u = req.u
    BY <2>1, <1>a DEF Requests
  <2>3. SourceSent /\ s3' = s3
    BY <1>3 DEF DeleteOutput
  <2> QED
    BY <2>2, <2>3, <1>b, <1>d
<1>4. CASE CreateRow \/ CommitReupload
  BY <1>4, <1>a DEF CreateRow, CommitReupload, Requests
<1>5. CASE Respond \/ DropRow \/ Restart
  BY <1>5 DEF Respond, DropRow, Restart, Idle
<1>6. CASE TagReplaced
  <2>1. req' = [req EXCEPT !.pc = "tagged", !.doomed = {}] => ~SourceSent'
    BY <1>a DEF Requests
  <2>2. req' = Idle => ~SourceSent'
    BY DEF Idle
  <2> QED
    BY <1>6, <2>1, <2>2 DEF TagReplaced
<1>7. ASSUME NEW c \in Containers, DeleteContainer(c) PROVE Sent'
  BY <1>7, DeleteRequest
<1>8. ASSUME NEW u \in Uploads, JobStep(u) PROVE Sent'
  <2>1. req' = req
    BY <1>8, JobFrame, <1>a DEF CoreInv
  <2>2. SourceSent => req.u \in Uploads
    BY <1>a DEF CoreInv, ReqInv
  <2>3. \A k \in Outputs(u) : k[2] # Source
    BY <1>a, OutputKeys
  <2>4. SourceSent => s3'[SourceKey(req.u)] = s3[SourceKey(req.u)]
    BY <1>8, <1>a, <1>c, <2>2, <2>3, JobEffect
  <2> QED
    BY <2>1, <2>4, <1>b, <1>d
<1>9. CASE UNCHANGED vars
  BY <1>9, <1>b, <1>d DEF vars
<1> QED
  BY <1>1, <1>2, <1>3, <1>4, <1>5, <1>6, <1>7, <1>8, <1>9 DEF Next, RequestStep

\* A live container that a step neither reaches nor takes objects from.
LEMMA ServedKept ==
    ASSUME DataInv, faults = 0, NEW c \in Containers, Live(c), ~Deleting(c),
           fileKey'[c] = fileKey[c], children'[c] \subseteq children[c],
           \A k \in KeysOf(c) : s3[k] = "stored" => s3'[k] = "stored"
    PROVE  \A k \in KeysOf(c)' : s3'[k] = "stored"
<1>1. KeysOf(c)' \subseteq KeysOf(c)
  BY DEF KeysOf, SourceKey
<1> QED
  BY <1>1 DEF DataInv, StoredInv, Served

\* Every step keeps the objects of the live rows in S3 (FileService.upload,
\* _reupload_container, delete; ConversionService._run).
LEMMA ServedStep ==
    ASSUME DataInv, [Next]_vars, faults' = 0
    PROVE  Served'
<1> SUFFICES ASSUME NEW c \in Containers, Live(c)', ~Deleting(c)'
             PROVE  \A k \in KeysOf(c)' : s3'[k] = "stored"
  BY DEF Served
<1>a. /\ BaseInv /\ DoomedInv /\ CoreInv /\ ReqInv /\ FreshInv /\ req \in Requests
      /\ life \in [Containers -> {"unused", "live", "deleted"}]
      /\ fileKey \in [Containers -> Uploads \cup {None}]
      /\ children \in [Containers -> SUBSET PdfKeys]
  BY DEF DataInv, BaseInv, CoreInv, TypeOK
<1>b. faults = 0 /\ Sent
  BY <1>a, FaultFree DEF DataInv, StoredInv
<1>c. ~Fault /\ \A ks : ~TagSome(ks)
  BY <1>a, FaultsCounted
<1>d. Live(c) => KeysOf(c) \subseteq Keys
  BY <1>a, RowKeys
<1> USE DEF rows, Live
<1>1. ASSUME NEW u \in Uploads, NEW d \in Containers,
             UploadNew(u, d) \/ UploadAgain(u, d)
      PROVE  \A k \in KeysOf(c)' : s3'[k] = "stored"
  <2>1. /\ Store({SourceKey(u)}) /\ UNCHANGED rows /\ req = Idle
    BY <1>1 DEF UploadNew, UploadAgain
  <2>2. Live(c) /\ ~Deleting(c)
    BY <2>1 DEF Deleting, Busy
  <2>3. \A k \in KeysOf(c) : s3[k] = "stored" => s3'[k] = "stored"
    BY <2>1, <2>2, <1>d, Objects
  <2> QED
    BY <2>1, <2>2, <2>3, <1>b, ServedKept
<1>2. CASE CreateRow
  <2>1. /\ req.c \in Containers /\ life[req.c] = "unused" /\ req.op = "create"
        /\ s3' = s3 /\ children' = children
        /\ fileKey' = [fileKey EXCEPT ![req.c] = req.u]
        /\ life' = [life EXCEPT ![req.c] = "live"]
    BY <1>2, <1>a DEF CreateRow, ReqInv
  <2>2. CASE c = req.c
    <3>1. children'[c] = {} /\ fileKey'[c] = req.u
      BY <2>1, <2>2, <1>a DEF FreshInv
    <3>2. KeysOf(c)' = {SourceKey(req.u)}
      BY <3>1 DEF KeysOf, SourceKey
    <3> QED
      BY <1>2, <2>1, <3>2, <1>b DEF CreateRow, Sent, SourceSent
  <2>3. CASE c # req.c
    BY <2>1, <2>3, <1>a, <1>b, ServedKept DEF Deleting
  <2> QED
    BY <2>2, <2>3
<1>3. CASE Respond \/ ListOutputs
  BY <1>3, <1>b, ServedKept DEF Respond, ListOutputs, Deleting
<1>4. CASE DeleteOutput
  <2>1. PICK k \in req.victims :
           children' = [children EXCEPT ![req.c] = @ \ {k}]
    BY <1>4 DEF DeleteOutput
  <2>2. children'[c] \subseteq children[c]
    BY <2>1, <1>a
  <2> QED
    BY <1>4, <2>2, <1>b, ServedKept DEF DeleteOutput, Deleting
<1>5. CASE CommitReupload
  <2>1. /\ req.c \in Containers /\ life[req.c] = "live"
        /\ req.op = "reupload" /\ req.pc = "loaded"
        /\ s3' = s3 /\ children' = children /\ life' = life
        /\ fileKey' = [fileKey EXCEPT ![req.c] = req.u]
    BY <1>5, <1>a DEF CommitReupload, ReqInv
  <2>2. CASE c = req.c
    <3>1. KeysOf(c)' \subseteq KeysOf(c) \cup {SourceKey(req.u)}
      <4>1. fileKey'[c] = req.u /\ children'[c] = children[c]
        BY <2>1, <2>2, <1>a
      <4> QED
        BY <4>1 DEF KeysOf, SourceKey
    <3>2. s3[SourceKey(req.u)] = "stored"
      BY <2>1, <1>b DEF Sent, SourceSent
    <3>3. \A k \in KeysOf(c) : s3[k] = "stored"
      BY <2>1, <2>2, <1>b DEF DataInv, StoredInv, Served, Deleting
    <3> QED
      BY <2>1, <3>1, <3>2, <3>3
  <2>3. CASE c # req.c
    BY <2>1, <2>3, <1>a, <1>b, ServedKept DEF Deleting
  <2> QED
    BY <2>2, <2>3
<1>6. CASE TagReplaced
  <2>1. /\ Tag(req.doomed) /\ UNCHANGED rows /\ req.op = "reupload"
        /\ req.pc = "written" /\ Live(c)
    BY <1>6, <1>c DEF TagReplaced
  <2>2. \A k \in KeysOf(c) : k \notin req.doomed
    <3>1. ASSUME NEW k \in KeysOf(c), k \in req.doomed PROVE FALSE
      <4>1. CASE k \in children[c]
        <5>1. k[2] # Source /\ job[k[1]].c = c
          BY <4>1, <1>a, RowKeys
        <5>2. job[k[1]].c = req.c /\ k \notin children[req.c]
          BY <2>1, <3>1, <5>1, <1>a DEF DoomedInv, Dooming
        <5> QED
          BY <4>1, <5>1, <5>2
      <4>2. CASE k = SourceKey(fileKey[c])
        <5>1. k[2] = Source /\ k[1] = fileKey[c]
          BY <4>2 DEF SourceKey
        <5> QED
          BY <2>1, <3>1, <5>1, <1>a DEF DoomedInv, Dooming
      <4> QED
        BY <3>1, <4>1, <4>2 DEF KeysOf
    <3> QED
      BY <3>1
  <2>3. \A k \in KeysOf(c) : s3'[k] = s3[k]
    BY <2>1, <2>2, <1>d, Objects
  <2> QED
    BY <2>1, <2>3, <1>b, ServedKept DEF Deleting
<1>7. ASSUME NEW d \in Containers, DeleteContainer(d)
      PROVE  \A k \in KeysOf(c)' : s3'[k] = "stored"
  <2>1. /\ Tag(KeysOf(d)) /\ UNCHANGED rows /\ req = Idle
        /\ req'.op = "delete" /\ req'.c = d /\ req' # Idle
    BY <1>7, <1>c, DeleteRequest DEF DeleteContainer
  <2>2. c # d /\ Live(c) /\ ~Deleting(c)
    BY <2>1 DEF Deleting, Busy
  <2>3. \A k \in KeysOf(c) : k \notin KeysOf(d)
    BY <2>2, <1>a, RowsApart
  <2>4. \A k \in KeysOf(c) : s3'[k] = s3[k]
    BY <2>1, <2>2, <2>3, <1>d, Objects
  <2> QED
    BY <2>1, <2>2, <2>4, <1>b, ServedKept
<1>8. CASE DropRow
  <2>1. /\ req.c \in Containers /\ s3' = s3 /\ fileKey' = fileKey
        /\ life' = [life EXCEPT ![req.c] = "deleted"]
        /\ children' = [children EXCEPT ![req.c] = {}]
    BY <1>8, <1>a DEF DropRow, ReqInv
  <2>2. c # req.c /\ Live(c) /\ children'[c] = children[c]
    BY <2>1, <1>a
  <2> QED
    BY <2>1, <2>2, <1>b, ServedKept DEF Deleting, Busy
<1>9. ASSUME NEW u \in Uploads, JobStep(u)
      PROVE  \A k \in KeysOf(c)' : s3'[k] = "stored"
  <2>1. /\ UNCHANGED <<life, fileKey, req>>
    BY <1>9, <1>a, JobFrame DEF CoreInv
  <2>2. /\ Live(c) /\ ~Deleting(c)
    BY <2>1 DEF Deleting, Busy
  <2>3. \A k \in KeysOf(c) : s3[k] = "stored"
    BY <2>2, <1>b DEF DataInv, StoredInv, Served
  <2>4. job[u].pc # "completed"
    BY <1>9, <1>a, JobEffect
  <2>5. \A k \in KeysOf(c) : s3'[k] = "stored"
    BY <1>9, <2>2, <2>3, <2>4, <1>a, <1>d, JobEffect, UnfinishedIsPrivate
  <2>6. ASSUME NEW k \in children'[c], k \notin children[c]
        PROVE  s3'[k] = "stored"
    <3>1. k \in Outputs(u) /\ job'[u].pc = "completed"
      BY <1>9, <2>6, <1>a, JobEffect
    <3>2. job[u].pc = "checked" /\ s3' = s3
      BY <1>9, <3>1, <1>a, JobEffect
    <3> QED
      BY <3>1, <3>2, <1>b DEF DataInv, StoredInv, Produced
  <2>7. \A k \in KeysOf(c)' : k \in KeysOf(c) \/ k \in children'[c]
    BY <2>1 DEF KeysOf, SourceKey
  <2>8. children[c] \subseteq KeysOf(c)
    BY DEF KeysOf
  <2> QED
    BY <2>5, <2>6, <2>7, <2>8
<1>10. ~Restart
  BY <1>c DEF Restart
<1>11. CASE UNCHANGED vars
  BY <1>11, <1>b, ServedKept DEF vars, Deleting, Busy
<1> QED
  BY <1>1, <1>2, <1>3, <1>4, <1>5, <1>6, <1>7, <1>8, <1>9, <1>10, <1>11
     DEF Next, RequestStep

\* S3 holds what the rows, the jobs and the request count on.
LEMMA StoredCorrect == Spec => []DataInv
<1>1. Init => StoredInv
  BY DEF Init, StoredInv, Served, Produced, Sent, SourceSent, Live, NoJob, Idle
<1>2. DataInv /\ [Next]_vars => StoredInv'
  BY ProducedStep, SentStep, ServedStep DEF StoredInv
<1>3. BaseInv /\ DoomedInv /\ StoredInv <=> DataInv
  BY DEF DataInv
<1> QED
  BY <1>1, <1>2, <1>3, DoomedCorrect, PTL DEF Spec

\* Every key a row of a live container refers to can be served, but while the
\* container is being deleted (FileService.serve presigns it without looking).
THEOREM RowsServable == Spec => []LiveRowsServable
<1>1. DataInv => LiveRowsServable
  BY DEF DataInv, StoredInv, Served, LiveRowsServable, Deleting
<1> QED
  BY <1>1, StoredCorrect, PTL

-----------------------------------------------------------------------------
(* A completed container is whole *)

\* A whole run stays whole while its container loses no row and finished jobs
\* stay as they are.
LEMMA WholeKept ==
    ASSUME NEW c \in Containers, Whole(c), children[c] \subseteq children'[c],
           \A u \in Uploads : job[u].pc = "completed" => job'[u] = job[u]
    PROVE  Whole(c)'
<1>1. PICK u \in Uploads : /\ job[u].pc = "completed" /\ job[u].c = c
                           /\ Outputs(u) \subseteq children[c]
  BY DEF Whole
<1>2. job'[u] = job[u]
  BY <1>1
<1>3. Outputs(u)' = Outputs(u)
  BY <1>2 DEF Outputs
<1> QED
  BY <1>1, <1>2, <1>3 DEF Whole

\* Every step keeps a completed container whole (FileService.upload,
\* _reupload_container, delete; ConversionService._run).
LEMMA WholeStep == DataInv /\ WholeInv /\ [Next]_vars => WholeInv'
<1> SUFFICES ASSUME DataInv, WholeInv, [Next]_vars, faults' = 0,
                    NEW c \in Containers, Live(c)', status'[c] = "completed",
                    ~(Listed(c)' /\ req'.seen = "expired")
             PROVE  Whole(c)'
  BY DEF WholeInv
<1>a. /\ BaseInv /\ CoreInv /\ ReqInv /\ FreshInv /\ req \in Requests
      /\ life \in [Containers -> {"unused", "live", "deleted"}]
      /\ status \in [Containers -> Statuses] /\ job \in [Uploads -> Jobs]
      /\ children \in [Containers -> SUBSET PdfKeys]
  BY DEF DataInv, BaseInv, CoreInv, TypeOK
<1>b. /\ faults = 0 /\ ~Fault /\ \A ks : ~TagSome(ks)
  BY <1>a, FaultFree, FaultsCounted
<1>c. /\ Live(c) /\ status[c] = "completed"
      /\ ~(Listed(c) /\ req.seen = "expired")
      => Whole(c)
  BY <1>b DEF WholeInv
<1> USE DEF rows, Live, Listed
<1>1. ASSUME NEW u \in Uploads, NEW d \in Containers,
             UploadNew(u, d) \/ UploadAgain(u, d)
      PROVE  Whole(c)'
  BY <1>1, <1>c, WholeKept DEF UploadNew, UploadAgain, Idle
<1>2. CASE CreateRow
  <2>1. c # req.c
    BY <1>2, <1>a DEF CreateRow
  <2> QED
    BY <1>2, <2>1, <1>a, <1>c, WholeKept DEF CreateRow
<1>3. CASE Respond
  <2>1. \A u \in Uploads : job[u].pc = "completed" => job'[u] = job[u]
    BY <1>3, <1>a DEF Respond, ReqInv
  <2> QED
    BY <1>3, <2>1, <1>c, WholeKept DEF Respond
<1>4. CASE ListOutputs
  BY <1>4, <1>c, WholeKept DEF ListOutputs
<1>5. CASE DeleteOutput
  <2>1. PICK k \in req.victims :
           /\ children' = [children EXCEPT ![req.c] = @ \ {k}]
           /\ req' = [req EXCEPT !.victims = @ \ {k}, !.seen = "expired"]
    BY <1>5 DEF DeleteOutput
  <2>2. /\ req'.seen = "expired" /\ req'.c = req.c /\ req'.op = req.op
        /\ req'.pc = req.pc
    BY <2>1, <1>a DEF Requests
  <2>3. c # req.c
    BY <1>5, <2>2 DEF DeleteOutput
  <2>4. children'[c] = children[c]
    BY <2>1, <2>3, <1>a
  <2> QED
    BY <1>5, <2>3, <2>4, <1>c, WholeKept DEF DeleteOutput
<1>6. CASE CommitReupload
  <2>1. c = req.c => status[c] = "completed" /\ req.seen = "pending"
    BY <1>6, <1>a DEF CommitReupload
  <2>2. c # req.c => status[c] = "completed"
    BY <1>6, <1>a DEF CommitReupload
  <2> QED
    BY <1>6, <2>1, <2>2, <1>c, WholeKept DEF CommitReupload
<1>7. CASE TagReplaced
  BY <1>7, <1>c, WholeKept DEF TagReplaced
<1>8. ASSUME NEW d \in Containers, DeleteContainer(d) PROVE Whole(c)'
  BY <1>8, <1>c, WholeKept DEF DeleteContainer, Idle
<1>9. CASE DropRow
  <2>1. c # req.c /\ Live(c) /\ children'[c] = children[c] /\ status'[c] = status[c]
    BY <1>9, <1>a DEF DropRow, ReqInv
  <2> QED
    BY <1>9, <2>1, <1>c, WholeKept DEF DropRow
<1>10. ASSUME NEW u \in Uploads, JobStep(u) PROVE Whole(c)'
  <2>1. /\ UNCHANGED <<life, req>> /\ job'[u].c = job[u].c
        /\ \A v \in Uploads \ {u} : job'[v] = job[v]
    BY <1>10, <1>a, JobFrame DEF CoreInv
  <2>2. /\ job[u].pc # "completed" /\ children[c] \subseteq children'[c]
        /\ \/ status[c] = "completed"
           \/ c = job[u].c /\ job'[u].pc = "completed"
    BY <1>10, <1>a, JobEffect
  <2>3. CASE status[c] = "completed"
    <3>1. \A v \in Uploads : job[v].pc = "completed" => job'[v] = job[v]
      BY <2>1, <2>2
    <3> QED
      BY <2>1, <2>2, <2>3, <3>1, <1>c, WholeKept
  <2>4. CASE c = job[u].c /\ job'[u].pc = "completed"
    <3>1. job'[u].source = job[u].source /\ Outputs(u) \subseteq children'[c]
      BY <1>10, <2>4, <1>a, JobEffect
    <3>2. Outputs(u)' = Outputs(u)
      BY <3>1 DEF Outputs
    <3> QED
      BY <2>1, <2>4, <3>1, <3>2 DEF Whole
  <2> QED
    BY <2>2, <2>3, <2>4
<1>11. ~Restart
  BY <1>b DEF Restart
<1>12. CASE UNCHANGED vars
  BY <1>12, <1>c, WholeKept DEF vars
<1> QED
  BY <1>1, <1>2, <1>3, <1>4, <1>5, <1>6, <1>7, <1>8, <1>9, <1>10, <1>11, <1>12
     DEF Next, RequestStep

\* A container that says completed shows all the PDFs of one finished job,
\* except while a re-upload is deleting them (_reupload_container, _run).
THEOREM CompletedShowsARun == Spec => []CompletedIsWhole
<1>1. Init => WholeInv
  BY DEF Init, WholeInv, Live
<1>2. WholeInv => CompletedIsWhole
  BY DEF WholeInv, CompletedIsWhole, Whole
<1> QED
  BY <1>1, <1>2, WholeStep, StoredCorrect, PTL DEF Spec

-----------------------------------------------------------------------------
(* No object is left behind *)

\* A PDF in S3 is one of a run still to commit, or has its row, or is about
\* to be tagged, or is left over: the body of OutputsAccountedFor.
Accounted(k) ==
    LET u == k[1]
        c == job[u].c
    IN  /\ k \in Outputs(u)
        /\ \/ job[u].pc \in {"uploaded", "checked"}
           \/ job[u].pc = "completed" /\ k \in children[c] \cup req.doomed
           \/ job[u].pc = "completed" /\ life[c] = "deleted"
           \/ job[u].pc \in {"failing", "marking", "failed"} /\ Refused(u)

\* Every step accounts for each PDF it leaves in S3, but for faults.
LEMMA LeakStep ==
    DataInv /\ OutputsAccountedFor /\ [Next]_vars => OutputsAccountedFor'
<1> SUFFICES ASSUME DataInv, OutputsAccountedFor, [Next]_vars, faults' = 0,
                    NEW k \in PdfKeys, s3'[k] = "stored"
             PROVE  Accounted(k)'
  BY DEF OutputsAccountedFor, Accounted
<1> DEFINE u == k[1]
           c == job[u].c
<1>a. /\ BaseInv /\ DoomedInv /\ CoreInv /\ ReqInv /\ FreshInv /\ req \in Requests
      /\ life \in [Containers -> {"unused", "live", "deleted"}]
      /\ job \in [Uploads -> Jobs]
      /\ children \in [Containers -> SUBSET PdfKeys]
  BY DEF DataInv, BaseInv, CoreInv, TypeOK
<1>b. /\ faults = 0 /\ ~Fault /\ \A ks : ~TagSome(ks)
  BY <1>a, FaultFree, FaultsCounted
<1>c. s3[k] = "stored" => Accounted(k)
  BY <1>b DEF OutputsAccountedFor, Accounted
<1>d. /\ u \in Uploads /\ k \in Keys /\ k[2] # Source
  BY NamesAssumption DEF PdfKeys, Keys
<1>e. job[u].pc # "none" => c \in Containers /\ life[c] # "unused"
  BY <1>a, <1>d DEF FreshInv
<1>f. Accounted(k) => /\ job[u].pc # "none"
                      /\ c \in Containers /\ life[c] # "unused"
  BY <1>e DEF Accounted
<1> HIDE DEF u, c
\* What is accounted for stays so while no job moves and no container comes
\* back, if its row is deleted by what is about to tag it.
<1>g. ASSUME UNCHANGED job, s3[k] = "stored",
             \A d \in Containers : life[d] = "deleted" => life'[d] = "deleted",
             k \in children[c] \cup req.doomed =>
                 \/ k \in children'[c] \cup req'.doomed
                 \/ life'[c] = "deleted"
      PROVE  Accounted(k)'
  BY <1>c, <1>f, <1>g DEF Accounted, Refused, Outputs, u, c
<1> USE DEF rows, Live
<1>1. ASSUME NEW v \in Uploads, NEW d \in Containers,
             UploadNew(v, d) \/ UploadAgain(v, d)
      PROVE  Accounted(k)'
  <2>1. /\ Store({SourceKey(v)}) /\ UNCHANGED <<rows, job>> /\ req = Idle
    BY <1>1 DEF UploadNew, UploadAgain
  <2>2. s3[k] = "stored"
    <3>1. k # SourceKey(v)
      BY <1>d DEF SourceKey
    <3> QED
      BY <2>1, <3>1, <1>d, Objects
  <2> QED
    BY <2>1, <2>2, <1>g DEF Idle
<1>2. CASE CreateRow
  <2>1. /\ UNCHANGED <<job, children, s3>> /\ req.doomed = {}
        /\ life[req.c] = "unused"
        /\ life' = [life EXCEPT ![req.c] = "live"]
    BY <1>2, <1>a DEF CreateRow, ReqInv, DoomedInv, Dooming
  <2> QED
    BY <2>1, <1>a, <1>g
<1>3. CASE Respond
  <2>1. req.u \in Uploads /\ req.doomed = {} /\ job[req.u].pc = "none"
    BY <1>3, <1>a DEF Respond, ReqInv, DoomedInv, Dooming
  <2>2. /\ s3' = s3 /\ UNCHANGED rows
        /\ \A v \in Uploads \ {req.u} : job'[v] = job[v]
    BY <1>3, <2>1, <1>a DEF Respond
  <2>3. u # req.u
    BY <2>1, <2>2, <1>c, <1>f DEF u
  <2>4. \A v \in Uploads : job[v].pc = "completed" => job'[v] = job[v]
    BY <2>1, <2>2
  <2> QED
    BY <2>1, <2>2, <2>3, <2>4, <1>c, <1>d
       DEF Accounted, Refused, Outputs, u, c
<1>4. CASE ListOutputs
  <2>1. req.doomed = {} /\ UNCHANGED <<rows, job, s3>>
    BY <1>4, <1>a DEF ListOutputs, DoomedInv, Dooming
  <2> QED
    BY <2>1, <1>g
<1>5. CASE DeleteOutput
  <2>1. PICK v \in req.victims :
           /\ children' = [children EXCEPT ![req.c] = @ \ {v}]
           /\ req' = [req EXCEPT !.victims = @ \ {v}, !.seen = "expired"]
    BY <1>5 DEF DeleteOutput
  <2>2. req'.doomed = req.doomed
    BY <2>1, <1>a DEF Requests
  <2>3. v \in req.doomed
    BY <1>5, <1>a DEF DeleteOutput, DoomedInv
  <2>4. \A d \in Containers : \A o \in children[d] : o = v \/ o \in children'[d]
    BY <2>1, <1>a
  <2>5. UNCHANGED <<life, job, s3>>
    BY <1>5 DEF DeleteOutput
  <2>6. c \in Containers
    BY <2>5, <1>c, <1>f
  <2> QED
    BY <2>2, <2>3, <2>4, <2>5, <2>6, <1>g
<1>6. CASE CommitReupload
  <2>1. UNCHANGED <<life, children, job, s3>> /\ req'.doomed = req.doomed
    BY <1>6, <1>a DEF CommitReupload, Requests
  <2> QED
    BY <2>1, <1>g
<1>7. CASE TagReplaced
  <2>1. Tag(req.doomed) /\ UNCHANGED <<rows, job>>
    BY <1>7, <1>b DEF TagReplaced
  <2>2. k \notin req.doomed /\ s3[k] = "stored"
    BY <2>1, <1>d, Objects
  <2> QED
    BY <2>1, <2>2, <1>g
<1>8. ASSUME NEW d \in Containers, DeleteContainer(d) PROVE Accounted(k)'
  <2>1. Tag(KeysOf(d)) /\ UNCHANGED <<rows, job>> /\ req = Idle
    BY <1>8, <1>b DEF DeleteContainer
  <2>2. s3[k] = "stored"
    BY <2>1, <1>d, Objects
  <2> QED
    BY <2>1, <2>2, <1>g DEF Idle
<1>9. CASE DropRow
  <2>1. /\ req.c \in Containers /\ UNCHANGED <<job, s3>> /\ req.doomed = {}
        /\ life' = [life EXCEPT ![req.c] = "deleted"]
        /\ children' = [children EXCEPT ![req.c] = {}]
    BY <1>9, <1>a DEF DropRow, ReqInv, DoomedInv, Dooming
  <2>2. c \in Containers
    BY <2>1, <1>c, <1>f
  <2> QED
    BY <2>1, <2>2, <1>a, <1>g
<1>10. ASSUME NEW v \in Uploads, JobStep(v) PROVE Accounted(k)'
  <2>1. /\ UNCHANGED <<life, req>> /\ job'[v].c = job[v].c
        /\ job[v].pc # "none"
        /\ \A w \in Uploads \ {v} : job'[w] = job[w]
    BY <1>10, <1>a, JobFrame DEF CoreInv
  <2>2. /\ job[v].pc # "completed"
        /\ \A d \in Containers : children[d] \subseteq children'[d]
        /\ \A o \in Keys : s3'[o] = s3[o] \/ o \in Outputs(v)
    BY <1>10, <1>a, JobEffect
  <2>3. Refused(u) => Refused(u)'
    <3>1. \A w \in Uploads : job[w].pc = "completed" => job'[w] = job[w]
      BY <2>1, <2>2
    <3>2. job'[u].c = job[u].c
      BY <2>1, <1>d
    <3> QED
      BY <2>1, <3>1, <3>2 DEF Refused
  <2>4. CASE v # u
    <3>1. job'[u] = job[u] /\ k \notin Outputs(v)
      BY <2>1, <2>4, <1>a, <1>d, OutputKeys DEF u
    <3>2. s3[k] = "stored"
      BY <2>2, <3>1, <1>d
    <3> QED
      BY <2>1, <2>2, <2>3, <3>1, <3>2, <1>c, <1>f
         DEF Accounted, Outputs, u, c
  <2>5. CASE v = u
    <3> USE DEF Goto, Jobs
    <3>1. CASE JobSelect(u) \/ JobMark(u) \/ JobReadSource(u)
      <4>1. s3' = s3 /\ job[u].pc \in {"queued", "seen", "marked"}
        BY <3>1 DEF JobSelect, JobMark, JobReadSource
      <4> QED
        BY <4>1, <1>c DEF Accounted, u
    <3>2. CASE JobProduce(u) \/ JobFail(u)
      <4>1. job[u].pc = "running"
        BY <3>2 DEF JobProduce, JobFail
      <4>2. s3[k] # "stored"
        BY <4>1, <1>c DEF Accounted, u
      <4>3. ~JobFail(u)
        BY <4>2, <1>d, Objects DEF JobFail
      <4>4. /\ Store(Outputs(u)) /\ job'[u].pc = "uploaded"
            /\ job'[u].source = job[u].source
        BY <3>2, <4>3, <1>a, <1>d DEF JobProduce
      <4>5. k \in Outputs(u)
        BY <4>2, <4>4, <1>d, Objects
      <4> QED
        BY <4>4, <4>5 DEF Accounted, Outputs, u
    <3>3. CASE JobRecheck(u)
      <4>1. job[u].pc = "uploaded"
        BY <3>3 DEF JobRecheck
      <4>2. CASE Goto(u, "checked") /\ s3' = s3
        <5>1. job'[u].pc = "checked" /\ job'[u].source = job[u].source
          BY <4>2, <1>a, <1>d
        <5> QED
          BY <4>2, <5>1, <1>c DEF Accounted, Outputs, u
      <4>3. CASE Tag(Outputs(u))
        <5>1. s3[k] = "stored" /\ k \notin Outputs(u)
          BY <4>3, <1>d, Objects
        <5> QED
          BY <5>1, <1>c DEF Accounted, u
      <4> QED
        BY <3>3, <4>2, <4>3, <1>b DEF JobRecheck
    <3>4. CASE JobFinish(u)
      <4>1. job[u].pc = "checked" /\ s3' = s3
        BY <3>4 DEF JobFinish
      <4>2. k \in Outputs(u)
        BY <4>1, <1>c DEF Accounted, u
      <4>3. CASE life[c] = "live" /\ NamesFree(u)
        <5>1. /\ children' = [children EXCEPT ![c] = @ \cup Outputs(u)]
              /\ Goto(u, "completed")
          BY <3>4, <4>3 DEF JobFinish, c
        <5>2. /\ job'[u].pc = "completed" /\ job'[u].source = job[u].source
              /\ job'[u].c = c
          BY <5>1, <1>a, <1>d DEF c
        <5>3. k \in children'[c]
          BY <4>1, <4>2, <5>1, <1>a, <1>e
        <5> QED
          BY <4>2, <5>2, <5>3 DEF Accounted, Outputs, u
      <4>4. CASE ~(life[c] = "live" /\ NamesFree(u))
        <5>1. Goto(u, "failing")
          BY <3>4, <4>4 DEF JobFinish, c
        <5>2. job'[u].pc = "failing" /\ job'[u].source = job[u].source
          BY <5>1, <1>a, <1>d
        <5>3. Refused(u)
          <6>1. c \in Containers /\ life[c] # "unused"
            BY <4>1, <1>e
          <6>2. CASE life[c] # "live"
            BY <6>1, <6>2, <1>a DEF Refused, c
          <6>3. CASE ~NamesFree(u)
            <7>1. PICK o \in children[c] : TRUE
              BY <6>3 DEF NamesFree, c
            <7>2. /\ o[1] \in Uploads
                  /\ job[o[1]].pc = "completed" /\ job[o[1]].c = c
              BY <6>1, <7>1, <1>a, RowKeys
            <7>3. o[1] # u
              BY <4>1, <7>2
            <7> QED
              BY <7>2, <7>3 DEF Refused, c
          <6> QED
            BY <4>4, <6>2, <6>3
        <5> QED
          BY <4>2, <5>2, <5>3, <2>3 DEF Accounted, Outputs, u
      <4> QED
        BY <4>3, <4>4
    <3>5. CASE JobFailSelect(u) \/ JobFailCommit(u)
      <4>1. /\ job[u].pc \in {"failing", "marking"} /\ s3' = s3
            /\ Goto(u, "marking") \/ Goto(u, "failed")
        BY <3>5 DEF JobFailSelect, JobFailCommit
      <4>2. /\ job'[u].pc \in {"marking", "failed"}
            /\ job'[u].source = job[u].source
        BY <4>1, <1>a, <1>d
      <4> QED
        BY <4>1, <4>2, <2>3, <1>c DEF Accounted, Outputs, u
    <3> QED
      BY <1>10, <2>5, <3>1, <3>2, <3>3, <3>4, <3>5 DEF JobStep
  <2> QED
    BY <2>4, <2>5
<1>11. ~Restart
  BY <1>b DEF Restart
<1>12. CASE UNCHANGED vars
  BY <1>12, <1>g DEF vars
<1> QED
  BY <1>1, <1>2, <1>3, <1>4, <1>5, <1>6, <1>7, <1>8, <1>9, <1>10, <1>11, <1>12
     DEF Next, RequestStep

\* Without a fault no PDF stays in S3 but for a run still to commit, for a
\* row, for a request about to tag it, for a deleted container or for a run
\* whose commit was refused (ConversionService._run, _reupload_container).
THEOREM OutputsAccounted == Spec => []OutputsAccountedFor
<1>1. Init => OutputsAccountedFor
  <2>1. PdfKeys \subseteq Keys
    BY DEF PdfKeys, Keys
  <2> QED
    BY <2>1 DEF Init, OutputsAccountedFor
<1> QED
  BY <1>1, LeakStep, StoredCorrect, PTL DEF Spec

=============================================================================
