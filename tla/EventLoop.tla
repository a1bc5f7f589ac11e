----------------------------- MODULE EventLoop ------------------------------
(***************************************************************************)
(* How the server runs a request: the event loop, the thread pool and the  *)
(* row locks of the request's database session.                            *)
(*                                                                         *)
(* get_session opens one session per request and commits it after the      *)
(* handler has returned, in a worker thread that the event loop has to     *)
(* start.  The database driver is synchronous.  An `async def` handler     *)
(* runs on the loop, so when one of its statements waits for a row lock    *)
(* the whole loop waits; a `def` handler and the `credentials` dependency  *)
(* run in the pool and wait there.  A lock goes with the commit: in the    *)
(* body of a handler that calls session.commit(), after the response in    *)
(* one that only flushes.                                                  *)
(***************************************************************************)
EXTENDS Naturals, FiniteSets

CONSTANTS
    Requests,        \* the requests the server receives
    Route,           \* the route each request calls
    Objects,         \* ids of rows
    Subject,         \* the row a request is about
    KeyOf,           \* the API key a request authenticates with, or None
    PoolThreads,     \* threads of the default pool (40 in production)
    None

-----------------------------------------------------------------------------
(* The routes: where the body runs, the table it writes a row of, and when  *)
(* it commits: "early" in the body, "late" when only get_session commits    *)
(* what the body flushed, "atCommit" when that commit writes the row too.   *)

Handler == [on : {"loop", "pool"},
            table : {"files", "users", "passkeys", "api_keys", "tokens",
                     "none"},
            commit : {"early", "late", "atCommit"}]

\* FileService.update and _reupload_file flush.
FileRoutes == [r \in {"update_file", "upload_file"} |->
    [on |-> "loop", table |-> "files", commit |-> "late"]]

\* CRUDBase.update and delete_profile commit.
ProfileRoutes == [r \in {"update_my_profile", "delete_profile"} |->
    [on |-> "loop", table |-> "users", commit |-> "early"]]

\* A session.execute(update) that get_session commits.
UnsubscribeRoute == [r \in {"unsubscribe"} |->
    [on |-> "pool", table |-> "users", commit |-> "late"]]

\* process_login rehashes a password or stamps a passkey and returns.
LoginRoutes == [r \in {"login_password", "login_passkey"} |->
    [on |-> "pool",
     table |-> IF r = "login_password" THEN "users" ELSE "passkeys",
     commit |-> "late"]]

\* login_with_code sets used_at; nothing is flushed before the commit.
LoginCodeRoute == [r \in {"login_code"} |->
    [on |-> "pool", table |-> "tokens", commit |-> "atCommit"]]

\* _revoke_pending_recovery_grants flushes, reset_password_request commits.
ResetRoute == [r \in {"reset_password_request"} |->
    [on |-> "loop", table |-> "tokens", commit |-> "early"]]

\* set_password commits.
SetPasswordRoute == [r \in {"set_password"} |->
    [on |-> "pool", table |-> "users", commit |-> "early"]]

\* A member without a passkey handle gets one by session.execute(update).
PreregisterRoute == [r \in {"preregister_passkey"} |->
    [on |-> "loop", table |-> "users", commit |-> "late"]]

DeletePasskeyRoute == [r \in {"delete_passkey"} |->
    [on |-> "loop", table |-> "passkeys", commit |-> "early"]]

RevokeKeyRoute == [r \in {"revoke_my_api_key"} |->
    [on |-> "loop", table |-> "api_keys", commit |-> "early"]]

\* A calendar feed: the body reads, credentials stamps the key.
CalendarRoute == [r \in {"export_ics_me"} |->
    [on |-> "loop", table |-> "none", commit |-> "late"]]

ASSUME RequestsAssumption ==
    /\ Route \in [Requests -> Handler]
    /\ Subject \in [Requests -> Objects]
    /\ KeyOf \in [Requests -> Objects \cup {None}]
    /\ PoolThreads \in Nat
    /\ None \notin Requests

Row(r) == <<Route[r].table, Subject[r]>>

KeyRow(r) == <<"api_keys", KeyOf[r]>>

HasKey(r) == KeyOf[r] # None

\* The body takes the lock of its row; it does not when nothing is flushed.
Flushes(r) == Route[r].table # "none" /\ Route[r].commit # "atCommit"

Rows == {Row(r) : r \in Requests} \cup {KeyRow(r) : r \in Requests}

VARIABLES
    pc,      \* how far each request has come
    loop,    \* the request whose async handler is on the event loop, or None
    lock     \* the request whose open transaction holds each row, or None

loopVars == <<pc, loop, lock>>

-----------------------------------------------------------------------------

\* "credentials", and "running" and "wrote" of a `def` handler, hold a thread
\* of the pool.
Phases == {"new", "credentials", "ready", "running", "wrote", "answered",
           "committing", "done"}

OnLoop(r) == Route[r].on = "loop"

\* The loop serves one body at a time and a request keeps the locks it took.
LoopTypeOK ==
    /\ pc \in [Requests -> Phases]
    /\ loop \in Requests \cup {None}
    /\ lock \in [Rows -> Requests \cup {None}]
    /\ \A r \in Requests :
         loop = r <=> OnLoop(r) /\ pc[r] \in {"running", "wrote"}

LoopInit ==
    /\ pc = [r \in Requests |-> "new"]
    /\ loop = None
    /\ lock = [w \in Rows |-> None]

LoopFree == loop = None

ThreadFree ==
    Cardinality({r \in Requests :
        \/ pc[r] = "credentials"
        \/ pc[r] \in {"running", "wrote"} /\ ~OnLoop(r)}) < PoolThreads

Goto(r, p) == pc' = [pc EXCEPT ![r] = p]

\* r may write row w: an UPDATE waits for the transaction that holds the row.
CanLock(r, w) == lock[w] \in {None, r}

\* The end of r's transaction.
Release(r) == lock' = [w \in Rows |-> IF lock[w] = r THEN None ELSE lock[w]]

\* The loop hands the credentials dependency to a thread.
Authenticate(r) ==
    /\ pc[r] = "new"
    /\ LoopFree /\ ThreadFree
    /\ Goto(r, "credentials")
    /\ UNCHANGED <<loop, lock>>

\* resolve_api_key stamps last_used_at and flushes.
ResolveKey(r) ==
    /\ pc[r] = "credentials"
    /\ IF HasKey(r)
       THEN CanLock(r, KeyRow(r)) /\ lock' = [lock EXCEPT ![KeyRow(r)] = r]
       ELSE UNCHANGED lock
    /\ Goto(r, "ready")
    /\ UNCHANGED loop

\* Mutant: the body of a `def` handler runs on the loop as well.
BugAllOnLoop(r) ==
    /\ pc[r] = "ready"
    /\ LoopFree /\ ThreadFree
    /\ Goto(r, "running")
    /\ loop' = r
    /\ UNCHANGED lock

\* The other dependencies run in the pool, one after the other; then the loop
\* starts the body, or hands it to a thread.
Begin(r) ==
    /\ pc[r] = "ready"
    /\ LoopFree /\ ThreadFree
    /\ Goto(r, "running")
    /\ loop' = IF OnLoop(r) THEN r ELSE loop
    /\ UNCHANGED lock

\* The body's UPDATE.
Write(r) ==
    /\ pc[r] = "running"
    /\ IF Flushes(r)
       THEN CanLock(r, Row(r)) /\ lock' = [lock EXCEPT ![Row(r)] = r]
       ELSE UNCHANGED lock
    /\ Goto(r, "wrote")
    /\ UNCHANGED loop

\* Mutant: no handler commits, all leave it to get_session.
BugKeepOpen(r) ==
    /\ pc[r] = "wrote"
    /\ UNCHANGED lock
    /\ Goto(r, "answered")
    /\ loop' = IF loop = r THEN None ELSE loop

\* The handler commits, if it does, and returns.
Finish(r) ==
    /\ pc[r] = "wrote"
    /\ IF Route[r].commit = "early" THEN Release(r) ELSE UNCHANGED lock
    /\ Goto(r, "answered")
    /\ loop' = IF loop = r THEN None ELSE loop

\* The loop sends the response, then leaves get_session through a thread of
\* its own (the pool's limit does not apply to it).
LeaveSession(r) ==
    /\ pc[r] = "answered"
    /\ LoopFree
    /\ Goto(r, "committing")
    /\ UNCHANGED <<loop, lock>>

\* db.commit(): what was not flushed is written now, and the locks go.
Commit(r) ==
    /\ pc[r] = "committing"
    /\ Route[r].commit = "atCommit" => CanLock(r, Row(r))
    /\ Release(r)
    /\ Goto(r, "done")
    /\ UNCHANGED loop

Step(r) ==
    \/ Authenticate(r) \/ ResolveKey(r) \/ Begin(r) \/ Write(r)
    \/ Finish(r) \/ LeaveSession(r) \/ Commit(r)

\* No more requests: the server waits for the next one.
AllServed ==
    /\ \A r \in Requests : pc[r] = "done"
    /\ UNCHANGED loopVars

LoopNext == (\E r \in Requests : Step(r)) \/ AllServed

LoopSpec == LoopInit /\ [][LoopNext]_loopVars

\* asyncio runs every ready task, threads run, and Postgres grants a lock
\* that is free.
FairSpec == LoopSpec /\ \A r \in Requests : WF_loopVars(Step(r))

-----------------------------------------------------------------------------
(* Properties.  They hold for requests whose routes are Disciplined.         *)

\* The request on the loop waits for the lock of its row.
LoopWaits == loop # None /\ pc[loop] = "running"
               /\ Flushes(loop) /\ ~CanLock(loop, Row(loop))

\* The loop only waits for a transaction that ends without the loop: one in a
\* thread that is about to commit.
LoopWaitsForThreadsOnly ==
    LoopWaits => LET holder == lock[Row(loop)] IN
                 \/ pc[holder] = "committing"
                 \/ pc[holder] = "wrote" /\ ~OnLoop(holder)

\* A request that was answered is committed: SessionDep commits when the
\* handler returns.
AnsweredIsCommitted ==
    \A r \in Requests : pc[r] = "answered" ~> pc[r] = "done"

\* No row that a handler writes on the loop is written by another request
\* that keeps the lock until it leaves its session.
Disciplined ==
    \A r, q \in Requests :
        r # q /\ OnLoop(r) /\ Flushes(r) =>
            /\ HasKey(q) => Row(r) # KeyRow(q)
            /\ Flushes(q) /\ Row(q) = Row(r) => Route[q].commit = "early"

=============================================================================
