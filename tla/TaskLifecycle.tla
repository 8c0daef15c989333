--------------------------- MODULE TaskLifecycle ---------------------------
(***************************************************************************)
(* The life of one analysis task on the path the web application uses:     *)
(* app/services/simple_analysis_service.py with memory_state_manager.py    *)
(* and the routes of app/routers/analysis.py.  The state of a task is kept *)
(* three times: in the memory of the process, in the Mongo collection      *)
(* analysis_tasks and in a progress tracker; its report is a document of   *)
(* analysis_reports.  Coroutines of one event loop interleave where they   *)
(* wait for Mongo or for a thread; the analysis runs in a thread of a      *)
(* bounded pool and reports its progress while the coroutine waits.        *)
(***************************************************************************)
EXTENDS Naturals, Sequences, FiniteSets

CONSTANTS
    Tasks,        \* uuids create_analysis_task draws
    PoolSize,     \* max_workers of the shared ThreadPoolExecutor
    MaxFaults,    \* bound: Mongo commands that raise
    MaxAdmin,     \* bound: calls of mark-failed, delete and the clean-up
    MaxRestarts   \* bound: restarts of the web process

ASSUME LifecycleConstants ==
    /\ IsFiniteSet(Tasks) /\ PoolSize \in Nat \ {0}
    /\ MaxFaults \in Nat /\ MaxAdmin \in Nat /\ MaxRestarts \in Nat

VARIABLES
    memory,    \* memory_manager._tasks: the status and whether result_data is set
    docs,      \* analysis_tasks: the field status
    reports,   \* tasks with a document in analysis_reports
    tracker,   \* progress_data['status'] of the task's RedisProgressTracker
    pc,        \* the coroutine of create_analysis_task and its background task
    thread,    \* _run_analysis_sync in the pool
    waiting,   \* the pool's work queue
    admin,     \* the second half of a mark-failed or delete call
    aged,      \* tasks submitted more than max_running_hours ago
    faults, admins, restarts,
    disturbed, \* history: a Mongo write of the task was lost, or an
               \* administrator failed it under its running coroutine
    unsaved,   \* history: tasks whose report could not be inserted
    deleted    \* history: tasks whose deletion has been answered

bounds  == <<faults, admins, restarts>>
history == <<disturbed, unsaved, deleted>>
pool    == <<thread, waiting>>
vars == <<memory, docs, reports, tracker, pc, thread, waiting, admin, aged,
          faults, admins, restarts, disturbed, unsaved, deleted>>

\* What this path stores in memory and in the document; no step of it stores
\* CANCELLED.
TaskStatus     == {"pending", "running", "completed", "failed"}
AnalysisStatus == {"pending", "processing", "completed", "failed"}
Terminal       == {"completed", "failed"}
NoTask == [status |-> "absent", result |-> FALSE]

\* Where the coroutine waits.  "begin" and "prepare" are the rounds at 10 and
\* at 20 percent; "lost" is a coroutine its process took with it.
Control == {"new", "created", "accepted", "tracking", "begin", "begin_doc",
            "prepare", "prepare_doc", "awaiting", "save", "complete",
            "complete_doc", "fail_doc", "finished", "lost"}

Goto(t, from, to) == pc[t] = from /\ pc' = [pc EXCEPT ![t] = to]

\* update_task_status of the memory manager: no look at the old status, no
\* effect on a task that is not there.
SetMemory(t, s) ==
    IF memory[t] = NoTask THEN memory ELSE [memory EXCEPT ![t].status = s]

\* Mutant: the updates are upserts.
DocWrite_Upsert(t, s) ==
    \/ docs' = [docs EXCEPT ![t] = s] /\ UNCHANGED <<faults, disturbed>>
    \/ /\ faults < MaxFaults /\ faults' = faults + 1
       /\ disturbed' = disturbed \cup {t}
       /\ UNCHANGED docs

\* update_one without upsert; a command that raises leaves the document as it is.
DocWrite(t, s) ==
    \/ /\ docs' = IF docs[t] = "absent" THEN docs ELSE [docs EXCEPT ![t] = s]
       /\ UNCHANGED <<faults, disturbed>>
    \/ /\ faults < MaxFaults /\ faults' = faults + 1
       /\ disturbed' = disturbed \cup {t}
       /\ UNCHANGED docs

TypeOK ==
    /\ memory \in [Tasks -> [status: TaskStatus \cup {"absent"}, result: BOOLEAN]]
    /\ docs \in [Tasks -> AnalysisStatus \cup {"absent"}]
    /\ reports \subseteq Tasks /\ aged \subseteq Tasks
    /\ tracker \in [Tasks -> {"none", "running", "completed", "failed"}]
    /\ pc \in [Tasks -> Control]
    /\ thread \in [Tasks -> {"none", "queued", "working", "returned", "raised"}]
    /\ waiting \in Seq(Tasks)
    /\ admin \in [Tasks -> {"none", "mark", "delete"}]
    /\ faults \in Nat /\ admins \in Nat /\ restarts \in Nat
    /\ disturbed \subseteq Tasks /\ unsaved \subseteq Tasks /\ deleted \subseteq Tasks

Init ==
    /\ memory = [t \in Tasks |-> NoTask] /\ docs = [t \in Tasks |-> "absent"]
    /\ reports = {} /\ aged = {} /\ tracker = [t \in Tasks |-> "none"]
    /\ pc = [t \in Tasks |-> "new"] /\ thread = [t \in Tasks |-> "none"]
    /\ waiting = <<>> /\ admin = [t \in Tasks |-> "none"]
    /\ faults = 0 /\ admins = 0 /\ restarts = 0
    /\ disturbed = {} /\ unsaved = {} /\ deleted = {}

-----------------------------------------------------------------------------
(* create_analysis_task: memory first, then the document.  A failing upsert *)
(* is logged and the task goes on without a document.                       *)

CreateTask(t) ==
    /\ Goto(t, "new", "created")
    /\ memory' = [memory EXCEPT ![t] = [NoTask EXCEPT !.status = "pending"]]
    /\ UNCHANGED <<docs, reports, tracker, pool, admin, aged, bounds, history>>

RecordTask(t) ==
    /\ Goto(t, "created", "accepted")
    /\ \/ docs' = [docs EXCEPT ![t] = "pending"] /\ UNCHANGED <<faults, disturbed>>
       \/ /\ faults < MaxFaults /\ faults' = faults + 1
          /\ disturbed' = disturbed \cup {t} /\ UNCHANGED docs
    /\ UNCHANGED <<memory, reports, tracker, pool, admin, aged, admins, restarts,
                   unsaved, deleted>>

-----------------------------------------------------------------------------
(* execute_analysis_background, one action per stretch between two waits.   *)

\* prepare_stock_data_async accepts the stock, ...
Validated(t) ==
    /\ Goto(t, "accepted", "tracking")
    /\ UNCHANGED <<memory, docs, reports, tracker, pool, admin, aged, bounds, history>>

\* Mutant: the early return comes before the document is failed.
Invalid_MemoryOnly(t) ==
    /\ Goto(t, "accepted", "finished")
    /\ memory' = SetMemory(t, "failed")
    /\ UNCHANGED <<docs, reports, tracker, pool, admin, aged, bounds, history>>

\* ... or finds it invalid or raises: both fail the task in memory and go on
\* to fail its document.
Invalid(t) ==
    /\ Goto(t, "accepted", "fail_doc")
    /\ memory' = SetMemory(t, "failed")
    /\ UNCHANGED <<docs, reports, tracker, pool, admin, aged, bounds, history>>

CreateTracker(t) ==
    /\ Goto(t, "tracking", "begin")
    /\ tracker' = [tracker EXCEPT ![t] = "running"]
    /\ UNCHANGED <<memory, docs, reports, pool, admin, aged, bounds, history>>

RunningInMemory(t) ==
    /\ Goto(t, "begin", "begin_doc") \/ Goto(t, "prepare", "prepare_doc")
    /\ memory' = SetMemory(t, "running")
    /\ UNCHANGED <<docs, reports, tracker, pool, admin, aged, bounds, history>>

\* Mutant: the status word of the memory manager goes into the document.
ProcessingInMongo_Running(t) ==
    /\ \/ Goto(t, "begin_doc", "prepare") /\ UNCHANGED pool
       \/ /\ Goto(t, "prepare_doc", "awaiting")
          /\ waiting' = Append(waiting, t)
          /\ thread' = [thread EXCEPT ![t] = "queued"]
    /\ DocWrite(t, "running")
    /\ UNCHANGED <<memory, reports, tracker, admin, aged, admins, restarts,
                   unsaved, deleted>>

\* The second round hands the analysis to the pool as soon as Mongo has answered.
ProcessingInMongo(t) ==
    /\ \/ Goto(t, "begin_doc", "prepare") /\ UNCHANGED pool
       \/ /\ Goto(t, "prepare_doc", "awaiting")
          /\ waiting' = Append(waiting, t)
          /\ thread' = [thread EXCEPT ![t] = "queued"]
    /\ DocWrite(t, "processing")
    /\ UNCHANGED <<memory, reports, tracker, admin, aged, admins, restarts,
                   unsaved, deleted>>

\* Mutant: the results are kept in memory only.
AnalysisReturned_Unsaved(t) ==
    /\ thread[t] = "returned"
    /\ Goto(t, "awaiting", "complete")
    /\ tracker' = [tracker EXCEPT ![t] = "completed"]
    /\ UNCHANGED <<memory, docs, reports, pool, admin, aged, bounds, history>>

\* The analysis returned: the tracker is completed in a thread of its own.
AnalysisReturned(t) ==
    /\ thread[t] = "returned"
    /\ Goto(t, "awaiting", "save")
    /\ tracker' = [tracker EXCEPT ![t] = "completed"]
    /\ UNCHANGED <<memory, docs, reports, pool, admin, aged, bounds, history>>

\* Mutant: the coroutine stops waiting (wait_for) and leaves the thread running.
AnalysisRaised_TimesOut(t) ==
    /\ thread[t] \in {"working", "raised"}
    /\ Goto(t, "awaiting", "fail_doc")
    /\ tracker' = [tracker EXCEPT ![t] = "failed"]
    /\ memory' = SetMemory(t, "failed")
    /\ UNCHANGED <<docs, reports, pool, admin, aged, bounds, history>>

\* It raised: the except clause fails tracker and memory without waiting.
AnalysisRaised(t) ==
    /\ thread[t] = "raised"
    /\ Goto(t, "awaiting", "fail_doc")
    /\ tracker' = [tracker EXCEPT ![t] = "failed"]
    /\ memory' = SetMemory(t, "failed")
    /\ UNCHANGED <<docs, reports, pool, admin, aged, bounds, history>>

\* _save_analysis_results_complete: its errors do not stop the completion.
SaveResults(t) ==
    /\ Goto(t, "save", "complete")
    /\ \/ reports' = reports \cup {t} /\ UNCHANGED <<faults, unsaved>>
       \/ /\ faults < MaxFaults /\ faults' = faults + 1
          /\ unsaved' = unsaved \cup {t} /\ UNCHANGED reports
    /\ UNCHANGED <<memory, docs, tracker, pool, admin, aged, admins, restarts,
                   disturbed, deleted>>

CompletedInMemory(t) ==
    /\ Goto(t, "complete", "complete_doc")
    /\ memory' = IF memory[t] = NoTask THEN memory
                 ELSE [memory EXCEPT ![t] = [status |-> "completed", result |-> TRUE]]
    /\ UNCHANGED <<docs, reports, tracker, pool, admin, aged, bounds, history>>

CompletedInMongo(t) ==
    /\ Goto(t, "complete_doc", "finished")
    /\ DocWrite(t, "completed")
    /\ UNCHANGED <<memory, reports, tracker, pool, admin, aged, admins, restarts,
                   unsaved, deleted>>

FailedInMongo(t) ==
    /\ Goto(t, "fail_doc", "finished")
    /\ DocWrite(t, "failed")
    /\ UNCHANGED <<memory, reports, tracker, pool, admin, aged, admins, restarts,
                   unsaved, deleted>>

-----------------------------------------------------------------------------
(* The pool and _run_analysis_sync.                                         *)

\* Mutant: a thread that has ended keeps its place in the pool.
ThreadStarts_PlaceKept ==
    /\ waiting # <<>>
    /\ Cardinality({t \in Tasks : thread[t] \notin {"none", "queued"}}) < PoolSize
    /\ thread' = [thread EXCEPT ![Head(waiting)] = "working"]
    /\ waiting' = Tail(waiting)
    /\ UNCHANGED <<memory, docs, reports, tracker, pc, admin, aged, bounds, history>>

ThreadStarts ==
    /\ waiting # <<>>
    /\ Cardinality({t \in Tasks : thread[t] = "working"}) < PoolSize
    /\ thread' = [thread EXCEPT ![Head(waiting)] = "working"]
    /\ waiting' = Tail(waiting)
    /\ UNCHANGED <<memory, docs, reports, tracker, pc, admin, aged, bounds, history>>

\* update_progress_sync and graph_progress_callback: every report of progress
\* writes RUNNING into memory; the document gets the progress, not the status.
ReportsProgress(t) ==
    /\ thread[t] = "working"
    /\ memory' = SetMemory(t, "running")
    /\ UNCHANGED <<docs, reports, tracker, pc, pool, admin, aged, bounds, history>>

ThreadEnds(t) ==
    /\ thread[t] = "working"
    /\ \E outcome \in {"returned", "raised"} : thread' = [thread EXCEPT ![t] = outcome]
    /\ UNCHANGED <<memory, docs, reports, tracker, pc, waiting, admin, aged, bounds,
                   history>>

-----------------------------------------------------------------------------
(* The administrative routes, each a write to memory and then one to Mongo. *)

\* The caller has been given the task's id.
Known(t) == pc[t] \notin {"new", "created"} /\ admin[t] = "none" /\ t \notin deleted

InFlight(t) == pc[t] \notin {"finished", "lost"}

MarkFailed(t) ==
    /\ Known(t) /\ admins < MaxAdmin /\ admins' = admins + 1
    /\ memory' = SetMemory(t, "failed")
    /\ admin' = [admin EXCEPT ![t] = "mark"]
    /\ disturbed' = IF InFlight(t) THEN disturbed \cup {t} ELSE disturbed
    /\ UNCHANGED <<docs, reports, tracker, pc, pool, aged, faults, restarts, unsaved,
                   deleted>>

MarkFailedInMongo(t) ==
    /\ admin[t] = "mark" /\ admin' = [admin EXCEPT ![t] = "none"]
    /\ DocWrite(t, "failed")
    /\ UNCHANGED <<memory, reports, tracker, pc, pool, aged, admins, restarts,
                   unsaved, deleted>>

RemoveTask(t) ==
    /\ Known(t) /\ admins < MaxAdmin /\ admins' = admins + 1
    /\ memory' = [memory EXCEPT ![t] = NoTask]
    /\ admin' = [admin EXCEPT ![t] = "delete"]
    /\ UNCHANGED <<docs, reports, tracker, pc, pool, aged, faults, restarts, history>>

RemoveTaskFromMongo(t) ==
    /\ admin[t] = "delete" /\ admin' = [admin EXCEPT ![t] = "none"]
    /\ \/ /\ docs' = [docs EXCEPT ![t] = "absent"] /\ deleted' = deleted \cup {t}
          /\ UNCHANGED faults
       \/ /\ faults < MaxFaults /\ faults' = faults + 1
          /\ UNCHANGED <<docs, deleted>>
    /\ UNCHANGED <<memory, reports, tracker, pc, pool, aged, admins, restarts,
                   disturbed, unsaved>>

Age(t) ==
    /\ pc[t] # "new" /\ t \notin aged /\ aged' = aged \cup {t}
    /\ UNCHANGED <<memory, docs, reports, tracker, pc, pool, admin, bounds, history>>

Zombies == {t \in aged : memory[t].status \in {"running", "pending"}}

\* cleanup_zombie_tasks fails the zombies in memory.  Its Mongo filter puts
\* started_at inside the operators of created_at, which the server refuses,
\* and the error is turned into a result: no document changes.
CleanupZombies ==
    /\ aged # {} /\ admins < MaxAdmin /\ admins' = admins + 1
    /\ memory' = [t \in Tasks |->
          IF t \in Zombies THEN [memory[t] EXCEPT !.status = "failed"] ELSE memory[t]]
    /\ disturbed' = disturbed \cup Zombies
    /\ UNCHANGED <<docs, reports, tracker, pc, pool, admin, aged, faults, restarts,
                   unsaved, deleted>>

-----------------------------------------------------------------------------
(* The process dies and is started again: only Mongo survives.              *)

Restart ==
    /\ restarts < MaxRestarts /\ restarts' = restarts + 1
    /\ memory' = [t \in Tasks |-> NoTask]
    /\ tracker' = [t \in Tasks |-> "none"]
    /\ pc' = [t \in Tasks |-> IF pc[t] \in {"new", "finished"} THEN pc[t] ELSE "lost"]
    /\ thread' = [t \in Tasks |-> "none"] /\ waiting' = <<>>
    /\ admin' = [t \in Tasks |-> "none"]
    /\ UNCHANGED <<docs, reports, aged, faults, admins, history>>

-----------------------------------------------------------------------------
Coroutine(t) ==
    \/ RecordTask(t)
    \/ Validated(t) \/ Invalid(t) \/ CreateTracker(t)
    \/ RunningInMemory(t) \/ ProcessingInMongo(t)
    \/ AnalysisReturned(t) \/ AnalysisRaised(t)
    \/ SaveResults(t) \/ CompletedInMemory(t) \/ CompletedInMongo(t)
    \/ FailedInMongo(t)

Administration(t) ==
    \/ MarkFailed(t) \/ MarkFailedInMongo(t)
    \/ RemoveTask(t) \/ RemoveTaskFromMongo(t)

\* Everything done: the process idles.
Idle ==
    /\ \A t \in Tasks : pc[t] \in {"finished", "lost"} /\ admin[t] = "none"
    /\ UNCHANGED vars

Next ==
    \/ \E t \in Tasks : CreateTask(t) \/ Coroutine(t) \/ ReportsProgress(t)
                        \/ ThreadEnds(t) \/ Administration(t) \/ Age(t)
    \/ ThreadStarts \/ CleanupZombies \/ Restart
    \/ Idle

Spec == Init /\ [][Next]_vars

\* The event loop runs every ready coroutine, the pool starts what is queued,
\* and an analysis ends: its graph is bounded and its model calls return.
FairSpec ==
    /\ Spec
    /\ \A t \in Tasks : WF_vars(Coroutine(t)) /\ WF_vars(ThreadEnds(t))
    /\ WF_vars(ThreadStarts)

-----------------------------------------------------------------------------
(* What the routes answer.                                                  *)

\* GET .../status: memory, then analysis_tasks, then analysis_reports.
Shown(t) ==
    CASE memory[t] # NoTask -> memory[t].status
      [] memory[t] = NoTask /\ docs[t] # "absent" -> docs[t]
      [] memory[t] = NoTask /\ docs[t] = "absent" /\ t \in reports -> "completed"
      [] OTHER -> "unknown"

\* GET .../result: the memory of a completed task, then analysis_reports.
ResultFound(t) ==
    \/ memory[t].status = "completed" /\ memory[t].result
    \/ t \in reports

(* Whoever is told that a task is completed can fetch its result, whichever *)
(* of the three stores the answer came from, also after a restart: the      *)
(* report is stored before memory and document say so                       *)
(* (execute_analysis_background).  Excused: a report Mongo refused, once    *)
(* memory has lost the task too.                                            *)
ResultBehindCompleted ==
    \A t \in Tasks :
        Shown(t) = "completed" /\ (t \in unsaved => memory[t] # NoTask) => ResultFound(t)

(* When the background task is over and nobody is half way through a call,  *)
(* memory and Mongo say the same final status and the tracker has stopped,  *)
(* on every path through execute_analysis_background, unless a Mongo write  *)
(* of the task was lost or it was failed by hand while it ran.              *)
AgreeAtRest ==
    \A t \in Tasks :
        pc[t] = "finished" /\ admin[t] = "none" =>
            /\ tracker[t] # "running"
            /\ memory[t] # NoTask /\ t \notin disturbed =>
                  memory[t].status \in Terminal /\ docs[t] = memory[t].status

(* update_progress_sync writes RUNNING without looking at the status: no    *)
(* report of progress may come after the coroutine has settled the task.    *)
NoLateRevival ==
    [][\A t \in Tasks : pc[t] = "finished" /\ memory[t].status \in Terminal
                           => memory'[t].status \in Terminal \cup {"absent"}]_vars

(* A deleted task that is still being analysed does not come back to memory *)
(* or to analysis_tasks, though every later write names it (delete_task).   *)
StaysDeleted == \A t \in deleted : memory[t] = NoTask /\ docs[t] = "absent"

(* Every accepted task is settled: its coroutine ends, and memory then has  *)
(* a final status for it, even with all threads of the pool taken.          *)
EventuallySettled ==
    \A t \in Tasks :
        pc[t] = "accepted" ~>
            \/ pc[t] = "lost"
            \/ pc[t] = "finished" /\ memory[t].status \in Terminal \cup {"absent"}

(* The route says of the clean-up (routers/analysis.py:1149) that it marks  *)
(* tasks that have been processing, running or pending too long as failed.  *)
ZombiesAreFailed ==
    [][CleanupZombies =>
          \A t \in aged : docs'[t] \notin {"pending", "processing"}]_vars

=============================================================================
