----------------------------- MODULE Scheduler -----------------------------
(***************************************************************************)
(* One scheduled job of the web backend and the documents of its           *)
(* executions (app/services/scheduler_service.py, the job bodies of         *)
(* app/worker/tushare_sync_service.py).  APScheduler starts the job;        *)
(* listeners, administrators, the check for zombies and the job's own       *)
(* progress reports all look a document up and write it later.              *)
(*                                                                         *)
(* One step is what the event loop does between two awaits.  The progress   *)
(* reports use a synchronous client: they look up and write in one step.    *)
(* Documents are ordered by timestamp, which is set when they are inserted. *)
(***************************************************************************)
EXTENDS Naturals, Sequences, FiniteSets

CONSTANTS Kinds,       \* the ways the job's body may report its progress
          MaxItems,    \* items (batches, stocks, twenties of stocks) of a run
          MaxFired,    \* cron times and manual triggers
          MaxIncidents \* pauses, administrative calls on documents, restarts
                       \* and Mongo commands that raise, together

ASSUME SchedulerConstants ==
    /\ Kinds \subseteq {"perBatch", "perItem", "reporting"}
    /\ MaxItems \in Nat \ {0} /\ MaxFired \in Nat /\ MaxIncidents \in Nat

VARIABLES kind,      \* how this job's body reports and looks for a cancel mark
          installed, \* the service exists: listeners and zombie check are added
          timer,     \* the job in APScheduler: paused, waiting, due
          run,       \* the run in progress: number, place, items done
          records,   \* scheduler_executions of the job, oldest first
          tasks,     \* detached tasks of the listeners
          trigger,   \* a trigger request is about to insert its document
          admin,     \* an administrator has looked a document up
          zombies,   \* documents the zombie check found and has not failed yet
          logged,    \* runs whose listener alone wrote their outcome (history)
          used       \* how often each bounded event happened

schedulerVars == <<kind, installed, timer, run, records, tasks, trigger, admin,
                   zombies, logged, used>>

-----------------------------------------------------------------------------
(* State                                                                   *)

Ended == {"success", "failed"}

\* Ages of a document: under 5 minutes, under 30, older (lines 738 and 847).
Fresh == 0
Settling == 1
Stale == 2

\* `by` is the run whose outcome was written last (history, 0: none).
Execution(status, by) ==
    [status |-> status, age |-> Fresh, cancel |-> FALSE, by |-> by]

Executions == [status: {"running", "success", "failed", "missed", "deleted"},
               age: {Fresh, Settling, Stale}, cancel: BOOLEAN, by: Nat]

Idle == "idle"
Nobody == [op |-> "none", rec |-> 0]
\* `alone`: no other listener has been at work beside it (history).
ListenerTasks == [n: Nat, outcome: Ended \cup {"missed"}, rec: Nat,
                  stage: {"find", "update", "insert"}, alone: BOOLEAN]

Uses == {"fired", "incidents"}
Use(what, limit) == /\ used[what] < limit
                    /\ used' = [used EXCEPT ![what] = @ + 1]

\* find_one(..., sort=[("timestamp", -1)]): the latest with such a status.
Latest(S) ==
    LET found == {i \in DOMAIN records : records[i].status \in S}
    IN  IF found = {} THEN 0 ELSE CHOOSE i \in found : \A j \in found : j <= i

CancelMarked(i) == i # 0 /\ records[i].cancel

\* update_one by _id: matches nothing when the document was deleted.
SetStatus(i, status) ==
    IF records[i].status = "deleted" THEN records
    ELSE [records EXCEPT ![i].status = status]

SchedulerInit ==
    /\ kind \in Kinds
    /\ installed = FALSE
    /\ timer \in {"paused", "waiting"}
    /\ run = [n |-> 0, pc |-> Idle, items |-> 0]
    /\ records = <<>>
    /\ tasks = {}
    /\ trigger = Idle
    /\ admin = Nobody
    /\ zombies = {}
    /\ logged = {}
    /\ used = [u \in Uses |-> 0]

-----------------------------------------------------------------------------
(* APScheduler: a job is due at its cron time and runs once at a time      *)
(* (max_instances is 1); no listener hears of a skipped run.               *)

CronTime ==
    /\ timer = "waiting"
    /\ timer' = "due"
    /\ Use("fired", MaxFired)
    /\ UNCHANGED <<kind, installed, run, records, tasks, trigger, admin, zombies, logged>>

FirstPlace == IF kind = "reporting" THEN "work" ELSE "check"

StartRun ==
    /\ timer = "due" /\ run.pc = Idle
    /\ timer' = "waiting"
    /\ run' = [n |-> run.n + 1, pc |-> FirstPlace, items |-> 0]
    /\ UNCHANGED <<kind, installed, records, tasks, trigger, admin, zombies, logged, used>>

SkipRun ==
    /\ timer = "due" /\ run.pc # Idle
    /\ timer' = "waiting"
    /\ UNCHANGED <<kind, installed, run, records, tasks, trigger, admin, zombies, logged, used>>

\* An event reaches a listener only once the service has been created.
Notify(outcome) ==
    tasks' = IF ~installed THEN tasks
             ELSE {[t EXCEPT !.alone = FALSE] : t \in tasks} \cup
                  {[n |-> run'.n, outcome |-> outcome, rec |-> 0, alone |-> tasks = {},
                    stage |-> IF outcome = "missed" THEN "insert" ELSE "find"]}

\* Too late (misfire_grace_time), or get_tushare_sync_service() raises: nothing
\* else of a run raises.
StartFails(outcome) ==
    /\ timer = "due" /\ run.pc = Idle
    /\ timer' = "waiting"
    /\ run' = [run EXCEPT !.n = @ + 1]
    /\ Notify(outcome)
    /\ UNCHANGED <<kind, installed, records, trigger, admin, zombies, logged, used>>

-----------------------------------------------------------------------------
(* The body of the job                                                     *)

\* The statistics are returned, stopped or not: the listener hears of success.
EndRun ==
    /\ run' = [run EXCEPT !.pc = Idle, !.items = 0]
    /\ Notify("success")

NextItem ==
    IF run.items + 1 >= MaxItems
      THEN EndRun
      ELSE /\ run' = [run EXCEPT !.items = @ + 1, !.pc = FirstPlace]
           /\ UNCHANGED tasks

\* _should_stop: the latest running document carries a cancel mark.
ShouldStop ==
    /\ run.pc = "check"
    /\ IF CancelMarked(Latest({"running"}))
         THEN EndRun
         ELSE run' = [run EXCEPT !.pc = "work"] /\ UNCHANGED tasks
    /\ UNCHANGED <<kind, installed, timer, records, trigger, admin, zombies, logged, used>>

\* A batch that raises ends the run; a stock that raises is counted and the
\* loop goes on without a report.
WorkRaises ==
    /\ run.pc = "work"
    /\ IF kind = "perBatch" THEN EndRun ELSE NextItem
    /\ UNCHANGED <<kind, installed, timer, records, trigger, admin, zombies, logged, used>>

\* An item is done and _update_progress called: it writes only the percentage,
\* of a running document.  The cancellation it raises leaves the loop over
\* batches and is swallowed in the loop over stocks.
UpdateProgress ==
    /\ kind # "reporting" /\ run.pc = "work"
    /\ IF kind = "perBatch" /\ CancelMarked(Latest({"running"})) THEN EndRun ELSE NextItem
    /\ UNCHANGED <<kind, installed, timer, records, trigger, admin, zombies, logged, used>>

\* An item is done and update_job_progress called: it raises the cancellation
\* and swallows it; else it turns the latest document, ended or not, to running
\* or inserts the first one.
UpdateJobProgress ==
    /\ kind = "reporting" /\ run.pc = "work"
    /\ LET i == Latest({"running"} \cup Ended)
       IN  /\ NextItem
           /\ records' = IF CancelMarked(i) THEN records
                         ELSE IF i = 0 THEN Append(records, Execution("running", 0))
                         ELSE SetStatus(i, "running")
    /\ UNCHANGED <<kind, installed, timer, trigger, admin, zombies, logged, used>>

\* A failed look at the mark counts as no, a failed report is logged only.
BodyMongoRaises ==
    /\ \/ run.pc = "check" /\ run' = [run EXCEPT !.pc = "work"] /\ UNCHANGED tasks
       \/ run.pc = "work" /\ NextItem
    /\ Use("incidents", MaxIncidents)
    /\ UNCHANGED <<kind, installed, timer, records, trigger, admin, zombies, logged>>

-----------------------------------------------------------------------------
(* _record_job_execution, in the detached task of a listener               *)

\* Mutant: the document is looked for without the window of 5 minutes.
FreshRunning_AnyAge == Latest({"running"})

\* Mutant: a document that already says success is taken, too.
FreshRunning_OrSuccess ==
    LET i == Latest({"running", "success"})
    IN  IF i # 0 /\ records[i].age = Fresh THEN i ELSE 0

FreshRunning ==
    LET i == Latest({"running"})
    IN  IF i # 0 /\ records[i].age = Fresh THEN i ELSE 0

\* Mutant: an update is tried although nothing was found.
ListenerFind_AlwaysUpdate(t) ==
    /\ t.stage = "find"
    /\ tasks' = (tasks \ {t}) \cup {[t EXCEPT !.rec = FreshRunning, !.stage = "update"]}
    /\ UNCHANGED <<kind, installed, timer, run, records, trigger, admin, zombies, logged, used>>

ListenerFind(t) ==
    /\ t.stage = "find"
    /\ LET i == FreshRunning
       IN  tasks' = (tasks \ {t}) \cup
                    {[t EXCEPT !.rec = i, !.stage = IF i = 0 THEN "insert" ELSE "update"]}
    /\ UNCHANGED <<kind, installed, timer, run, records, trigger, admin, zombies, logged, used>>

ListenerUpdate(t) ==
    /\ t.stage = "update"
    /\ records' = IF records[t.rec].status = "deleted" THEN records
                  ELSE [records EXCEPT ![t.rec].status = t.outcome, ![t.rec].by = t.n]
    /\ tasks' = tasks \ {t}
    /\ logged' = IF t.alone /\ records[t.rec].status # "deleted" THEN logged \cup {t.n}
               ELSE logged
    /\ UNCHANGED <<kind, installed, timer, run, trigger, admin, zombies, used>>

ListenerInsert(t) ==
    /\ t.stage = "insert"
    /\ records' = Append(records, Execution(t.outcome, t.n))
    /\ tasks' = tasks \ {t}
    /\ logged' = IF t.alone THEN logged \cup {t.n} ELSE logged
    /\ UNCHANGED <<kind, installed, timer, run, trigger, admin, zombies, used>>

\* An error of Mongo is logged and the outcome dropped.
ListenerRaises(t) ==
    /\ Use("incidents", MaxIncidents)
    /\ tasks' = tasks \ {t}
    /\ UNCHANGED <<kind, installed, timer, run, records, trigger, admin, zombies, logged>>

-----------------------------------------------------------------------------
(* The routes.  The first call of any of them creates the service.         *)

OpenService ==
    /\ ~installed
    /\ installed' = TRUE
    /\ UNCHANGED <<kind, timer, run, records, tasks, trigger, admin, zombies, logged, used>>

PauseJob ==
    /\ installed /\ timer # "paused"
    /\ timer' = "paused"
    /\ Use("incidents", MaxIncidents)
    /\ UNCHANGED <<kind, installed, run, records, tasks, trigger, admin, zombies, logged>>

ResumeJob ==
    /\ installed /\ timer = "paused"
    /\ timer' = "waiting"
    /\ UNCHANGED <<kind, installed, run, records, tasks, trigger, admin, zombies, logged, used>>

\* The job is due at once, paused or not, and stays resumed.
TriggerJob ==
    /\ installed /\ trigger = Idle
    /\ timer' = "due"
    /\ trigger' = "record"
    /\ Use("fired", MaxFired)
    /\ UNCHANGED <<kind, installed, run, records, tasks, admin, zombies, logged>>

TriggerRecord ==
    /\ trigger = "record"
    /\ trigger' = Idle
    /\ records' = Append(records, Execution("running", 0))
    /\ UNCHANGED <<kind, installed, timer, run, tasks, admin, zombies, logged, used>>

TriggerRaises ==
    /\ trigger = "record"
    /\ trigger' = Idle
    /\ Use("incidents", MaxIncidents)
    /\ UNCHANGED <<kind, installed, timer, run, records, tasks, admin, zombies, logged>>

\* cancel_job_execution, mark_execution_as_failed and delete_execution look
\* the document up ...
Allowed(op, status) ==
    CASE op = "cancel" -> status = "running"
      [] op = "mark"   -> status # "deleted"
      [] op = "delete" -> status \notin {"running", "deleted"}

AdminFind(op, i) ==
    /\ installed /\ admin = Nobody
    /\ Allowed(op, records[i].status)
    /\ admin' = [op |-> op, rec |-> i]
    /\ Use("incidents", MaxIncidents)
    /\ UNCHANGED <<kind, installed, timer, run, records, tasks, trigger, zombies, logged>>

\* ... and write it whatever has become of it.
AdminWrite ==
    /\ admin # Nobody
    /\ records' = CASE admin.op = "cancel" -> [records EXCEPT ![admin.rec].cancel = TRUE]
                    [] admin.op = "mark"   -> SetStatus(admin.rec, "failed")
                    [] admin.op = "delete" -> SetStatus(admin.rec, "deleted")
    /\ admin' = Nobody
    /\ UNCHANGED <<kind, installed, timer, run, tasks, trigger, zombies, logged, used>>

-----------------------------------------------------------------------------
(* _check_zombie_tasks, every five minutes                                 *)

\* Mutant: the comparison with the threshold is the wrong way round.
ZombieFind_Younger ==
    /\ installed /\ zombies = {}
    /\ zombies' = {i \in DOMAIN records : /\ records[i].status = "running"
                                          /\ records[i].age # Stale}
    /\ zombies' # {}
    /\ UNCHANGED <<kind, installed, timer, run, records, tasks, trigger, admin, logged, used>>

ZombieFind ==
    /\ installed /\ zombies = {}
    /\ zombies' = {i \in DOMAIN records : /\ records[i].status = "running"
                                          /\ records[i].age = Stale}
    /\ zombies' # {}
    /\ UNCHANGED <<kind, installed, timer, run, records, tasks, trigger, admin, logged, used>>

ZombieWrite ==
    \E i \in zombies :
        /\ records' = SetStatus(i, "failed")
        /\ zombies' = zombies \ {i}
        /\ UNCHANGED <<kind, installed, timer, run, tasks, trigger, admin, logged, used>>

-----------------------------------------------------------------------------
(* Time and restarts                                                       *)

\* Only running documents have an age somebody asks for, and ended ones when
\* a report may turn them back.
Watched(i) == records[i].status \in
                  {"running"} \cup IF kind = "reporting" THEN Ended ELSE {}

\* Older documents age first.  A command of Mongo returns or times out after
\* a minute (MONGO_SOCKET_TIMEOUT_MS), so a document a listener found within
\* its first 5 minutes is not 30 minutes old when the listener writes it.
Age(i) ==
    /\ Watched(i) /\ records[i].age < Stale
    /\ \A j \in 1 .. i - 1 : Watched(j) => records[j].age > records[i].age
    /\ records[i].age = Settling => \A t \in tasks : t.rec # i
    /\ records' = [records EXCEPT ![i].age = @ + 1]
    /\ UNCHANGED <<kind, installed, timer, run, tasks, trigger, admin, zombies, logged, used>>

\* Jobs, runs and detached tasks are in memory, documents in Mongo.
Restart ==
    /\ installed' = FALSE
    /\ timer' \in {"paused", "waiting"}
    /\ run' = [run EXCEPT !.pc = Idle, !.items = 0]
    /\ tasks' = {}
    /\ trigger' = Idle
    /\ admin' = Nobody
    /\ zombies' = {}
    /\ Use("incidents", MaxIncidents)
    /\ UNCHANGED <<kind, records, logged>>

ListenerStep(t) == ListenerFind(t) \/ ListenerUpdate(t) \/ ListenerInsert(t)

SchedulerNext ==
    \/ CronTime \/ StartRun \/ SkipRun
    \/ \E outcome \in {"missed", "failed"} : StartFails(outcome)
    \/ ShouldStop \/ WorkRaises \/ UpdateProgress \/ UpdateJobProgress
    \/ BodyMongoRaises
    \/ \E t \in tasks : \/ ListenerFind(t) \/ ListenerUpdate(t)
                        \/ ListenerInsert(t) \/ ListenerRaises(t)
    \/ OpenService \/ PauseJob \/ ResumeJob
    \/ TriggerJob \/ TriggerRecord \/ TriggerRaises
    \/ \E op \in {"cancel", "mark", "delete"}, i \in DOMAIN records : AdminFind(op, i)
    \/ AdminWrite
    \/ ZombieFind \/ ZombieWrite
    \/ \E i \in DOMAIN records : Age(i)
    \/ Restart

\* Detached tasks, the zombie check and time go on; users need not act.
SchedulerFairness ==
    /\ WF_schedulerVars(\E t \in tasks : ListenerStep(t))
    /\ WF_schedulerVars(ZombieFind) /\ WF_schedulerVars(ZombieWrite)
    /\ WF_schedulerVars(\E i \in DOMAIN records : Age(i))

SchedulerSpec ==
    SchedulerInit /\ [][SchedulerNext]_schedulerVars /\ SchedulerFairness

-----------------------------------------------------------------------------
(* Properties                                                              *)

\* Types of all variables.
SchedulerTypeOK ==
    /\ kind \in Kinds
    /\ installed \in BOOLEAN
    /\ timer \in {"paused", "waiting", "due"}
    /\ run \in [n: Nat, pc: {Idle, "check", "work"}, items: Nat]
    /\ records \in Seq(Executions)
    /\ tasks \subseteq ListenerTasks
    /\ \A t \in tasks : t.rec \in 0 .. Len(records) /\ (t.stage = "update" => t.rec # 0)
    /\ trigger \in {Idle, "record"}
    /\ admin \in [op: {"none", "cancel", "mark", "delete"}, rec: 0 .. Len(records)]
    /\ admin.op = "none" <=> admin.rec = 0
    /\ zombies \subseteq DOMAIN records
    /\ logged \subseteq Nat
    /\ used \in [Uses -> Nat]

\* A document that says success goes on saying so until it is deleted.  The
\* check for zombies writes without looking again, but only documents that no
\* listener can have ended: those are found within their first 5 minutes.
\* What does overwrite a success: an administrator's mark, a second listener
\* that had found the document before, and a reporting job's next progress.
OutcomeKept ==
    [][\A i \in DOMAIN records :
         /\ records[i].status = "success"
         /\ records'[i].status \notin {"success", "deleted"}
         => \/ admin = [op |-> "mark", rec |-> i]
            \/ \E t \in tasks : t.rec = i
            \/ kind = "reporting" /\ run.pc = "work"]_schedulerVars

\* The outcome of a run whose listener worked alone, and whose document was not
\* deleted before it wrote, is never lost under that of another run - unless
\* the job reports by turning old documents back.
OutcomesShown ==
    kind # "reporting" => \A n \in logged : \E i \in DOMAIN records : records[i].by = n

\* No document stays running once the service exists, also after a restart: the
\* run's listener ends it or the check for zombies does.  (Runs start only
\* MaxFired times, so a moment without running documents comes.)
SomeRunning == installed /\ \E i \in DOMAIN records : records[i].status = "running"

RunningRecordsEnd == SomeRunning ~> ~SomeRunning

=============================================================================
