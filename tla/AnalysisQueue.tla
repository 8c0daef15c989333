--------------------------- MODULE AnalysisQueue ---------------------------
(***************************************************************************)
(* The Redis task queue of app/services/queue_service.py, the worker       *)
(* process of app/worker/analysis_worker.py and the HTTP handlers that     *)
(* enqueue and cancel.  Every await on Redis is one atomic command and     *)
(* everything between two awaits is local, so a step below is one command  *)
(* of one process, and the processes interleave between commands.          *)
(*                                                                         *)
(* `ready` is written in service order: RPOP takes its head and LPUSH      *)
(* appends.  Time is kept only as far as the visibility record tells:      *)
(* whether int(now) has passed timeout_at, and whether the key is still    *)
(* there.                                                                  *)
(***************************************************************************)
EXTENDS Naturals, Sequences, FiniteSets

CONSTANTS
    Tasks,        \* task ids the clients submit
    Owner,        \* Owner[t]: the user of task t
    Clients,      \* calls of enqueue_task (one task) or create_batch
    Wanted,       \* Wanted[c]: the tasks call c submits
    Batches,      \* the calls that are create_batch
    Workers,      \* worker processes; a restarted one has a fresh worker_id
    Sweepers,     \* the workers whose cleanup loop runs within the bounds
    Cancellers,   \* calls of cancel_task
    UserLimit,    \* user_concurrent_limit
    GlobalLimit,  \* global_concurrent_limit
    Nobody,       \* no task in hand (Python's None)
    TaskFields,   \* the fields _process_task gives to AnalysisTask
    MaxFaults,    \* bound: crashes and commands that raise in one behaviour
    MaxReady      \* bound: length of the ready list a requeue may reach

ASSUME ConstantsOK ==
    /\ IsFiniteSet(Workers) /\ IsFiniteSet(Tasks)
    /\ Sweepers \subseteq Workers /\ Nobody \notin Tasks
    /\ Wanted \in [Clients -> SUBSET Tasks] /\ Batches \subseteq Clients
    /\ \A c, d \in Clients : c # d => Wanted[c] \cap Wanted[d] = {}
    /\ UserLimit \in Nat \ {0} /\ GlobalLimit \in Nat \ {0}
    /\ MaxFaults \in Nat /\ MaxReady \in Nat

VARIABLES
    status,       \* qa:task:<id>.status, "none" before the HSET
    requeued,     \* tasks the cleanup loop has pushed (history)
    cancelledAt,  \* tasks whose hash has the field cancelled_at
    ready,        \* qa:ready
    processing,   \* qa:processing
    userMarked,   \* union of the sets qa:user_processing:<user>
    completed,    \* qa:completed
    failed,       \* qa:failed
    members,      \* members[c]: qa:batch_tasks:<batch of c>
    key,          \* qa:visibility:<id>: see KeyState
    due,          \* tasks whose key is there and past its timeout_at
    cpc, ctask,   \* clients: control state and the task in hand
    wpc, wtask, wok,   \* workers: control state, task in hand, `success`
    spc, stask, expired, \* sweepers: control state, task in hand, expired_tasks
    kpc, ktask, \* cancellers: control state, task, the status read
    crashed,      \* workers whose process died
    abandoned,    \* tasks a crash or an error dropped half way (history)
    faults        \* crashes and errors so far

taskHash   == <<status, requeued, cancelledAt>>
slots      == <<processing, userMarked>>
ends       == <<completed, failed>>
keys       == <<key, due>>
redis      == <<taskHash, ready, slots, ends, keys>>
clientVars == <<cpc, ctask, members>>
workerVars == <<wpc, wtask, wok>>
sweepVars  == <<spc, stask, expired>>
cancelVars == <<kpc, ktask>>
faultVars  == <<crashed, abandoned, faults>>

notClient    == <<workerVars, sweepVars, cancelVars, faultVars>>
notWorker    == <<clientVars, sweepVars, cancelVars, faultVars>>
notSweeper   == <<clientVars, workerVars, cancelVars, faultVars>>
notCanceller == <<clientVars, workerVars, sweepVars, faultVars>>
vars == <<redis, clientVars, workerVars, sweepVars, cancelVars, faultVars>>

Status == {"none", "queued", "processing", "completed", "failed", "cancelled"}

\* "bare": written by HSET, no EXPIRE yet.  "armed": EXPIRE ran in the second
\* timeout_at was computed in, so Redis drops the key before int(now) can
\* exceed timeout_at.  "late": EXPIRE ran in a later second.
KeyState == {"absent", "bare", "armed", "late"}

UserProcessing(u) == {t \in userMarked : Owner[t] = u}
InReady(t) == \E i \in 1..Len(ready) : ready[i] = t

Init ==
    /\ status = [t \in Tasks |-> "none"]
    /\ requeued = {} /\ cancelledAt = {}
    /\ ready = <<>>
    /\ processing = {} /\ userMarked = {} /\ completed = {} /\ failed = {}
    /\ members = [c \in Clients |-> {}]
    /\ key = [t \in Tasks |-> "absent"] /\ due = {}
    /\ cpc = [c \in Clients |-> "next"] /\ ctask = [c \in Clients |-> Nobody]
    /\ wpc = [w \in Workers |-> "idle"] /\ wtask = [w \in Workers |-> Nobody]
    /\ wok = [w \in Workers |-> FALSE]
    /\ spc = [s \in Sweepers |-> "collecting"]
    /\ stask = [s \in Sweepers |-> Nobody] /\ expired = [s \in Sweepers |-> {}]
    /\ kpc = [k \in Cancellers |-> "start"]
    /\ ktask = [k \in Cancellers |-> Nobody]
    /\ crashed = {} /\ abandoned = {} /\ faults = 0

\* A crash or a Redis command that raises.
Fault == faults < MaxFaults /\ faults' = faults + 1

-----------------------------------------------------------------------------
(* Clients: create_batch calls enqueue_task symbol by symbol.              *)

\* scard of the user's set; at the limit enqueue_task raises, and with it
\* the whole create_batch.
CheckUserQuota(c) ==
    /\ cpc[c] = "next"
    /\ \E t \in Wanted[c] :
          /\ status[t] = "none"
          /\ ctask' = [ctask EXCEPT ![c] = t]
          /\ cpc' = [cpc EXCEPT ![c] =
                IF Cardinality(UserProcessing(Owner[t])) < UserLimit
                THEN "userOk" ELSE "rejected"]
    /\ UNCHANGED <<redis, members, notClient>>

CheckGlobalQuota(c) ==
    /\ cpc[c] = "userOk"
    /\ cpc' = [cpc EXCEPT ![c] =
          IF Cardinality(processing) < GlobalLimit THEN "allOk" ELSE "rejected"]
    /\ UNCHANGED <<redis, ctask, members, notClient>>

SaveTask(c) ==
    /\ cpc[c] = "allOk"
    /\ status' = [status EXCEPT ![ctask[c]] = "queued"]
    /\ cpc' = [cpc EXCEPT ![c] = "saved"]
    /\ UNCHANGED <<slots, ends, keys, requeued, cancelledAt, ready, ctask, members, notClient>>

\* Mutant: an LPUSH that timed out after Redis ran it is sent again.
PushTask_Twice(c) ==
    /\ cpc[c] = "saved"
    /\ ready' = Append(Append(ready, ctask[c]), ctask[c])
    /\ cpc' = [cpc EXCEPT ![c] = IF c \in Batches THEN "pushed" ELSE "next"]
    /\ UNCHANGED <<taskHash, slots, ends, keys, ctask, members, notClient>>

PushTask(c) ==
    /\ cpc[c] = "saved"
    /\ ready' = Append(ready, ctask[c])
    /\ cpc' = [cpc EXCEPT ![c] = IF c \in Batches THEN "pushed" ELSE "next"]
    /\ UNCHANGED <<taskHash, slots, ends, keys, ctask, members, notClient>>

JoinBatch(c) ==
    /\ cpc[c] = "pushed"
    /\ members' = [members EXCEPT ![c] = @ \cup {ctask[c]}]
    /\ cpc' = [cpc EXCEPT ![c] = "next"]
    /\ UNCHANGED <<redis, ctask, notClient>>

\* A Redis command of the handler raises: the request is refused, and a task
\* whose hash is saved is never pushed.
ClientError(c) ==
    /\ cpc[c] \in {"userOk", "allOk", "saved", "pushed"}
    /\ Fault
    /\ abandoned' = IF cpc[c] = "saved" THEN abandoned \cup {ctask[c]} ELSE abandoned
    /\ cpc' = [cpc EXCEPT ![c] = "rejected"]
    /\ UNCHANGED <<redis, ctask, members, workerVars, sweepVars, cancelVars, crashed>>

Client(c) == \/ CheckUserQuota(c) \/ CheckGlobalQuota(c) \/ SaveTask(c)
             \/ PushTask(c) \/ JoinBatch(c)

-----------------------------------------------------------------------------
(* Workers: dequeue_task, the analysis, ack_task.                          *)

Goto(w, l) == wpc' = [wpc EXCEPT ![w] = l]

\* RPOP.  An empty list makes dequeue_task return None: no step.
Pop(w) ==
    /\ wpc[w] = "idle" /\ ready # <<>>
    /\ wtask' = [wtask EXCEPT ![w] = Head(ready)]
    /\ ready' = Tail(ready)
    /\ Goto(w, "popped")
    /\ UNCHANGED <<taskHash, slots, ends, keys, wok, notWorker>>

\* Mutant: no second check of the user's limit.
RecheckUserQuota_Dropped(w) ==
    /\ wpc[w] = "popped"
    /\ Goto(w, "admitted")
    /\ UNCHANGED <<redis, wtask, wok, notWorker>>

\* The task hash is written before the push and never deleted, and only its
\* immutable `user` is used: reading it needs no step of its own.
RecheckUserQuota(w) ==
    /\ wpc[w] = "popped"
    /\ Goto(w, IF Cardinality(UserProcessing(Owner[wtask[w]])) < UserLimit
               THEN "admitted" ELSE "refused")
    /\ UNCHANGED <<redis, wtask, wok, notWorker>>

\* Mutant: the refused task is not put back.
PushBack_Dropped(w) ==
    /\ wpc[w] = "refused"
    /\ Goto(w, "idle")
    /\ wtask' = [wtask EXCEPT ![w] = Nobody]
    /\ UNCHANGED <<redis, wok, notWorker>>

PushBack(w) ==
    /\ wpc[w] = "refused"
    /\ ready' = Append(ready, wtask[w])
    /\ Goto(w, "idle")
    /\ wtask' = [wtask EXCEPT ![w] = Nobody]
    /\ UNCHANGED <<taskHash, slots, ends, keys, wok, notWorker>>

MarkUser(w) ==
    /\ wpc[w] = "admitted"
    /\ userMarked' = userMarked \cup {wtask[w]}
    /\ Goto(w, "userMarked")
    /\ UNCHANGED <<taskHash, ends, keys, ready, processing, wtask, wok, notWorker>>

\* Mutant: only the user's set is marked.
MarkGlobal_Dropped(w) ==
    /\ wpc[w] = "userMarked"
    /\ Goto(w, "marked")
    /\ UNCHANGED <<redis, wtask, wok, notWorker>>

MarkGlobal(w) ==
    /\ wpc[w] = "userMarked"
    /\ processing' = processing \cup {wtask[w]}
    /\ Goto(w, "marked")
    /\ UNCHANGED <<taskHash, ends, keys, ready, userMarked, wtask, wok, notWorker>>

\* HSET of the visibility hash.  HSET on a key that is still there keeps its
\* TTL, which then runs out before the new timeout_at.
WriteVisibility(w) ==
    /\ wpc[w] = "marked"
    /\ key' = [key EXCEPT ![wtask[w]] =
                  IF @ \in {"absent", "bare"} THEN "bare" ELSE "armed"]
    /\ due' = due \ {wtask[w]}
    /\ Goto(w, "timed")
    /\ UNCHANGED <<taskHash, slots, ends, ready, wtask, wok, notWorker>>

\* EXPIRE, in the second of the HSET or in a later one; a no-op on a key that
\* a concurrent cancel, sweep or ack has deleted.
ArmVisibility(w) ==
    /\ wpc[w] = "timed"
    /\ \E k \in {"armed", "late"} :
          /\ k = "armed" => wtask[w] \notin due
          /\ key' = [key EXCEPT ![wtask[w]] = IF @ = "absent" THEN @ ELSE k]
    /\ Goto(w, "armed")
    /\ UNCHANGED <<taskHash, slots, ends, ready, due, wtask, wok, notWorker>>

\* Mutant: the status word of the in-memory task states.
StartTask_Running(w) ==
    /\ wpc[w] = "armed"
    /\ status' = [status EXCEPT ![wtask[w]] = "running"]
    /\ Goto(w, "running")
    /\ UNCHANGED <<slots, ends, keys, requeued, cancelledAt, ready, wtask, wok, notWorker>>

StartTask(w) ==
    /\ wpc[w] = "armed"
    /\ status' = [status EXCEPT ![wtask[w]] = "processing"]
    /\ Goto(w, "running")
    /\ UNCHANGED <<slots, ends, keys, requeued, cancelledAt, ready, wtask, wok, notWorker>>

\* AnalysisTask validates only when every field it declares with Field(...)
\* is given; otherwise _process_task fails before any analysis.
RequiredFields == {"task_id", "user_id", "symbol"}
Outcomes == IF RequiredFields \subseteq TaskFields THEN BOOLEAN ELSE {FALSE}

Analyse(w) ==
    /\ wpc[w] = "running"
    /\ \E ok \in Outcomes : wok' = [wok EXCEPT ![w] = ok]
    /\ Goto(w, "ack")
    /\ UNCHANGED <<redis, wtask, notWorker>>

AckUnmarkUser(w) ==
    /\ wpc[w] = "ack"
    /\ userMarked' = userMarked \ {wtask[w]}
    /\ Goto(w, "ackGlobal")
    /\ UNCHANGED <<taskHash, ends, keys, ready, processing, wtask, wok, notWorker>>

AckUnmarkGlobal(w) ==
    /\ wpc[w] = "ackGlobal"
    /\ processing' = processing \ {wtask[w]}
    /\ Goto(w, "ackKey")
    /\ UNCHANGED <<taskHash, ends, keys, ready, userMarked, wtask, wok, notWorker>>

\* Mutant: the acknowledgement leaves the visibility key.
AckClearVisibility_Dropped(w) ==
    /\ wpc[w] = "ackKey"
    /\ Goto(w, "ackStatus")
    /\ UNCHANGED <<redis, wtask, wok, notWorker>>

AckClearVisibility(w) ==
    /\ wpc[w] = "ackKey"
    /\ key' = [key EXCEPT ![wtask[w]] = "absent"]
    /\ due' = due \ {wtask[w]}
    /\ Goto(w, "ackStatus")
    /\ UNCHANGED <<taskHash, slots, ends, ready, wtask, wok, notWorker>>

AckStatus(w) ==
    /\ wpc[w] = "ackStatus"
    /\ status' = [status EXCEPT ![wtask[w]] =
                     IF wok[w] THEN "completed" ELSE "failed"]
    /\ Goto(w, "ackSet")
    /\ UNCHANGED <<slots, ends, keys, requeued, cancelledAt, ready, wtask, wok, notWorker>>

\* Mutant: failed tasks are not recorded.
AckSet_OnlySuccess(w) ==
    /\ wpc[w] = "ackSet"
    /\ completed' = IF wok[w] THEN completed \cup {wtask[w]} ELSE completed
    /\ Goto(w, "idle")
    /\ wtask' = [wtask EXCEPT ![w] = Nobody]
    /\ UNCHANGED <<taskHash, slots, keys, failed, ready, wok, notWorker>>

AckSet(w) ==
    /\ wpc[w] = "ackSet"
    /\ completed' = IF wok[w] THEN completed \cup {wtask[w]} ELSE completed
    /\ failed' = IF wok[w] THEN failed ELSE failed \cup {wtask[w]}
    /\ Goto(w, "idle")
    /\ wtask' = [wtask EXCEPT ![w] = Nobody]
    /\ UNCHANGED <<taskHash, slots, keys, ready, wok, notWorker>>

Dequeuing == {"popped", "refused", "admitted", "userMarked", "marked", "timed", "armed"}
Acking    == {"ack", "ackGlobal", "ackKey", "ackStatus", "ackSet"}

\* An exception inside dequeue_task or ack_task is swallowed: the worker goes
\* on with its loop and the commands already issued stay issued.
RedisError(w) ==
    /\ wpc[w] \in Dequeuing \cup Acking
    /\ Fault
    /\ abandoned' = abandoned \cup {wtask[w]}
    /\ Goto(w, "idle")
    /\ wtask' = [wtask EXCEPT ![w] = Nobody]
    /\ UNCHANGED <<redis, clientVars, sweepVars, cancelVars, crashed, wok>>

\* The process dies: its worker loop and its cleanup loop stop where they are.
\* A signal ends it like a death between two tasks: the worker loop is left after
\* the task in hand, and the cleanup loop is then cancelled where it is.
Crash(w) ==
    /\ Fault
    /\ crashed' = crashed \cup {w}
    /\ abandoned' = abandoned
          \cup (IF wpc[w] = "idle" THEN {} ELSE {wtask[w]})
          \cup (IF w \in Sweepers /\ stask[w] # Nobody THEN {stask[w]} ELSE {})
    /\ UNCHANGED <<redis, clientVars, workerVars, sweepVars, cancelVars>>

WorkerStep(w) ==
    /\ w \notin crashed
    /\ \/ Pop(w) \/ RecheckUserQuota(w) \/ PushBack(w)
       \/ MarkUser(w) \/ MarkGlobal(w) \/ WriteVisibility(w)
       \/ ArmVisibility(w) \/ StartTask(w) \/ Analyse(w)
       \/ AckUnmarkUser(w) \/ AckUnmarkGlobal(w) \/ AckClearVisibility(w)
       \/ AckStatus(w) \/ AckSet(w)

-----------------------------------------------------------------------------
(* Cleanup loop: cleanup_expired_tasks and _handle_expired_task.           *)

SGoto(s, l) == spc' = [spc EXCEPT ![s] = l]

\* One HGETALL of the scan: the task joins expired_tasks when its key is still
\* there and current_time > timeout_at.
CollectExpired(s, t) ==
    /\ spc[s] = "collecting"
    /\ key[t] # "absent" /\ t \in due /\ t \notin expired[s]
    /\ expired' = [expired EXCEPT ![s] = @ \cup {t}]
    /\ UNCHANGED <<redis, spc, stask, notSweeper>>

HandleExpired(s) ==
    /\ spc[s] \in {"collecting", "handling"} /\ Len(ready) < MaxReady
    /\ \E t \in expired[s] :
          /\ stask' = [stask EXCEPT ![s] = t]
          /\ expired' = [expired EXCEPT ![s] = @ \ {t}]
    /\ SGoto(s, "sweepUser")
    /\ UNCHANGED <<redis, notSweeper>>

SweepUnmarkUser(s) ==
    /\ spc[s] = "sweepUser"
    /\ userMarked' = userMarked \ {stask[s]}
    /\ SGoto(s, "sweepGlobal")
    /\ UNCHANGED <<taskHash, ends, keys, ready, processing, stask, expired, notSweeper>>

SweepUnmarkGlobal(s) ==
    /\ spc[s] = "sweepGlobal"
    /\ processing' = processing \ {stask[s]}
    /\ SGoto(s, "sweepKey")
    /\ UNCHANGED <<taskHash, ends, keys, ready, userMarked, stask, expired, notSweeper>>

SweepClearVisibility(s) ==
    /\ spc[s] = "sweepKey"
    /\ key' = [key EXCEPT ![stask[s]] = "absent"]
    /\ due' = due \ {stask[s]}
    /\ SGoto(s, "sweepPush")
    /\ UNCHANGED <<taskHash, slots, ends, ready, stask, expired, notSweeper>>

SweepPush(s) ==
    /\ spc[s] = "sweepPush"
    /\ ready' = Append(ready, stask[s])
    /\ requeued' = requeued \cup {stask[s]}
    /\ SGoto(s, "sweepStatus")
    /\ UNCHANGED <<status, cancelledAt, slots, ends, keys, stask, expired, notSweeper>>

\* Back to scanning once the list is done.
LeaveTask(s) ==
    /\ stask' = [stask EXCEPT ![s] = Nobody]
    /\ SGoto(s, IF expired[s] = {} THEN "collecting" ELSE "handling")

SweepStatus(s) ==
    /\ spc[s] = "sweepStatus"
    /\ status' = [status EXCEPT ![stask[s]] = "queued"]
    /\ LeaveTask(s)
    /\ UNCHANGED <<slots, ends, keys, requeued, cancelledAt, ready, expired, notSweeper>>

\* A command of the scan raises and what it has collected is forgotten; or one of
\* _handle_expired_task does: the task is given up where it is, between the marks
\* taken from it and the list, or without its new status, and the next one follows.
SweepError(s) ==
    /\ s \notin crashed
    /\ Fault
    /\ \/ /\ spc[s] = "collecting" /\ expired[s] # {}
          /\ expired' = [expired EXCEPT ![s] = {}]
          /\ UNCHANGED <<spc, stask, abandoned>>
       \/ /\ spc[s] \notin {"collecting", "handling"}
          /\ abandoned' = IF spc[s] = "sweepStatus" THEN abandoned
                          ELSE abandoned \cup {stask[s]}
          /\ LeaveTask(s)
          /\ UNCHANGED expired
    /\ UNCHANGED <<redis, clientVars, workerVars, cancelVars, crashed>>

SweepStep(s) ==
    /\ s \notin crashed
    /\ \/ \E t \in Tasks : CollectExpired(s, t)
       \/ HandleExpired(s) \/ SweepUnmarkUser(s) \/ SweepUnmarkGlobal(s)
       \/ SweepClearVisibility(s) \/ SweepPush(s) \/ SweepStatus(s)

-----------------------------------------------------------------------------
(* cancel_task, called by POST /tasks/{task_id}/cancel.                    *)

KGoto(k, l) == kpc' = [kpc EXCEPT ![k] = l]

CancelRead(k) ==
    /\ kpc[k] = "start"
    /\ \E t \in Tasks :
          /\ status[t] # "none"
          /\ ktask' = [ktask EXCEPT ![k] = t]
          /\ KGoto(k, IF status[t] = "processing" THEN "unmarkUser"
                      ELSE IF status[t] = "queued" THEN "remove" ELSE "write")
    /\ UNCHANGED <<redis, notCanceller>>

CancelUnmarkUser(k) ==
    /\ kpc[k] = "unmarkUser"
    /\ userMarked' = userMarked \ {ktask[k]}
    /\ KGoto(k, "unmarkGlobal")
    /\ UNCHANGED <<taskHash, ends, keys, ready, processing, ktask, notCanceller>>

CancelUnmarkGlobal(k) ==
    /\ kpc[k] = "unmarkGlobal"
    /\ processing' = processing \ {ktask[k]}
    /\ KGoto(k, "clearKey")
    /\ UNCHANGED <<taskHash, ends, keys, ready, userMarked, ktask, notCanceller>>

CancelClearVisibility(k) ==
    /\ kpc[k] = "clearKey"
    /\ key' = [key EXCEPT ![ktask[k]] = "absent"]
    /\ due' = due \ {ktask[k]}
    /\ KGoto(k, "write")
    /\ UNCHANGED <<taskHash, slots, ends, ready, ktask, notCanceller>>

\* LREM with count 0 removes every occurrence: the list becomes the entries
\* other than the task, picked in order by f.
CancelRemove(k) ==
    /\ kpc[k] = "remove"
    /\ \E n \in 0..Len(ready) : \E f \in [1..n -> 1..Len(ready)] :
          /\ \A i, j \in 1..n : i < j => f[i] < f[j]
          /\ \A i \in 1..Len(ready) :
                ready[i] # ktask[k] <=> \E j \in 1..n : f[j] = i
          /\ ready' = [j \in 1..n |-> ready[f[j]]]
    /\ KGoto(k, "write")
    /\ UNCHANGED <<taskHash, slots, ends, keys, ktask, notCanceller>>

CancelWrite(k) ==
    /\ kpc[k] = "write"
    /\ status' = [status EXCEPT ![ktask[k]] = "cancelled"]
    /\ cancelledAt' = cancelledAt \cup {ktask[k]}
    /\ KGoto(k, "done")
    /\ UNCHANGED <<slots, ends, keys, requeued, ready, ktask, notCanceller>>

\* A Redis command raises: cancel_task returns False and what it took stays taken.
CancelError(k) ==
    /\ kpc[k] \notin {"start", "done"}
    /\ Fault
    /\ abandoned' = abandoned \cup {ktask[k]}
    /\ KGoto(k, "done")
    /\ UNCHANGED <<redis, clientVars, workerVars, sweepVars, ktask, crashed>>

CancelStep(k) ==
    \/ CancelRead(k) \/ CancelUnmarkUser(k) \/ CancelUnmarkGlobal(k)
    \/ CancelClearVisibility(k) \/ CancelRemove(k) \/ CancelWrite(k)

-----------------------------------------------------------------------------
(* Redis and the clock.                                                    *)

\* int(now) exceeds timeout_at while the key is there: never for "armed".
TimeoutPasses(t) ==
    /\ key[t] \in {"bare", "late"} /\ t \notin due
    /\ due' = due \cup {t}
    /\ UNCHANGED <<taskHash, slots, ends, ready, key, clientVars, notClient>>

\* Redis drops the key at its TTL.
KeyExpires(t) ==
    /\ key[t] = "armed" \/ (key[t] = "late" /\ t \in due)
    /\ key' = [key EXCEPT ![t] = "absent"]
    /\ due' = due \ {t}
    /\ UNCHANGED <<taskHash, slots, ends, ready, clientVars, notClient>>

ClockStep(t) == TimeoutPasses(t) \/ KeyExpires(t)

HandlerError ==
    \/ \E c \in Clients : ClientError(c)
    \/ \E s \in Sweepers : SweepError(s)
    \/ \E k \in Cancellers : CancelError(k)

Next ==
    \/ \E c \in Clients : Client(c)
    \/ \E w \in Workers : WorkerStep(w)
    \/ \E w \in Workers \ crashed : RedisError(w) \/ Crash(w)
    \/ \E s \in Sweepers : SweepStep(s)
    \/ \E k \in Cancellers : CancelStep(k)
    \/ \E t \in Tasks : ClockStep(t)
    \/ HandlerError

Spec == Init /\ [][Next]_vars

\* Each process is a coroutine its event loop keeps scheduling; a Redis command
\* returns or raises; time passes.  Clients and cancels may come or not, and
\* once started they are handlers that run to their end.
Fairness ==
    /\ \A c \in Clients : WF_vars(Client(c))
    /\ \A w \in Workers : WF_vars(WorkerStep(w))
    /\ \A s \in Sweepers : WF_vars(SweepStep(s))
    /\ \A k \in Cancellers : WF_vars(kpc[k] # "start" /\ CancelStep(k))
    /\ \A t \in Tasks : WF_vars(ClockStep(t))

FairSpec == Spec /\ Fairness

-----------------------------------------------------------------------------
(* Properties                                                              *)

\* What a control state says of the task in hand.
HandOK ==
    /\ \A c \in Clients : cpc[c] \in {"userOk", "allOk", "saved", "pushed"} => ctask[c] \in Tasks
    /\ \A w \in Workers : wpc[w] # "idle" => wtask[w] \in Tasks
    /\ \A s \in Sweepers : spc[s] \notin {"collecting", "handling"} => stask[s] \in Tasks
    /\ \A k \in Cancellers : kpc[k] # "start" => ktask[k] \in Tasks

\* The type invariant.
TypeOK ==
    /\ status \in [Tasks -> Status]
    /\ requeued \subseteq Tasks /\ cancelledAt \subseteq Tasks
    /\ ready \in Seq(Tasks)
    /\ processing \subseteq Tasks /\ userMarked \subseteq Tasks
    /\ completed \subseteq Tasks /\ failed \subseteq Tasks
    /\ key \in [Tasks -> KeyState] /\ due \subseteq Tasks
    /\ members \in [Clients -> SUBSET Tasks]
    /\ cpc \in [Clients -> {"next", "userOk", "allOk", "saved", "pushed", "rejected"}]
    /\ ctask \in [Clients -> Tasks \cup {Nobody}]
    /\ wpc \in [Workers -> {"idle", "running"} \cup Dequeuing \cup Acking]
    /\ wtask \in [Workers -> Tasks \cup {Nobody}]
    /\ wok \in [Workers -> BOOLEAN]
    /\ spc \in [Sweepers -> {"collecting", "handling", "sweepUser", "sweepGlobal",
                              "sweepKey", "sweepPush", "sweepStatus"}]
    /\ stask \in [Sweepers -> Tasks \cup {Nobody}]
    /\ expired \in [Sweepers -> SUBSET Tasks]
    /\ kpc \in [Cancellers -> {"start", "unmarkUser", "unmarkGlobal", "clearKey",
                                "remove", "write", "done"}]
    /\ ktask \in [Cancellers -> Tasks \cup {Nobody}]
    /\ crashed \subseteq Workers /\ abandoned \subseteq Tasks
    /\ faults \in 0..MaxFaults
    /\ HandOK

Requeued(t)  == t \in requeued
Cancelled(t) == t \in cancelledAt
                \/ \E k \in Cancellers : ktask[k] = t /\ kpc[k] # "done"

\* An accepted task that is neither settled nor cancelled is in the ready list
\* or in the hands of a running process, unless a crash or a Redis error
\* dropped it: the RPOP, the push back and the requeue lose nothing by
\* themselves, in any interleaving.
NoTaskVanishes ==
    \A t \in Tasks : status[t] \in {"queued", "processing"} =>
        \/ InReady(t)
        \/ \E c \in Clients : cpc[c] = "saved" /\ ctask[c] = t
        \/ \E w \in Workers \ crashed : wtask[w] = t
        \/ \E s \in Sweepers \ crashed : stask[s] = t
        \/ t \in abandoned \cup completed \cup failed \/ Cancelled(t)

\* A task the cleanup loop never requeued is delivered once: it is not twice
\* in the ready list, not in the list while a worker holds it, and not held by
\* two workers.
SingleDelivery ==
    \A t \in Tasks : Requeued(t)
        \/ /\ \A i, j \in 1..Len(ready) : ready[i] = t /\ ready[j] = t => i = j
           /\ \A w \in Workers : wtask[w] = t => ~InReady(t)
           /\ \A w, v \in Workers : wtask[w] = t /\ wtask[v] = t => w = v

\* A slot (qa:processing, the user's set) or a visibility key that is taken
\* belongs to a running worker between its mark and its ack, or was left by a
\* fault: no interleaving of ack, cancel, sweep and dequeue leaks one.
Marked == {"userMarked", "marked", "timed", "armed", "running", "ack", "ackGlobal", "ackKey"}
NoLeakWithoutFault ==
    \A t \in Tasks :
        t \in processing \cup userMarked \/ key[t] # "absent" =>
            t \in abandoned \/ \E w \in Workers \ crashed :
                                  wtask[w] = t /\ wpc[w] \in Marked

\* A task being analysed occupies its two slots, unless it was cancelled or
\* requeued meanwhile, or one of the two was begun and failed: these are the only
\* ways the analysis of more tasks than the sets count can run.
RunningIsCounted ==
    \A w \in Workers \ crashed : wpc[w] = "running" =>
        \/ wtask[w] \in processing \cap userMarked
        \/ Requeued(wtask[w]) \/ Cancelled(wtask[w])
        \/ wtask[w] \in abandoned \/ \E s \in Sweepers : stask[s] = wtask[w]

\* The user limit is checked and acted on in two commands; the overshoot this
\* allows is at most one task per other worker.
UserOvershootBounded ==
    \A t \in Tasks : Cardinality(UserProcessing(Owner[t]))
                        <= UserLimit + Cardinality(Workers) - 1

\* The strengthening of UserOvershootBounded: a worker that passed the check
\* and has not marked its task yet counts as well.
Admitted(u) == {w \in Workers : wpc[w] = "admitted" /\ Owner[wtask[w]] = u}
QuotaInv ==
    \A t \in Tasks : Cardinality(UserProcessing(Owner[t])) + Cardinality(Admitted(Owner[t]))
                        <= UserLimit + Cardinality(Workers) - 1

\* API_ARCHITECTURE_UPGRADE.md:27: a failed task is put back in the queue.
FailedTasksRetried ==
    \A t \in Tasks : status[t] = "failed" ~> status[t] # "failed"

\* Without faults every accepted task is settled or cancelled in the end: the
\* push back of a task over its user's limit starves nobody.
EventuallySettled ==
    \A t \in Tasks : status[t] = "queued" ~>
                        t \in completed \cup failed \cup cancelledAt

\* analysis.py:79: AnalysisTask takes `symbol`, the old `stock_code` is
\* deprecated.  A failed acknowledgement comes from an analysis that could
\* have succeeded, not from a task object that never validates.
FailureComesFromAnalysis ==
    \A w \in Workers : wpc[w] = "ack" => Outcomes = BOOLEAN

\* API_ARCHITECTURE_UPGRADE.md:26: the visibility timeout keeps tasks from
\* being lost, so a task does not stay "processing" after its worker died.
CrashedTaskRecovered ==
    \A t \in Tasks : status[t] = "processing" ~> status[t] # "processing"
=============================================================================
