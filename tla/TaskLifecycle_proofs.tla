----------------------- MODULE TaskLifecycle_proofs -----------------------
(* Proofs about TaskLifecycle, for every set of tasks, every size of the   *)
(* pool and every number of faults, administrative calls and restarts.     *)
EXTENDS TaskLifecycle, TLAPS

USE DEF bounds, history, pool

-----------------------------------------------------------------------------
(* What the two helpers that write a status do.                             *)

\* A write to memory keeps its type, touches no other task and no task that
\* is not there, and leaves result_data alone.
LEMMA SetMemoryFacts ==
    ASSUME TypeOK, NEW t \in Tasks, NEW s \in TaskStatus, memory' = SetMemory(t, s)
    PROVE  /\ memory' \in [Tasks -> [status: TaskStatus \cup {"absent"}, result: BOOLEAN]]
           /\ \A u \in Tasks : memory'[u] # memory[u] =>
                 /\ u = t /\ memory[u] # NoTask
                 /\ memory'[u].status = s
                 /\ memory'[u].result = memory[u].result
  BY DEF TypeOK, SetMemory, TaskStatus, NoTask

\* A write to a document keeps its type, touches no other document and never
\* brings one into being.
LEMMA DocWriteFacts ==
    ASSUME TypeOK, NEW t \in Tasks, NEW s \in AnalysisStatus, DocWrite(t, s)
    PROVE  /\ docs' \in [Tasks -> AnalysisStatus \cup {"absent"}]
           /\ faults' \in Nat /\ disturbed' \subseteq Tasks
           /\ \A u \in Tasks : docs'[u] # docs[u] =>
                 u = t /\ docs[u] # "absent" /\ docs'[u] = s
  BY DEF TypeOK, DocWrite, AnalysisStatus

\* The clean-up fails tasks of memory in place and touches no other.
LEMMA CleanupFacts ==
    ASSUME TypeOK, CleanupZombies
    PROVE  /\ memory' \in [Tasks -> [status: TaskStatus \cup {"absent"}, result: BOOLEAN]]
           /\ Zombies \subseteq Tasks
           /\ \A u \in Tasks : memory'[u] # memory[u] =>
                 memory[u] # NoTask /\ memory'[u].status = "failed"
<1>1. ASSUME NEW u \in Tasks
      PROVE  memory[u] \in [status: TaskStatus \cup {"absent"}, result: BOOLEAN]
  BY DEF TypeOK
<1>2. ASSUME NEW u \in Tasks
      PROVE  /\ memory'[u] \in [status: TaskStatus \cup {"absent"}, result: BOOLEAN]
             /\ memory'[u] # memory[u] =>
                   memory[u] # NoTask /\ memory'[u].status = "failed"
  <2>1. memory'[u] = IF u \in Zombies THEN [memory[u] EXCEPT !.status = "failed"]
                     ELSE memory[u]
    BY DEF CleanupZombies
  <2>2. CASE u \in Zombies
    <3>1. memory[u] # NoTask BY <2>2 DEF Zombies, NoTask
    <3>2. memory'[u] = [memory[u] EXCEPT !.status = "failed"] BY <2>1, <2>2
    <3>3. QED BY <1>1, <3>1, <3>2 DEF TaskStatus
  <2>3. CASE u \notin Zombies
    BY <1>1, <2>1, <2>3
  <2>4. QED BY <2>2, <2>3
<1>3. Zombies \subseteq Tasks
  BY DEF Zombies, TypeOK
<1>4. memory' = [u \in Tasks |-> memory'[u]]
  BY DEF CleanupZombies
<1>5. QED BY <1>2, <1>3, <1>4

-----------------------------------------------------------------------------
\* Every copy of a task's state holds a status its readers expect, each
\* coroutine is at one of its waits and the pool's queue holds tasks.
THEOREM TypeCorrect == Spec => []TypeOK
<1>1. Init => TypeOK
  BY LifecycleConstants DEF Init, TypeOK, TaskStatus, AnalysisStatus, Control, NoTask
<1>2. TypeOK /\ [Next]_vars => TypeOK'
  <2> SUFFICES ASSUME TypeOK, [Next]_vars PROVE TypeOK'
    OBVIOUS
  <2>1. ASSUME NEW t \in Tasks, CreateTask(t) PROVE TypeOK'
    BY <2>1 DEF CreateTask, Goto, TypeOK, TaskStatus, NoTask, Control
  <2>2. ASSUME NEW t \in Tasks, Coroutine(t) PROVE TypeOK'
    <3>1. CASE RecordTask(t)
      BY <3>1 DEF RecordTask, Goto, TypeOK, AnalysisStatus, Control
    <3>2. CASE Validated(t)
      BY <3>2 DEF Validated, Goto, TypeOK, Control
    <3>3. CASE Invalid(t)
      BY <3>3, SetMemoryFacts DEF Invalid, Goto, TypeOK, TaskStatus, Control
    <3>4. CASE CreateTracker(t)
      BY <3>4 DEF CreateTracker, Goto, TypeOK, Control
    <3>5. CASE RunningInMemory(t)
      BY <3>5, SetMemoryFacts DEF RunningInMemory, Goto, TypeOK, TaskStatus, Control
    <3>6. CASE ProcessingInMongo(t)
      <4>1. /\ docs' \in [Tasks -> AnalysisStatus \cup {"absent"}]
            /\ faults' \in Nat /\ disturbed' \subseteq Tasks
        BY <3>6, DocWriteFacts DEF ProcessingInMongo, AnalysisStatus
      <4>2. waiting' \in Seq(Tasks)
        <5>1. waiting \in Seq(Tasks) BY DEF TypeOK
        <5>2. waiting' = waiting \/ waiting' = Append(waiting, t)
          BY <3>6 DEF ProcessingInMongo
        <5>3. QED BY <5>1, <5>2
      <4>3. thread' \in [Tasks -> {"none", "queued", "working", "returned", "raised"}]
        BY <3>6 DEF ProcessingInMongo, TypeOK
      <4>4. pc' \in [Tasks -> Control]
        BY <3>6 DEF ProcessingInMongo, Goto, TypeOK, Control
      <4>5. QED
        BY <3>6, <4>1, <4>2, <4>3, <4>4 DEF ProcessingInMongo, TypeOK
    <3>7. CASE AnalysisReturned(t)
      BY <3>7 DEF AnalysisReturned, Goto, TypeOK, Control
    <3>8. CASE AnalysisRaised(t)
      BY <3>8, SetMemoryFacts DEF AnalysisRaised, Goto, TypeOK, TaskStatus, Control
    <3>9. CASE SaveResults(t)
      BY <3>9 DEF SaveResults, Goto, TypeOK, Control
    <3>10. CASE CompletedInMemory(t)
      BY <3>10 DEF CompletedInMemory, Goto, TypeOK, TaskStatus, NoTask, Control
    <3>11. CASE CompletedInMongo(t)
      BY <3>11, DocWriteFacts DEF CompletedInMongo, Goto, TypeOK, AnalysisStatus, Control
    <3>12. CASE FailedInMongo(t)
      BY <3>12, DocWriteFacts DEF FailedInMongo, Goto, TypeOK, AnalysisStatus, Control
    <3>13. QED
      BY <2>2, <3>1, <3>2, <3>3, <3>4, <3>5, <3>6, <3>7, <3>8, <3>9, <3>10, <3>11,
         <3>12 DEF Coroutine
  <2>3. ASSUME NEW t \in Tasks, ReportsProgress(t) PROVE TypeOK'
    BY <2>3, SetMemoryFacts DEF ReportsProgress, TypeOK, TaskStatus
  <2>4. ASSUME NEW t \in Tasks, ThreadEnds(t) PROVE TypeOK'
    BY <2>4 DEF ThreadEnds, TypeOK
  <2>5. ASSUME NEW t \in Tasks, Administration(t) PROVE TypeOK'
    <3>1. CASE MarkFailed(t)
      BY <3>1, SetMemoryFacts DEF MarkFailed, TypeOK, TaskStatus
    <3>2. CASE MarkFailedInMongo(t)
      BY <3>2, DocWriteFacts DEF MarkFailedInMongo, TypeOK, AnalysisStatus
    <3>3. CASE RemoveTask(t)
      BY <3>3 DEF RemoveTask, TypeOK, NoTask
    <3>4. CASE RemoveTaskFromMongo(t)
      BY <3>4 DEF RemoveTaskFromMongo, TypeOK
    <3>5. QED
      BY <2>5, <3>1, <3>2, <3>3, <3>4 DEF Administration
  <2>6. ASSUME NEW t \in Tasks, Age(t) PROVE TypeOK'
    BY <2>6 DEF Age, TypeOK
  <2>7. CASE ThreadStarts
    <3>1. waiting \in Seq(Tasks) /\ waiting # <<>>
      BY <2>7 DEF ThreadStarts, TypeOK
    <3>2. waiting' \in Seq(Tasks)
      BY <2>7, <3>1 DEF ThreadStarts
    <3>3. thread' \in [Tasks -> {"none", "queued", "working", "returned", "raised"}]
      BY <2>7 DEF ThreadStarts, TypeOK
    <3>4. QED
      BY <2>7, <3>2, <3>3 DEF ThreadStarts, TypeOK
  <2>8. CASE CleanupZombies
    BY <2>8, CleanupFacts DEF CleanupZombies, TypeOK
  <2>9. CASE Restart
    BY <2>9 DEF Restart, TypeOK, NoTask, Control
  <2>10. CASE Idle \/ UNCHANGED vars
    BY <2>10 DEF Idle, vars, TypeOK
  <2>11. QED
    BY <2>1, <2>2, <2>3, <2>4, <2>5, <2>6, <2>7, <2>8, <2>9, <2>10 DEF Next
<1>3. QED
  BY <1>1, <1>2, PTL DEF Spec

-----------------------------------------------------------------------------
(* A completed task has its result.  The two stores that answer for a task   *)
(* are filled after the report is stored, so what they say must be tied to   *)
(* the place of the coroutine: past the save, the report is there or was     *)
(* refused; a document is completed and memory holds a result only then.     *)

ResultInv ==
    \A t \in Tasks :
        /\ pc[t] \in {"complete", "complete_doc"} => t \in reports \cup unsaved
        /\ docs[t] = "completed" => t \in reports \cup unsaved
        /\ memory[t].status = "completed" => memory[t].result

\* Whatever store answers that a task is completed, its result is found.
THEOREM ResultsAreThere == Spec => []ResultBehindCompleted
<1>1. Init => ResultInv
  BY DEF Init, ResultInv, NoTask
<1>2. TypeOK /\ ResultInv /\ [Next]_vars => ResultInv'
  <2> SUFFICES ASSUME TypeOK, ResultInv, [Next]_vars, NEW u \in Tasks
               PROVE  /\ pc'[u] \in {"complete", "complete_doc"} => u \in (reports \cup unsaved)'
                      /\ docs'[u] = "completed" => u \in (reports \cup unsaved)'
                      /\ memory'[u].status = "completed" => memory'[u].result
    BY DEF ResultInv
  <2> DEFINE Kept == /\ pc'[u] \in {"complete", "complete_doc"} => u \in (reports \cup unsaved)'
                     /\ docs'[u] = "completed" => u \in (reports \cup unsaved)'
                     /\ memory'[u].status = "completed" => memory'[u].result
  <2>0. /\ pc[u] \in {"complete", "complete_doc"} => u \in reports \cup unsaved
        /\ docs[u] = "completed" => u \in reports \cup unsaved
        /\ memory[u].status = "completed" => memory[u].result
        /\ pc \in [Tasks -> Control]
        /\ docs \in [Tasks -> AnalysisStatus \cup {"absent"}]
        /\ memory \in [Tasks -> [status: TaskStatus \cup {"absent"}, result: BOOLEAN]]
    BY DEF ResultInv, TypeOK
  <2>1. ASSUME NEW t \in Tasks, CreateTask(t) PROVE Kept
    BY <2>0, <2>1 DEF CreateTask, Goto, NoTask
  <2>2. ASSUME NEW t \in Tasks, Coroutine(t) PROVE Kept
    <3>1. CASE RecordTask(t)        BY <2>0, <3>1 DEF RecordTask, Goto
    <3>2. CASE Validated(t)         BY <2>0, <3>2 DEF Validated, Goto
    <3>3. CASE Invalid(t)
      BY <2>0, <3>3, SetMemoryFacts DEF Invalid, Goto, TaskStatus
    <3>4. CASE CreateTracker(t)     BY <2>0, <3>4 DEF CreateTracker, Goto
    <3>5. CASE RunningInMemory(t)
      BY <2>0, <3>5, SetMemoryFacts DEF RunningInMemory, Goto, TaskStatus
    <3>6. CASE ProcessingInMongo(t)
      BY <2>0, <3>6, DocWriteFacts DEF ProcessingInMongo, Goto, AnalysisStatus
    <3>7. CASE AnalysisReturned(t)  BY <2>0, <3>7 DEF AnalysisReturned, Goto
    <3>8. CASE AnalysisRaised(t)
      BY <2>0, <3>8, SetMemoryFacts DEF AnalysisRaised, Goto, TaskStatus
    <3>9. CASE SaveResults(t)       BY <2>0, <3>9 DEF SaveResults, Goto
    <3>10. CASE CompletedInMemory(t)
      BY <2>0, <3>10 DEF CompletedInMemory, Goto
    <3>11. CASE CompletedInMongo(t)
      BY <2>0, <3>11, DocWriteFacts DEF CompletedInMongo, Goto, AnalysisStatus
    <3>12. CASE FailedInMongo(t)
      BY <2>0, <3>12, DocWriteFacts DEF FailedInMongo, Goto, AnalysisStatus
    <3>13. QED
      BY <2>2, <3>1, <3>2, <3>3, <3>4, <3>5, <3>6, <3>7, <3>8, <3>9, <3>10, <3>11,
         <3>12 DEF Coroutine
  <2>3. ASSUME NEW t \in Tasks, ReportsProgress(t) PROVE Kept
    BY <2>0, <2>3, SetMemoryFacts DEF ReportsProgress, TaskStatus
  <2>4. ASSUME NEW t \in Tasks, ThreadEnds(t) PROVE Kept
    BY <2>0, <2>4 DEF ThreadEnds
  <2>5. ASSUME NEW t \in Tasks, Administration(t) PROVE Kept
    <3>1. CASE MarkFailed(t)
      BY <2>0, <3>1, SetMemoryFacts DEF MarkFailed, TaskStatus
    <3>2. CASE MarkFailedInMongo(t)
      BY <2>0, <3>2, DocWriteFacts DEF MarkFailedInMongo, AnalysisStatus
    <3>3. CASE RemoveTask(t)          BY <2>0, <3>3 DEF RemoveTask, NoTask
    <3>4. CASE RemoveTaskFromMongo(t) BY <2>0, <3>4 DEF RemoveTaskFromMongo
    <3>5. QED
      BY <2>5, <3>1, <3>2, <3>3, <3>4 DEF Administration
  <2>6. ASSUME NEW t \in Tasks, Age(t) PROVE Kept
    BY <2>0, <2>6 DEF Age
  <2>7. CASE ThreadStarts
    BY <2>0, <2>7 DEF ThreadStarts
  <2>8. CASE CleanupZombies
    BY <2>0, <2>8 DEF CleanupZombies, Zombies
  <2>9. CASE Restart
    BY <2>0, <2>9 DEF Restart, NoTask
  <2>10. CASE Idle \/ UNCHANGED vars
    BY <2>0, <2>10 DEF Idle, vars
  <2>11. QED
    BY <2>1, <2>2, <2>3, <2>4, <2>5, <2>6, <2>7, <2>8, <2>9, <2>10 DEF Next
<1>3. TypeOK /\ ResultInv => ResultBehindCompleted
  <2> SUFFICES ASSUME TypeOK, ResultInv, NEW t \in Tasks, Shown(t) = "completed",
                      t \in unsaved => memory[t] # NoTask
               PROVE  ResultFound(t)
    BY DEF ResultBehindCompleted
  <2>1. CASE memory[t] # NoTask
    BY <2>1 DEF Shown, ResultInv, ResultFound
  <2>2. CASE memory[t] = NoTask
    BY <2>2 DEF Shown, ResultInv, ResultFound
  <2>3. QED BY <2>1, <2>2
<1>4. QED
  BY <1>1, <1>2, <1>3, TypeCorrect, PTL DEF Spec

-----------------------------------------------------------------------------
(* A deleted task stays deleted: from the moment it leaves memory its id is  *)
(* that of an accepted task, and only the creation of a task adds to memory  *)
(* or to the documents.                                                      *)

DeleteInv ==
    \A t \in Tasks :
        /\ admin[t] # "none" => pc[t] \notin {"new", "created"}
        /\ admin[t] = "delete" => memory[t] = NoTask
        /\ t \in deleted => /\ memory[t] = NoTask /\ docs[t] = "absent"
                            /\ pc[t] \notin {"new", "created"}

\* A task being deleted has been accepted and has left memory; a deleted one is
\* in neither store.
LEMMA DeleteInvariant == Spec => []DeleteInv
<1>1. Init => DeleteInv
  BY DEF Init, DeleteInv
<1>2. TypeOK /\ DeleteInv /\ [Next]_vars => DeleteInv'
  <2> SUFFICES ASSUME TypeOK, DeleteInv, [Next]_vars, NEW u \in Tasks
               PROVE  /\ admin'[u] # "none" => pc'[u] \notin {"new", "created"}
                      /\ admin'[u] = "delete" => memory'[u] = NoTask
                      /\ u \in deleted' => /\ memory'[u] = NoTask /\ docs'[u] = "absent"
                                           /\ pc'[u] \notin {"new", "created"}
    BY DEF DeleteInv
  <2> DEFINE Kept == /\ admin'[u] # "none" => pc'[u] \notin {"new", "created"}
                     /\ admin'[u] = "delete" => memory'[u] = NoTask
                     /\ u \in deleted' => /\ memory'[u] = NoTask /\ docs'[u] = "absent"
                                          /\ pc'[u] \notin {"new", "created"}
  <2>0. /\ admin[u] # "none" => pc[u] \notin {"new", "created"}
        /\ admin[u] = "delete" => memory[u] = NoTask
        /\ u \in deleted => /\ memory[u] = NoTask /\ docs[u] = "absent"
                            /\ pc[u] \notin {"new", "created"}
        /\ pc \in [Tasks -> Control]
        /\ docs \in [Tasks -> AnalysisStatus \cup {"absent"}]
        /\ admin \in [Tasks -> {"none", "mark", "delete"}]
        /\ memory \in [Tasks -> [status: TaskStatus \cup {"absent"}, result: BOOLEAN]]
    BY DEF DeleteInv, TypeOK
  <2>1. ASSUME NEW t \in Tasks, CreateTask(t) PROVE Kept
    BY <2>0, <2>1 DEF CreateTask, Goto
  <2>2. ASSUME NEW t \in Tasks, Coroutine(t) PROVE Kept
    <3>1. CASE RecordTask(t)        BY <2>0, <3>1 DEF RecordTask, Goto
    <3>2. CASE Validated(t)         BY <2>0, <3>2 DEF Validated, Goto
    <3>3. CASE Invalid(t)
      BY <2>0, <3>3, SetMemoryFacts DEF Invalid, Goto, TaskStatus
    <3>4. CASE CreateTracker(t)     BY <2>0, <3>4 DEF CreateTracker, Goto
    <3>5. CASE RunningInMemory(t)
      BY <2>0, <3>5, SetMemoryFacts DEF RunningInMemory, Goto, TaskStatus
    <3>6. CASE ProcessingInMongo(t)
      BY <2>0, <3>6, DocWriteFacts DEF ProcessingInMongo, Goto, AnalysisStatus
    <3>7. CASE AnalysisReturned(t)  BY <2>0, <3>7 DEF AnalysisReturned, Goto
    <3>8. CASE AnalysisRaised(t)
      BY <2>0, <3>8, SetMemoryFacts DEF AnalysisRaised, Goto, TaskStatus
    <3>9. CASE SaveResults(t)       BY <2>0, <3>9 DEF SaveResults, Goto
    <3>10. CASE CompletedInMemory(t)
      BY <2>0, <3>10 DEF CompletedInMemory, Goto
    <3>11. CASE CompletedInMongo(t)
      BY <2>0, <3>11, DocWriteFacts DEF CompletedInMongo, Goto, AnalysisStatus
    <3>12. CASE FailedInMongo(t)
      BY <2>0, <3>12, DocWriteFacts DEF FailedInMongo, Goto, AnalysisStatus
    <3>13. QED
      BY <2>2, <3>1, <3>2, <3>3, <3>4, <3>5, <3>6, <3>7, <3>8, <3>9, <3>10, <3>11,
         <3>12 DEF Coroutine
  <2>3. ASSUME NEW t \in Tasks, ReportsProgress(t) PROVE Kept
    BY <2>0, <2>3, SetMemoryFacts DEF ReportsProgress, TaskStatus
  <2>4. ASSUME NEW t \in Tasks, ThreadEnds(t) PROVE Kept
    BY <2>0, <2>4 DEF ThreadEnds
  <2>5. ASSUME NEW t \in Tasks, Administration(t) PROVE Kept
    <3>1. CASE MarkFailed(t)
      BY <2>0, <3>1, SetMemoryFacts DEF MarkFailed, Known, TaskStatus
    <3>2. CASE MarkFailedInMongo(t)
      BY <2>0, <3>2, DocWriteFacts DEF MarkFailedInMongo, AnalysisStatus
    <3>3. CASE RemoveTask(t)          BY <2>0, <3>3 DEF RemoveTask, Known
    <3>4. CASE RemoveTaskFromMongo(t) BY <2>0, <3>4 DEF RemoveTaskFromMongo
    <3>5. QED
      BY <2>5, <3>1, <3>2, <3>3, <3>4 DEF Administration
  <2>6. ASSUME NEW t \in Tasks, Age(t) PROVE Kept
    BY <2>0, <2>6 DEF Age
  <2>7. CASE ThreadStarts
    BY <2>0, <2>7 DEF ThreadStarts
  <2>8. CASE CleanupZombies
    BY <2>0, <2>8, CleanupFacts DEF CleanupZombies
  <2>9. CASE Restart
    BY <2>0, <2>9 DEF Restart
  <2>10. CASE Idle \/ UNCHANGED vars
    BY <2>0, <2>10 DEF Idle, vars
  <2>11. QED
    BY <2>1, <2>2, <2>3, <2>4, <2>5, <2>6, <2>7, <2>8, <2>9, <2>10 DEF Next
<1>3. QED
  BY <1>1, <1>2, TypeCorrect, PTL DEF Spec

\* No write of the coroutine, of its thread or of an administrator brings a
\* deleted task back.
THEOREM DeletedForGood == Spec => []StaysDeleted
<1>1. TypeOK /\ DeleteInv => StaysDeleted
  BY DEF DeleteInv, StaysDeleted, TypeOK
<1>2. QED
  BY <1>1, TypeCorrect, DeleteInvariant, PTL

-----------------------------------------------------------------------------
(* No report of progress comes late: a coroutine waits for its thread, so a  *)
(* thread that works belongs to a coroutine that waits.  The pool's queue    *)
(* must not hold a task twice, or a second thread could start for a task     *)
(* whose first has let its coroutine go on.                                  *)

PoolInv ==
    /\ \A i \in DOMAIN waiting : thread[waiting[i]] = "queued"
    /\ \A i, j \in DOMAIN waiting : waiting[i] = waiting[j] => i = j
    /\ \A t \in Tasks : thread[t] \in {"queued", "working"} => pc[t] = "awaiting"

\* The pool's queue holds only tasks whose coroutine waits for their thread,
\* and none twice.
THEOREM ThreadsAreAwaited == Spec => []PoolInv
<1>1. Init => PoolInv
  BY DEF Init, PoolInv
<1>2. TypeOK /\ PoolInv /\ [Next]_vars => PoolInv'
  <2> SUFFICES ASSUME TypeOK, PoolInv, [Next]_vars PROVE PoolInv'
    OBVIOUS
  <2>0. /\ pc \in [Tasks -> Control]
        /\ thread \in [Tasks -> {"none", "queued", "working", "returned", "raised"}]
        /\ waiting \in Seq(Tasks)
    BY DEF TypeOK
  \* A step of a coroutine that is not waiting for its thread leaves the pool
  \* alone and so does not begin to wait.
  <2>A. ASSUME NEW t \in Tasks, NEW a \in Control, NEW b \in Control,
               Goto(t, a, b), a # "awaiting", UNCHANGED pool
        PROVE  PoolInv'
    BY <2>0, <2>A DEF PoolInv, Goto
  <2>B. ASSUME UNCHANGED <<pc, thread, waiting>> PROVE PoolInv'
    BY <2>B DEF PoolInv
  <2>1. ASSUME NEW t \in Tasks, CreateTask(t) PROVE PoolInv'
    BY <2>1, <2>A DEF CreateTask, Control
  <2>2. ASSUME NEW t \in Tasks, Coroutine(t) PROVE PoolInv'
    <3>1. CASE RecordTask(t)        BY <3>1, <2>A DEF RecordTask, Control
    <3>2. CASE Validated(t)         BY <3>2, <2>A DEF Validated, Control
    <3>3. CASE Invalid(t)           BY <3>3, <2>A DEF Invalid, Control
    <3>4. CASE CreateTracker(t)     BY <3>4, <2>A DEF CreateTracker, Control
    <3>5. CASE RunningInMemory(t)   BY <3>5, <2>A DEF RunningInMemory, Control
    <3>6. CASE ProcessingInMongo(t)
      <4>1. CASE Goto(t, "begin_doc", "prepare") /\ UNCHANGED pool
        BY <4>1, <2>A DEF Control
      <4>2. CASE /\ Goto(t, "prepare_doc", "awaiting")
                 /\ waiting' = Append(waiting, t)
                 /\ thread' = [thread EXCEPT ![t] = "queued"]
        <5>1. thread[t] # "queued"
          BY <4>2 DEF PoolInv, Goto
        <5>2. \A i \in DOMAIN waiting : waiting[i] # t
          BY <5>1 DEF PoolInv
        <5>3. /\ DOMAIN waiting = 1 .. Len(waiting) /\ Len(waiting) \in Nat
              /\ DOMAIN waiting' = 1 .. Len(waiting) + 1
              /\ \A i \in DOMAIN waiting : waiting'[i] = waiting[i]
              /\ waiting'[Len(waiting) + 1] = t
          BY <2>0, <4>2
        <5>4. \A i \in DOMAIN waiting' : thread'[waiting'[i]] = "queued"
          BY <2>0, <4>2, <5>3 DEF PoolInv
        <5>5. \A i, j \in DOMAIN waiting' : waiting'[i] = waiting'[j] => i = j
          BY <5>2, <5>3 DEF PoolInv
        <5>6. \A u \in Tasks : thread'[u] \in {"queued", "working"} => pc'[u] = "awaiting"
          BY <2>0, <4>2 DEF PoolInv, Goto
        <5>7. QED BY <5>4, <5>5, <5>6 DEF PoolInv
      <4>3. QED BY <3>6, <4>1, <4>2 DEF ProcessingInMongo
    <3>7. CASE AnalysisReturned(t)
      BY <2>0, <3>7 DEF AnalysisReturned, Goto, PoolInv
    <3>8. CASE AnalysisRaised(t)
      BY <2>0, <3>8 DEF AnalysisRaised, Goto, PoolInv
    <3>9. CASE SaveResults(t)       BY <3>9, <2>A DEF SaveResults, Control
    <3>10. CASE CompletedInMemory(t) BY <3>10, <2>A DEF CompletedInMemory, Control
    <3>11. CASE CompletedInMongo(t) BY <3>11, <2>A DEF CompletedInMongo, Control
    <3>12. CASE FailedInMongo(t)    BY <3>12, <2>A DEF FailedInMongo, Control
    <3>13. QED
      BY <2>2, <3>1, <3>2, <3>3, <3>4, <3>5, <3>6, <3>7, <3>8, <3>9, <3>10, <3>11,
         <3>12 DEF Coroutine
  <2>3. ASSUME NEW t \in Tasks, ReportsProgress(t) PROVE PoolInv'
    BY <2>3, <2>B DEF ReportsProgress
  <2>4. ASSUME NEW t \in Tasks, ThreadEnds(t) PROVE PoolInv'
    BY <2>0, <2>4 DEF ThreadEnds, PoolInv
  <2>5. ASSUME NEW t \in Tasks, Administration(t) PROVE PoolInv'
    BY <2>5, <2>B DEF Administration, MarkFailed, MarkFailedInMongo, RemoveTask,
                      RemoveTaskFromMongo
  <2>6. ASSUME NEW t \in Tasks, Age(t) PROVE PoolInv'
    BY <2>6, <2>B DEF Age
  <2>7. CASE ThreadStarts
    <3> DEFINE h == Head(waiting)
    <3>1. waiting # <<>> /\ thread' = [thread EXCEPT ![h] = "working"]
          /\ waiting' = Tail(waiting) /\ pc' = pc
      BY <2>7 DEF ThreadStarts
    <3>2. /\ DOMAIN waiting = 1 .. Len(waiting) /\ Len(waiting) \in Nat \ {0}
          /\ h = waiting[1]
          /\ DOMAIN waiting' = 1 .. Len(waiting) - 1
          /\ \A i \in DOMAIN waiting' : waiting'[i] = waiting[i + 1]
      BY <2>0, <3>1
    <3>3. h \in Tasks /\ thread[h] = "queued"
      BY <2>0, <3>2 DEF PoolInv
    <3>4. \A i \in DOMAIN waiting' : waiting'[i] # h
      BY <3>2 DEF PoolInv
    <3>5. \A i \in DOMAIN waiting' : thread'[waiting'[i]] = "queued"
      BY <2>0, <3>1, <3>2, <3>4 DEF PoolInv
    <3>6. \A i, j \in DOMAIN waiting' : waiting'[i] = waiting'[j] => i = j
      BY <3>2 DEF PoolInv
    <3>7. \A u \in Tasks : thread'[u] \in {"queued", "working"} => pc'[u] = "awaiting"
      BY <2>0, <3>1, <3>3 DEF PoolInv
    <3>8. QED BY <3>5, <3>6, <3>7 DEF PoolInv
  <2>8. CASE CleanupZombies
    BY <2>8, <2>B DEF CleanupZombies
  <2>9. CASE Restart
    BY <2>9 DEF Restart, PoolInv
  <2>10. CASE Idle \/ UNCHANGED vars
    BY <2>10, <2>B DEF Idle, vars
  <2>11. QED
    BY <2>1, <2>2, <2>3, <2>4, <2>5, <2>6, <2>7, <2>8, <2>9, <2>10 DEF Next
<1>3. QED
  BY <1>1, <1>2, TypeCorrect, PTL DEF Spec

\* Once the coroutine has settled a task, memory never says again that it
\* runs: none of the writers that do not look at the status can still come.
THEOREM NothingRevived == Spec => NoLateRevival
<1> DEFINE Settled(t) == pc[t] = "finished" /\ memory[t].status \in Terminal
<1>1. TypeOK /\ PoolInv /\ [Next]_vars =>
         \A u \in Tasks : Settled(u) => memory'[u].status \in Terminal \cup {"absent"}
  <2> SUFFICES ASSUME TypeOK, PoolInv, [Next]_vars, NEW u \in Tasks, Settled(u)
               PROVE  memory'[u].status \in Terminal \cup {"absent"}
    OBVIOUS
  <2> DEFINE Stays == memory'[u].status \in Terminal \cup {"absent"}
  <2>0. /\ pc[u] = "finished" /\ memory[u].status \in Terminal
        /\ memory \in [Tasks -> [status: TaskStatus \cup {"absent"}, result: BOOLEAN]]
    BY DEF TypeOK
  <2>A. ASSUME memory'[u] = memory[u] PROVE Stays
    BY <2>0, <2>A
  <2>1. ASSUME NEW t \in Tasks, CreateTask(t) PROVE Stays
    BY <2>0, <2>1 DEF CreateTask, Goto
  <2>2. ASSUME NEW t \in Tasks, Coroutine(t) PROVE Stays
    <3>1. CASE RecordTask(t)        BY <2>A, <3>1 DEF RecordTask
    <3>2. CASE Validated(t)         BY <2>A, <3>2 DEF Validated
    <3>3. CASE Invalid(t)
      BY <2>A, <2>0, <3>3, SetMemoryFacts DEF Invalid, Goto, TaskStatus
    <3>4. CASE CreateTracker(t)     BY <2>A, <3>4 DEF CreateTracker
    <3>5. CASE RunningInMemory(t)
      BY <2>A, <2>0, <3>5, SetMemoryFacts DEF RunningInMemory, Goto, TaskStatus
    <3>6. CASE ProcessingInMongo(t) BY <2>A, <3>6 DEF ProcessingInMongo
    <3>7. CASE AnalysisReturned(t)  BY <2>A, <3>7 DEF AnalysisReturned
    <3>8. CASE AnalysisRaised(t)
      BY <2>A, <2>0, <3>8, SetMemoryFacts DEF AnalysisRaised, Goto, TaskStatus
    <3>9. CASE SaveResults(t)       BY <2>A, <3>9 DEF SaveResults
    <3>10. CASE CompletedInMemory(t)
      BY <2>0, <3>10 DEF CompletedInMemory, Goto
    <3>11. CASE CompletedInMongo(t) BY <2>A, <3>11 DEF CompletedInMongo
    <3>12. CASE FailedInMongo(t)    BY <2>A, <3>12 DEF FailedInMongo
    <3>13. QED
      BY <2>2, <3>1, <3>2, <3>3, <3>4, <3>5, <3>6, <3>7, <3>8, <3>9, <3>10, <3>11,
         <3>12 DEF Coroutine
  <2>3. ASSUME NEW t \in Tasks, ReportsProgress(t) PROVE Stays
    <3>1. t # u
      BY <2>0, <2>3 DEF ReportsProgress, PoolInv
    <3>2. QED
      BY <2>A, <2>3, <3>1, SetMemoryFacts DEF ReportsProgress, TaskStatus
  <2>4. ASSUME NEW t \in Tasks, ThreadEnds(t) PROVE Stays
    BY <2>A, <2>4 DEF ThreadEnds
  <2>5. ASSUME NEW t \in Tasks, Administration(t) PROVE Stays
    <3>1. CASE MarkFailed(t)
      BY <2>A, <3>1, SetMemoryFacts DEF MarkFailed, TaskStatus, Terminal
    <3>2. CASE MarkFailedInMongo(t)   BY <2>A, <3>2 DEF MarkFailedInMongo
    <3>3. CASE RemoveTask(t)          BY <2>0, <3>3 DEF RemoveTask, NoTask
    <3>4. CASE RemoveTaskFromMongo(t) BY <2>A, <3>4 DEF RemoveTaskFromMongo
    <3>5. QED
      BY <2>5, <3>1, <3>2, <3>3, <3>4 DEF Administration
  <2>6. ASSUME NEW t \in Tasks, Age(t) PROVE Stays
    BY <2>A, <2>6 DEF Age
  <2>7. CASE ThreadStarts
    BY <2>A, <2>7 DEF ThreadStarts
  <2>8. CASE CleanupZombies
    BY <2>A, <2>8, CleanupFacts DEF Terminal
  <2>9. CASE Restart
    BY <2>9 DEF Restart, NoTask
  <2>10. CASE Idle \/ UNCHANGED vars
    BY <2>A, <2>10 DEF Idle, vars
  <2>11. QED
    BY <2>1, <2>2, <2>3, <2>4, <2>5, <2>6, <2>7, <2>8, <2>9, <2>10 DEF Next
<1>2. TypeOK /\ PoolInv /\ [Next]_vars =>
         [\A t \in Tasks : pc[t] = "finished" /\ memory[t].status \in Terminal
                           => memory'[t].status \in Terminal \cup {"absent"}]_vars
  BY <1>1
<1>3. QED
  BY <1>2, TypeCorrect, ThreadsAreAwaited, PTL DEF Spec, NoLateRevival

-----------------------------------------------------------------------------
(* At rest the copies agree.  What the coroutine will write to Mongo next is *)
(* what memory already says (fail_doc, complete_doc), and an administrator   *)
(* who fails a task between the two makes it disturbed.                      *)

RestInv ==
    \A t \in Tasks :
        /\ tracker[t] = "running" =>
              pc[t] \in {"begin", "begin_doc", "prepare", "prepare_doc", "awaiting"}
        /\ pc[t] \in {"new", "lost"} => memory[t] = NoTask
        /\ memory[t] # NoTask /\ t \notin disturbed =>
              /\ pc[t] # "created" => docs[t] # "absent"
              /\ admin[t] = "mark" => pc[t] = "finished" /\ memory[t].status = "failed"
              /\ pc[t] = "fail_doc" => memory[t].status = "failed"
              /\ pc[t] = "complete_doc" => memory[t].status = "completed"
              /\ pc[t] = "finished" =>
                    /\ memory[t].status \in Terminal
                    /\ admin[t] = "none" => docs[t] = memory[t].status

\* On every path through the background task, memory and Mongo end with the
\* same final status and the tracker has stopped, disturbed tasks excepted.
THEOREM CopiesAgree == Spec => []AgreeAtRest
<1>1. Init => RestInv
  BY DEF Init, RestInv
<1>2. TypeOK /\ PoolInv /\ DeleteInv /\ RestInv /\ [Next]_vars => RestInv'
  <2> DEFINE Kept(u) ==
        /\ tracker[u] = "running" =>
              pc[u] \in {"begin", "begin_doc", "prepare", "prepare_doc", "awaiting"}
        /\ pc[u] \in {"new", "lost"} => memory[u] = NoTask
        /\ memory[u] # NoTask /\ u \notin disturbed =>
              /\ pc[u] # "created" => docs[u] # "absent"
              /\ admin[u] = "mark" => pc[u] = "finished" /\ memory[u].status = "failed"
              /\ pc[u] = "fail_doc" => memory[u].status = "failed"
              /\ pc[u] = "complete_doc" => memory[u].status = "completed"
              /\ pc[u] = "finished" =>
                    /\ memory[u].status \in Terminal
                    /\ admin[u] = "none" => docs[u] = memory[u].status
  <2> SUFFICES ASSUME TypeOK, PoolInv, DeleteInv, RestInv, [Next]_vars, NEW u \in Tasks
               PROVE  Kept(u)'
    BY DEF RestInv
  <2>0. /\ Kept(u)
        /\ pc \in [Tasks -> Control]
        /\ docs \in [Tasks -> AnalysisStatus \cup {"absent"}]
        /\ admin \in [Tasks -> {"none", "mark", "delete"}]
        /\ tracker \in [Tasks -> {"none", "running", "completed", "failed"}]
        /\ memory \in [Tasks -> [status: TaskStatus \cup {"absent"}, result: BOOLEAN]]
    BY DEF RestInv, TypeOK
  <2>1. ASSUME NEW t \in Tasks, CreateTask(t) PROVE Kept(u)'
    <3>1. admin[t] = "none"
      BY <2>0, <2>1 DEF CreateTask, Goto, DeleteInv
    <3>2. QED
      BY <2>0, <2>1, <3>1 DEF CreateTask, Goto
  <2>2. ASSUME NEW t \in Tasks, Coroutine(t) PROVE Kept(u)'
    <3>1. CASE RecordTask(t)
      BY <2>0, <3>1 DEF RecordTask, Goto
    <3>2. CASE Validated(t)         BY <2>0, <3>2 DEF Validated, Goto
    <3>3. CASE Invalid(t)
      <4>1. memory'[t] = NoTask \/ memory'[t].status = "failed"
        BY <2>0, <3>3 DEF Invalid, SetMemory
      <4>2. QED
        BY <2>0, <3>3, <4>1, SetMemoryFacts DEF Invalid, Goto, TaskStatus
    <3>4. CASE CreateTracker(t)     BY <2>0, <3>4 DEF CreateTracker, Goto
    <3>5. CASE RunningInMemory(t)
      BY <2>0, <3>5, SetMemoryFacts DEF RunningInMemory, Goto, TaskStatus
    <3>6. CASE ProcessingInMongo(t)
      <4>1. disturbed \subseteq disturbed'
        BY <3>6 DEF ProcessingInMongo, DocWrite
      <4>2. QED
        BY <2>0, <3>6, <4>1, DocWriteFacts DEF ProcessingInMongo, Goto, AnalysisStatus
    <3>7. CASE AnalysisReturned(t)  BY <2>0, <3>7 DEF AnalysisReturned, Goto
    <3>8. CASE AnalysisRaised(t)
      <4>1. memory'[t] = NoTask \/ memory'[t].status = "failed"
        BY <2>0, <3>8 DEF AnalysisRaised, SetMemory
      <4>2. QED
        BY <2>0, <3>8, <4>1, SetMemoryFacts DEF AnalysisRaised, Goto, TaskStatus
    <3>9. CASE SaveResults(t)       BY <2>0, <3>9 DEF SaveResults, Goto
    <3>10. CASE CompletedInMemory(t)
      BY <2>0, <3>10 DEF CompletedInMemory, Goto
    <3>11. CASE CompletedInMongo(t)
      BY <2>0, <3>11 DEF CompletedInMongo, DocWrite, Goto, Terminal
    <3>12. CASE FailedInMongo(t)
      BY <2>0, <3>12 DEF FailedInMongo, DocWrite, Goto, Terminal
    <3>13. QED
      BY <2>2, <3>1, <3>2, <3>3, <3>4, <3>5, <3>6, <3>7, <3>8, <3>9, <3>10, <3>11,
         <3>12 DEF Coroutine
  <2>3. ASSUME NEW t \in Tasks, ReportsProgress(t) PROVE Kept(u)'
    <3>1. pc[t] = "awaiting"
      BY <2>3 DEF ReportsProgress, PoolInv
    <3>2. QED
      BY <2>0, <2>3, <3>1, SetMemoryFacts DEF ReportsProgress, TaskStatus
  <2>4. ASSUME NEW t \in Tasks, ThreadEnds(t) PROVE Kept(u)'
    BY <2>0, <2>4 DEF ThreadEnds
  <2>5. ASSUME NEW t \in Tasks, Administration(t) PROVE Kept(u)'
    <3>1. CASE MarkFailed(t)
      <4>1. memory'[t] = NoTask \/ memory'[t].status = "failed"
        BY <2>0, <3>1 DEF MarkFailed, SetMemory
      <4>2. pc[t] # "finished" => t \in disturbed' \/ memory'[t] = NoTask
        <5>1. pc[t] \notin {"lost", "finished"} => t \in disturbed'
          BY <3>1 DEF MarkFailed, InFlight
        <5>2. pc[t] = "lost" => memory'[t] = NoTask
          BY <2>0, <3>1 DEF MarkFailed, SetMemory, RestInv
        <5>3. QED BY <5>1, <5>2
      <4>3. QED
        BY <2>0, <3>1, <4>1, <4>2, SetMemoryFacts DEF MarkFailed, TaskStatus, Terminal
    <3>2. CASE MarkFailedInMongo(t)
      BY <2>0, <3>2 DEF MarkFailedInMongo, DocWrite, Terminal
    <3>3. CASE RemoveTask(t)          BY <2>0, <3>3 DEF RemoveTask
    <3>4. CASE RemoveTaskFromMongo(t)
      BY <2>0, <3>4 DEF RemoveTaskFromMongo, DeleteInv
    <3>5. QED
      BY <2>5, <3>1, <3>2, <3>3, <3>4 DEF Administration
  <2>6. ASSUME NEW t \in Tasks, Age(t) PROVE Kept(u)'
    BY <2>0, <2>6 DEF Age
  <2>7. CASE ThreadStarts
    BY <2>0, <2>7 DEF ThreadStarts
  <2>8. CASE CleanupZombies
    BY <2>0, <2>8, CleanupFacts DEF CleanupZombies
  <2>9. CASE Restart
    BY <2>0, <2>9 DEF Restart
  <2>10. CASE Idle \/ UNCHANGED vars
    BY <2>0, <2>10 DEF Idle, vars
  <2>11. QED
    BY <2>1, <2>2, <2>3, <2>4, <2>5, <2>6, <2>7, <2>8, <2>9, <2>10 DEF Next
<1>3. RestInv => AgreeAtRest
  BY DEF RestInv, AgreeAtRest
<1>4. QED
  BY <1>1, <1>2, <1>3, TypeCorrect, ThreadsAreAwaited, DeleteInvariant, PTL DEF Spec

=============================================================================
