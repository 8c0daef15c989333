----------------------- MODULE AnalysisQueue_proofs -----------------------
(* Proofs about AnalysisQueue, for every number of tasks, users, clients,  *)
(* workers and cancels, every limit and every number of faults.            *)
EXTENDS AnalysisQueue, FiniteSetTheorems, TLAPS

USE DEF taskHash, slots, ends, keys, redis, clientVars, workerVars, sweepVars,
        cancelVars, faultVars, notClient, notWorker, notSweeper, notCanceller

\* Every control state a process reaches, every status word a command writes
\* and every entry of the ready list is one the readers of them expect, and a
\* process that goes on with a task has one in hand.
THEOREM TypeCorrect == Spec => []TypeOK
<1>1. Init => TypeOK
  BY ConstantsOK DEF Init, TypeOK, HandOK, Status, KeyState
<1>2. TypeOK /\ [Next]_vars => TypeOK'
  <2> SUFFICES ASSUME TypeOK, [Next]_vars PROVE TypeOK'
    OBVIOUS
  <2> USE ConstantsOK DEF TypeOK, HandOK, Status, KeyState, Dequeuing, Acking, Goto, SGoto, KGoto
  <2>1. ASSUME NEW c \in Clients, Client(c) PROVE TypeOK'
    <3>1. CASE CheckUserQuota(c)   BY <3>1 DEF CheckUserQuota
    <3>2. CASE CheckGlobalQuota(c) BY <3>2 DEF CheckGlobalQuota
    <3>3. CASE SaveTask(c)         BY <3>3 DEF SaveTask
    <3>4. CASE PushTask(c)         BY <3>4 DEF PushTask
    <3>5. CASE JoinBatch(c)        BY <3>5 DEF JoinBatch
    <3>6. QED BY <2>1, <3>1, <3>2, <3>3, <3>4, <3>5 DEF Client
  <2>2. ASSUME NEW w \in Workers, WorkerStep(w) PROVE TypeOK'
    <3>1. CASE Pop(w)                BY <3>1 DEF Pop
    <3>2. CASE RecheckUserQuota(w)   BY <3>2 DEF RecheckUserQuota
    <3>3. CASE PushBack(w)           BY <3>3 DEF PushBack
    <3>4. CASE MarkUser(w)           BY <3>4 DEF MarkUser
    <3>5. CASE MarkGlobal(w)         BY <3>5 DEF MarkGlobal
    <3>6. CASE WriteVisibility(w)    BY <3>6 DEF WriteVisibility
    <3>7. CASE ArmVisibility(w)      BY <3>7 DEF ArmVisibility
    <3>8. CASE StartTask(w)          BY <3>8 DEF StartTask
    <3>9. CASE Analyse(w)
      <4>1. Outcomes \subseteq BOOLEAN BY DEF Outcomes
      <4>2. wok' \in [Workers -> BOOLEAN] BY <3>9, <4>1 DEF Analyse
      <4>3. QED BY <3>9, <4>2 DEF Analyse
    <3>10. CASE AckUnmarkUser(w)     BY <3>10 DEF AckUnmarkUser
    <3>11. CASE AckUnmarkGlobal(w)   BY <3>11 DEF AckUnmarkGlobal
    <3>12. CASE AckClearVisibility(w) BY <3>12 DEF AckClearVisibility
    <3>13. CASE AckStatus(w)         BY <3>13 DEF AckStatus
    <3>14. CASE AckSet(w)            BY <3>14 DEF AckSet
    <3>15. QED
      BY <2>2, <3>1, <3>2, <3>3, <3>4, <3>5, <3>6, <3>7, <3>8, <3>9, <3>10,
         <3>11, <3>12, <3>13, <3>14 DEF WorkerStep
  <2>3. ASSUME NEW w \in Workers, RedisError(w) PROVE TypeOK'
    BY <2>3 DEF RedisError, Fault
  <2>4. ASSUME NEW w \in Workers, Crash(w) PROVE TypeOK'
    BY <2>4 DEF Crash, Fault
  <2>5. ASSUME NEW s \in Sweepers, SweepStep(s) PROVE TypeOK'
    <3>1. CASE \E t \in Tasks : CollectExpired(s, t) BY <3>1 DEF CollectExpired
    <3>2. CASE HandleExpired(s)        BY <3>2 DEF HandleExpired
    <3>3. CASE SweepUnmarkUser(s)      BY <3>3 DEF SweepUnmarkUser
    <3>4. CASE SweepUnmarkGlobal(s)    BY <3>4 DEF SweepUnmarkGlobal
    <3>5. CASE SweepClearVisibility(s) BY <3>5 DEF SweepClearVisibility
    <3>6. CASE SweepPush(s)
      <4>1. stask[s] \in Tasks BY <3>6 DEF SweepPush
      <4>2. ready' \in Seq(Tasks) /\ requeued' \subseteq Tasks BY <3>6, <4>1 DEF SweepPush
      <4>3. QED BY <3>6, <4>1, <4>2 DEF SweepPush
    <3>7. CASE SweepStatus(s)          BY <3>7 DEF SweepStatus, LeaveTask
    <3>8. QED BY <2>5, <3>1, <3>2, <3>3, <3>4, <3>5, <3>6, <3>7 DEF SweepStep
  <2>6. ASSUME NEW k \in Cancellers, CancelStep(k) PROVE TypeOK'
    <3>1. CASE CancelRead(k)            BY <3>1 DEF CancelRead
    <3>2. CASE CancelUnmarkUser(k)      BY <3>2 DEF CancelUnmarkUser
    <3>3. CASE CancelUnmarkGlobal(k)    BY <3>3 DEF CancelUnmarkGlobal
    <3>4. CASE CancelClearVisibility(k) BY <3>4 DEF CancelClearVisibility
    <3>5. CASE CancelRemove(k)          BY <3>5 DEF CancelRemove
    <3>6. CASE CancelWrite(k)           BY <3>6 DEF CancelWrite
    <3>7. QED BY <2>6, <3>1, <3>2, <3>3, <3>4, <3>5, <3>6 DEF CancelStep
  <2>7. ASSUME NEW t \in Tasks, ClockStep(t) PROVE TypeOK'
    BY <2>7 DEF ClockStep, TimeoutPasses, KeyExpires
  <2>8. CASE HandlerError
    <3>1. ASSUME NEW c \in Clients, ClientError(c) PROVE TypeOK'
      BY <3>1 DEF ClientError, Fault
    <3>2. ASSUME NEW s \in Sweepers, SweepError(s) PROVE TypeOK'
      <4>1. abandoned' \subseteq Tasks /\ faults' \in 0..MaxFaults
        BY <3>2 DEF SweepError, Fault
      <4>2. CASE spc[s] = "collecting" BY <3>2, <4>1, <4>2 DEF SweepError
      <4>3. CASE spc[s] # "collecting"
        <5>1. /\ stask' = [stask EXCEPT ![s] = Nobody]
              /\ spc' = [spc EXCEPT ![s] = IF expired[s] = {} THEN "collecting"
                                         ELSE "handling"]
              /\ UNCHANGED <<redis, clientVars, workerVars, cancelVars, crashed, expired>>
          BY <3>2, <4>3 DEF SweepError, LeaveTask
        <5>2. QED BY <4>1, <5>1
      <4>4. QED BY <4>2, <4>3
    <3>3. ASSUME NEW k \in Cancellers, CancelError(k) PROVE TypeOK'
      BY <3>3 DEF CancelError, Fault
    <3>4. QED BY <2>8, <3>1, <3>2, <3>3 DEF HandlerError
  <2>9. CASE UNCHANGED vars
    BY <2>9 DEF vars
  <2>10. QED
    BY <2>1, <2>2, <2>3, <2>4, <2>5, <2>6, <2>7, <2>8, <2>9 DEF Next
<1>3. QED BY <1>1, <1>2, PTL DEF Spec

\* A command that raises in a handler or in the cleanup loop ends what it was
\* doing there and nothing else; a task it leaves half way is abandoned.
LEMMA ErrorEnds ==
  ASSUME TypeOK, HandlerError
  PROVE  /\ UNCHANGED <<redis, workerVars, ctask, members, ktask, crashed>>
         /\ abandoned \subseteq abandoned'
         /\ \A c \in Clients :
              \/ cpc'[c] = cpc[c]
              \/ /\ cpc'[c] = "rejected"
                 /\ cpc[c] = "saved" => ctask[c] \in abandoned'
         /\ \A s \in Sweepers :
              /\ expired'[s] \subseteq expired[s]
              /\ \/ stask'[s] = stask[s] /\ spc'[s] = spc[s]
                 \/ /\ stask'[s] = Nobody /\ spc'[s] \in {"collecting", "handling"}
                    /\ spc[s] \notin {"collecting", "handling"}
                    /\ spc[s] = "sweepStatus" \/ stask[s] \in abandoned'
         /\ \A k \in Cancellers :
              \/ kpc'[k] = kpc[k]
              \/ kpc[k] # "start" /\ kpc'[k] = "done" /\ ktask[k] \in abandoned'
<1> USE DEF TypeOK, SGoto, KGoto
<1>1. CASE \E c \in Clients : ClientError(c)
  BY <1>1 DEF ClientError
<1>2. ASSUME NEW s \in Sweepers, SweepError(s)
      PROVE  /\ UNCHANGED <<redis, workerVars, ctask, members, ktask, crashed, cpc, kpc>>
             /\ abandoned \subseteq abandoned'
             /\ \A r \in Sweepers :
                  /\ expired'[r] \subseteq expired[r]
                  /\ \/ stask'[r] = stask[r] /\ spc'[r] = spc[r]
                     \/ /\ stask'[r] = Nobody /\ spc'[r] \in {"collecting", "handling"}
                        /\ spc[r] \notin {"collecting", "handling"}
                        /\ spc[r] = "sweepStatus" \/ stask[r] \in abandoned'
  BY <1>2 DEF SweepError, LeaveTask
<1>3. CASE \E k \in Cancellers : CancelError(k)
  BY <1>3 DEF CancelError
<1>4. QED BY <1>1, <1>2, <1>3 DEF HandlerError

\* Clients, workers, cancels, the clock and the faults of a worker leave the
\* cleanup loops alone, and only a fault abandons a task.
LEMMA SweepersStay ==
  ASSUME \/ \E c \in Clients : Client(c)
         \/ \E w \in Workers : WorkerStep(w)
         \/ \E w \in Workers \ crashed : RedisError(w) \/ Crash(w)
         \/ \E k \in Cancellers : CancelStep(k)
         \/ \E t \in Tasks : ClockStep(t)
         \/ UNCHANGED vars
  PROVE  UNCHANGED <<spc, stask, expired>> /\ abandoned \subseteq abandoned'
<1>1. CASE \E c \in Clients : Client(c)
  BY <1>1 DEF Client, CheckUserQuota, CheckGlobalQuota, SaveTask, PushTask, JoinBatch
<1>2. CASE \E w \in Workers : WorkerStep(w)
  BY <1>2 DEF WorkerStep, Pop, RecheckUserQuota, PushBack, MarkUser, MarkGlobal,
     WriteVisibility, ArmVisibility, StartTask, Analyse, AckUnmarkUser, AckUnmarkGlobal,
     AckClearVisibility, AckStatus, AckSet
<1>3. CASE \E w \in Workers \ crashed : RedisError(w) \/ Crash(w)
  BY <1>3 DEF RedisError, Crash
<1>4. CASE \E k \in Cancellers : CancelStep(k)
  BY <1>4 DEF CancelStep, CancelRead, CancelUnmarkUser, CancelUnmarkGlobal,
     CancelClearVisibility, CancelRemove, CancelWrite
<1>5. CASE \E t \in Tasks : ClockStep(t)
  BY <1>5 DEF ClockStep, TimeoutPasses, KeyExpires
<1>6. CASE UNCHANGED vars BY <1>6 DEF vars
<1>7. QED BY <1>1, <1>2, <1>3, <1>4, <1>5, <1>6

\* What a fault has dropped stays dropped.
LEMMA AbandonedStays ==
  ASSUME TypeOK, [Next]_vars
  PROVE  abandoned \subseteq abandoned'
<1>1. CASE HandlerError BY <1>1, ErrorEnds
<1>2. CASE \E s \in Sweepers : SweepStep(s)
  BY <1>2 DEF SweepStep, CollectExpired, HandleExpired, SweepUnmarkUser,
     SweepUnmarkGlobal, SweepClearVisibility, SweepPush, SweepStatus, LeaveTask
<1>3. CASE ~HandlerError /\ ~\E s \in Sweepers : SweepStep(s)
  BY <1>3, SweepersStay DEF Next
<1>4. QED BY <1>1, <1>2, <1>3

-----------------------------------------------------------------------------
(* The overshoot of the user limit.                                        *)

\* The sets QuotaInv counts are finite.
LEMMA QuotaSetsFinite ==
  ASSUME TypeOK, NEW u
  PROVE  /\ IsFiniteSet(UserProcessing(u)) /\ Cardinality(UserProcessing(u)) \in Nat
         /\ IsFiniteSet(Admitted(u)) /\ Cardinality(Admitted(u)) \in Nat
         /\ Cardinality(Admitted(u)) <= Cardinality(Workers)
         /\ Cardinality(Workers) \in Nat
<1>1. UserProcessing(u) \in SUBSET Tasks BY DEF TypeOK, UserProcessing
<1>2. Admitted(u) \in SUBSET Workers BY DEF Admitted
<1>3. IsFiniteSet(UserProcessing(u)) /\ IsFiniteSet(Admitted(u))
      /\ Cardinality(Admitted(u)) <= Cardinality(Workers)
  BY <1>1, <1>2, FS_Subset, ConstantsOK
<1>4. QED BY <1>3, FS_CardinalityType, ConstantsOK

\* A step that marks no task and lets no worker past the check keeps QuotaInv.
LEMMA QuotaKept ==
  ASSUME TypeOK, TypeOK', QuotaInv, userMarked' \subseteq userMarked,
         \A w \in Workers : wpc'[w] = "admitted" =>
                             wpc[w] = "admitted" /\ wtask'[w] = wtask[w]
  PROVE  QuotaInv'
<1> SUFFICES ASSUME NEW t \in Tasks
             PROVE Cardinality(UserProcessing(Owner[t])') + Cardinality(Admitted(Owner[t])')
                       <= UserLimit + Cardinality(Workers) - 1
  BY DEF QuotaInv
<1> DEFINE u == Owner[t]
<1>1. UserProcessing(u)' \in SUBSET UserProcessing(u) BY DEF UserProcessing
<1>2. Admitted(u)' \in SUBSET Admitted(u) BY DEF Admitted
<1>3. /\ Cardinality(UserProcessing(u)') <= Cardinality(UserProcessing(u))
      /\ Cardinality(Admitted(u)') <= Cardinality(Admitted(u))
  BY <1>1, <1>2, FS_Subset, QuotaSetsFinite
<1>4. Cardinality(UserProcessing(u)') \in Nat /\ Cardinality(Admitted(u)') \in Nat
  BY <1>1, <1>2, FS_Subset, QuotaSetsFinite, FS_CardinalityType
<1>5. Cardinality(UserProcessing(u)) + Cardinality(Admitted(u))
          <= UserLimit + Cardinality(Workers) - 1
  BY DEF QuotaInv
<1>6. QED BY <1>3, <1>4, <1>5, QuotaSetsFinite, ConstantsOK

\* The check admits a worker only below the limit.
LEMMA QuotaCheck ==
  ASSUME TypeOK, TypeOK', QuotaInv, NEW w \in Workers, RecheckUserQuota(w)
  PROVE  QuotaInv'
<1> USE DEF RecheckUserQuota, Goto, redis, slots, taskHash, keys, ends
<1> DEFINE u == Owner[wtask[w]]
<1>1. CASE Cardinality(UserProcessing(u)) < UserLimit
  <2> SUFFICES ASSUME NEW t \in Tasks
               PROVE Cardinality(UserProcessing(Owner[t])') + Cardinality(Admitted(Owner[t])')
                         <= UserLimit + Cardinality(Workers) - 1
    BY DEF QuotaInv
  <2>1. UserProcessing(Owner[t])' = UserProcessing(Owner[t]) BY DEF UserProcessing
  <2>2. Cardinality(Admitted(Owner[t])') \in Nat
        /\ Cardinality(Admitted(Owner[t])') <= Cardinality(Workers)
    <3>1. Admitted(Owner[t])' \in SUBSET Workers BY DEF Admitted
    <3>2. QED BY <3>1, FS_Subset, FS_CardinalityType, ConstantsOK
  <2>3. CASE Owner[t] = u
    BY <1>1, <2>1, <2>2, <2>3, QuotaSetsFinite, ConstantsOK
  <2>4. CASE Owner[t] # u
    <3>1. Admitted(Owner[t])' = Admitted(Owner[t])
      BY <2>4 DEF Admitted, TypeOK
    <3>2. QED BY <2>1, <3>1 DEF QuotaInv
  <2>5. QED BY <2>3, <2>4
<1>2. CASE ~(Cardinality(UserProcessing(u)) < UserLimit)
  <2>1. userMarked' \subseteq userMarked OBVIOUS
  <2>2. \A v \in Workers : wpc'[v] = "admitted" =>
                            wpc[v] = "admitted" /\ wtask'[v] = wtask[v]
    BY <1>2 DEF TypeOK
  <2>3. QED BY <2>1, <2>2, QuotaKept
<1>3. QED BY <1>1, <1>2

\* The mark turns one admitted worker of the user into one marked task.
LEMMA QuotaMark ==
  ASSUME TypeOK, TypeOK', QuotaInv, NEW w \in Workers, MarkUser(w)
  PROVE  QuotaInv'
<1> SUFFICES ASSUME NEW t \in Tasks
             PROVE Cardinality(UserProcessing(Owner[t])') + Cardinality(Admitted(Owner[t])')
                       <= UserLimit + Cardinality(Workers) - 1
  BY DEF QuotaInv
<1> USE DEF MarkUser, Goto
<1> DEFINE u == Owner[t]
<1>1. Cardinality(UserProcessing(u)) + Cardinality(Admitted(u))
          <= UserLimit + Cardinality(Workers) - 1
  BY DEF QuotaInv
<1>2. CASE Owner[wtask[w]] = u
  <2>1. UserProcessing(u)' = UserProcessing(u) \cup {wtask[w]}
    BY <1>2 DEF UserProcessing
  <2>2. Admitted(u)' = Admitted(u) \ {w} /\ w \in Admitted(u)
    BY <1>2 DEF Admitted, TypeOK
  <2>3. Cardinality(UserProcessing(u)') <= Cardinality(UserProcessing(u)) + 1
        /\ Cardinality(UserProcessing(u)') \in Nat
    <3>1. IsFiniteSet(UserProcessing(u)) /\ Cardinality(UserProcessing(u)) \in Nat
      BY QuotaSetsFinite
    <3>2. Cardinality(UserProcessing(u) \cup {wtask[w]}) =
             IF wtask[w] \in UserProcessing(u) THEN Cardinality(UserProcessing(u))
                                               ELSE Cardinality(UserProcessing(u)) + 1
      BY <3>1, FS_AddElement
    <3>3. QED BY <2>1, <3>1, <3>2
  <2>4. Cardinality(Admitted(u)') = Cardinality(Admitted(u)) - 1
    BY <2>2, FS_RemoveElement, QuotaSetsFinite
  <2>5. QED BY <1>1, <2>3, <2>4, QuotaSetsFinite, ConstantsOK
<1>3. CASE Owner[wtask[w]] # u
  <2>1. UserProcessing(u)' = UserProcessing(u) BY <1>3 DEF UserProcessing
  <2>2. Admitted(u)' = Admitted(u) BY <1>3 DEF Admitted, TypeOK
  <2>3. QED BY <1>1, <2>1, <2>2
<1>4. QED BY <1>2, <1>3

\* QuotaInv together with the type invariant is inductive: only the check and
\* the mark move its two counts up, and each is paid for.
THEOREM QuotaInvariant == Spec => []QuotaInv
<1>1. Init => QuotaInv
  <2> SUFFICES ASSUME Init, NEW t \in Tasks
               PROVE Cardinality(UserProcessing(Owner[t])) + Cardinality(Admitted(Owner[t]))
                         <= UserLimit + Cardinality(Workers) - 1
    BY DEF QuotaInv
  <2>1. UserProcessing(Owner[t]) = {} BY DEF Init, UserProcessing
  <2>2. Admitted(Owner[t]) = {} BY DEF Init, Admitted
  <2>3. Cardinality(Workers) \in Nat BY FS_CardinalityType, ConstantsOK
  <2>4. QED BY <2>1, <2>2, <2>3, FS_EmptySet, ConstantsOK
<1>2. TypeOK /\ TypeOK' /\ QuotaInv /\ [Next]_vars => QuotaInv'
  <2> SUFFICES ASSUME TypeOK, TypeOK', QuotaInv, [Next]_vars PROVE QuotaInv'
    OBVIOUS
  <2>1. ASSUME NEW w \in Workers, WorkerStep(w) PROVE QuotaInv'
    <3>1. CASE RecheckUserQuota(w) BY <3>1, QuotaCheck
    <3>2. CASE MarkUser(w) BY <3>2, QuotaMark
    <3>3. CASE ~RecheckUserQuota(w) /\ ~MarkUser(w)
      <4>1. userMarked' \subseteq userMarked
        BY <2>1, <3>3 DEF WorkerStep, Pop, PushBack, MarkGlobal, WriteVisibility,
           ArmVisibility, StartTask, Analyse, AckUnmarkUser, AckUnmarkGlobal,
           AckClearVisibility, AckStatus, AckSet
      <4>2. \A v \in Workers : wpc'[v] = "admitted" =>
                                wpc[v] = "admitted" /\ wtask'[v] = wtask[v]
        BY <2>1, <3>3 DEF TypeOK, Goto, WorkerStep, Pop, PushBack, MarkGlobal,
           WriteVisibility, ArmVisibility, StartTask, Analyse, AckUnmarkUser,
           AckUnmarkGlobal, AckClearVisibility, AckStatus, AckSet
      <4>3. QED BY <4>1, <4>2, QuotaKept
    <3>4. QED BY <3>1, <3>2, <3>3
  <2>2. ASSUME NEW w \in Workers, RedisError(w) \/ Crash(w) PROVE QuotaInv'
    <3>1. userMarked' \subseteq userMarked BY <2>2 DEF RedisError, Crash
    <3>2. \A v \in Workers : wpc'[v] = "admitted" =>
                              wpc[v] = "admitted" /\ wtask'[v] = wtask[v]
      BY <2>2 DEF RedisError, Crash, Goto, TypeOK
    <3>3. QED BY <3>1, <3>2, QuotaKept
  <2>3. CASE \/ \E c \in Clients : Client(c)
             \/ \E s \in Sweepers : SweepStep(s)
             \/ \E k \in Cancellers : CancelStep(k)
             \/ \E t \in Tasks : ClockStep(t)
             \/ HandlerError
             \/ UNCHANGED vars
    <3>1. userMarked' \subseteq userMarked /\ wpc' = wpc /\ wtask' = wtask
      <4>1. CASE \E c \in Clients : Client(c)
        BY <4>1 DEF Client, CheckUserQuota, CheckGlobalQuota, SaveTask, PushTask, JoinBatch
      <4>2. CASE \E s \in Sweepers : SweepStep(s)
        BY <4>2 DEF SweepStep, CollectExpired, HandleExpired, SweepUnmarkUser,
           SweepUnmarkGlobal, SweepClearVisibility, SweepPush, SweepStatus, LeaveTask
      <4>3. CASE \E k \in Cancellers : CancelStep(k)
        BY <4>3 DEF CancelStep, CancelRead, CancelUnmarkUser, CancelUnmarkGlobal,
           CancelClearVisibility, CancelRemove, CancelWrite
      <4>4. CASE \E t \in Tasks : ClockStep(t)
        BY <4>4 DEF ClockStep, TimeoutPasses, KeyExpires
      <4>5. CASE HandlerError BY <4>5, ErrorEnds
      <4>6. CASE UNCHANGED vars BY <4>6 DEF vars
      <4>7. QED BY <2>3, <4>1, <4>2, <4>3, <4>4, <4>5, <4>6
    <3>2. QED BY <3>1, QuotaKept
  <2>4. QED BY <2>1, <2>2, <2>3 DEF Next
<1>3. QED BY <1>1, <1>2, TypeCorrect, PTL DEF Spec

\* However the workers interleave, and whatever faults leave behind, a user
\* never has more tasks in processing than the limit plus one for each worker
\* but one.
THEOREM UserOvershoot == Spec => []UserOvershootBounded
<1>1. TypeOK /\ QuotaInv => UserOvershootBounded
  <2> SUFFICES ASSUME TypeOK, QuotaInv, NEW t \in Tasks
               PROVE Cardinality(UserProcessing(Owner[t])) <= UserLimit + Cardinality(Workers) - 1
    BY DEF UserOvershootBounded
  <2>1. QED BY QuotaSetsFinite, ConstantsOK DEF QuotaInv
<1>2. QED BY <1>1, TypeCorrect, QuotaInvariant, PTL

-----------------------------------------------------------------------------
(* Where a task is: in the list, in a process's hands, or nowhere.         *)

\* A process between two tasks has none in hand; the cleanup loop has requeued the
\* one whose status it is about to write.
IdleHands ==
    /\ \A w \in Workers : wpc[w] = "idle" => wtask[w] = Nobody
    /\ \A s \in Sweepers : spc[s] \in {"collecting", "handling"} => stask[s] = Nobody
    /\ \A s \in Sweepers : spc[s] = "sweepStatus" => stask[s] \in requeued
    /\ \A k \in Cancellers : kpc[k] = "start" => ktask[k] = Nobody

LEMMA HandsStep ==
  ASSUME TypeOK, IdleHands, [Next]_vars
  PROVE  IdleHands'
<1> USE DEF TypeOK, IdleHands, Goto, SGoto, KGoto
<1>1. ASSUME NEW c \in Clients, Client(c) PROVE IdleHands'
  BY <1>1 DEF Client, CheckUserQuota, CheckGlobalQuota, SaveTask, PushTask, JoinBatch
<1>2. ASSUME NEW w \in Workers, WorkerStep(w) PROVE IdleHands'
  <2>1. CASE Pop(w) \/ RecheckUserQuota(w) \/ PushBack(w) \/ MarkUser(w) \/ MarkGlobal(w)
    BY <2>1 DEF Pop, RecheckUserQuota, PushBack, MarkUser, MarkGlobal
  <2>2. CASE WriteVisibility(w) \/ ArmVisibility(w) \/ StartTask(w) \/ Analyse(w)
    BY <2>2 DEF WriteVisibility, ArmVisibility, StartTask, Analyse
  <2>3. CASE AckUnmarkUser(w) \/ AckUnmarkGlobal(w) \/ AckClearVisibility(w)
    BY <2>3 DEF AckUnmarkUser, AckUnmarkGlobal, AckClearVisibility
  <2>4. CASE AckStatus(w) \/ AckSet(w)
    BY <2>4 DEF AckStatus, AckSet
  <2>5. QED BY <1>2, <2>1, <2>2, <2>3, <2>4 DEF WorkerStep
<1>3. ASSUME NEW w \in Workers, RedisError(w) \/ Crash(w) PROVE IdleHands'
  BY <1>3 DEF RedisError, Crash
<1>4. ASSUME NEW s \in Sweepers, SweepStep(s) PROVE IdleHands'
  <2>1. CASE SweepPush(s)
    BY <2>1 DEF SweepPush
  <2>2. CASE HandleExpired(s) \/ SweepStatus(s)
    BY <2>2 DEF HandleExpired, SweepStatus, LeaveTask
  <2>3. CASE ~SweepPush(s) /\ ~HandleExpired(s) /\ ~SweepStatus(s)
    BY <1>4, <2>3 DEF SweepStep, CollectExpired, SweepUnmarkUser, SweepUnmarkGlobal,
       SweepClearVisibility
  <2>4. QED BY <2>1, <2>2, <2>3
<1>5. ASSUME NEW k \in Cancellers, CancelStep(k) PROVE IdleHands'
  <2>1. CASE CancelRemove(k)
    <3>1. /\ kpc' = [kpc EXCEPT ![k] = "write"]
          /\ UNCHANGED <<ktask, wpc, wtask, spc, stask, requeued>>
      BY <2>1 DEF CancelRemove
    <3>2. QED BY <3>1
  <2>2. CASE ~CancelRemove(k)
    BY <1>5, <2>2 DEF CancelStep, CancelRead, CancelUnmarkUser, CancelUnmarkGlobal,
       CancelClearVisibility, CancelWrite
  <2>3. QED BY <2>1, <2>2
<1>6. ASSUME NEW t \in Tasks, ClockStep(t) PROVE IdleHands'
  BY <1>6 DEF ClockStep, TimeoutPasses, KeyExpires
<1>7. CASE HandlerError
  BY <1>7, ErrorEnds
<1>8. CASE UNCHANGED vars
  BY <1>8 DEF vars
<1>9. QED BY <1>1, <1>2, <1>3, <1>4, <1>5, <1>6, <1>7, <1>8 DEF Next

LEMMA HandsIdle == Spec => []IdleHands
<1>1. Init => IdleHands BY DEF Init, IdleHands
<1>2. QED BY <1>1, HandsStep, TypeCorrect, PTL DEF Spec

\* No entry of the list names t twice.
Once(t) == \A i, j \in 1..Len(ready) : ready[i] = t /\ ready[j] = t => i = j

\* What the commands on the list do to its entries.
LEMMA ReadyKept ==
  ASSUME ready' = ready
  PROVE  \A t : (InReady(t)' <=> InReady(t)) /\ (Once(t) => Once(t)')
BY DEF InReady, Once

LEMMA ReadyPushed ==
  ASSUME ready \in Seq(Tasks), NEW t \in Tasks, ready' = Append(ready, t)
  PROVE  /\ \A u : InReady(u)' <=> InReady(u) \/ u = t
         /\ \A u : Once(u) /\ (u = t => ~InReady(t)) => Once(u)'
<1>1. /\ Len(ready) \in Nat /\ Len(ready') = Len(ready) + 1
      /\ ready'[Len(ready) + 1] = t
      /\ \A i \in 1..Len(ready) : ready'[i] = ready[i]
  OBVIOUS
<1>2. QED BY <1>1 DEF InReady, Once

LEMMA ReadyPopped ==
  ASSUME ready \in Seq(Tasks), ready # <<>>, ready' = Tail(ready)
  PROVE  /\ Head(ready) \in Tasks /\ InReady(Head(ready))
         /\ \A u : InReady(u)' => InReady(u)
         /\ \A u : InReady(u) => InReady(u)' \/ u = Head(ready)
         /\ \A u : Once(u) => Once(u)' /\ (u = Head(ready) => ~InReady(u)')
<1>1. /\ Len(ready) \in Nat \ {0} /\ Len(ready') = Len(ready) - 1
      /\ Head(ready) = ready[1] /\ Head(ready) \in Tasks
      /\ \A i \in 1..Len(ready') : ready'[i] = ready[i + 1]
  OBVIOUS
<1>2. \A u : InReady(u) => InReady(u)' \/ u = Head(ready)
  <2>1. \A i \in 1..Len(ready) :
            i = 1 \/ (i - 1 \in 1..Len(ready') /\ ready'[i - 1] = ready[i])
    BY <1>1
  <2>2. \A i \in 1..Len(ready) : i = 1 \/ \E j \in 1..Len(ready') : ready'[j] = ready[i]
    BY <2>1
  <2>3. QED BY <1>1, <2>2 DEF InReady
<1>3. QED BY <1>1, <1>2 DEF InReady, Once

\* LREM takes the entries of one task and keeps the order of the others.
LEMMA ReadyRemoved ==
  ASSUME TypeOK, NEW k \in Cancellers, CancelRemove(k)
  PROVE  /\ \A u : InReady(u)' => InReady(u)
         /\ \A u : InReady(u) => InReady(u)' \/ u = ktask[k]
         /\ \A u : Once(u) => Once(u)'
<1>1. PICK n \in 0..Len(ready) : \E f \in [1..n -> 1..Len(ready)] :
          /\ \A i, j \in 1..n : i < j => f[i] < f[j]
          /\ \A i \in 1..Len(ready) :
                ready[i] # ktask[k] <=> \E j \in 1..n : f[j] = i
          /\ ready' = [j \in 1..n |-> ready[f[j]]]
  BY DEF CancelRemove
<1>2. PICK f \in [1..n -> 1..Len(ready)] :
          /\ \A i, j \in 1..n : i < j => f[i] < f[j]
          /\ \A i \in 1..Len(ready) :
                ready[i] # ktask[k] <=> \E j \in 1..n : f[j] = i
          /\ ready' = [j \in 1..n |-> ready[f[j]]]
  BY <1>1
<1>3. n \in Nat /\ Len(ready') = n /\ \A j \in 1..n : ready'[j] = ready[f[j]]
  BY <1>2 DEF TypeOK
<1>4. \A i, j \in 1..n : f[i] = f[j] => i = j
  BY <1>2 DEF TypeOK
<1>5. \A u : InReady(u) => InReady(u)' \/ u = ktask[k]
  BY <1>2, <1>3 DEF InReady
<1>6. \A u : InReady(u)' => InReady(u)
  BY <1>3 DEF InReady
<1>7. \A u : Once(u) => Once(u)'
  <2> SUFFICES ASSUME NEW u, Once(u), NEW i \in 1..n, NEW j \in 1..n,
                      ready'[i] = u, ready'[j] = u
               PROVE  i = j
    BY <1>3 DEF Once
  <2>1. f[i] \in 1..Len(ready) /\ f[j] \in 1..Len(ready) OBVIOUS
  <2>2. ready[f[i]] = u /\ ready[f[j]] = u BY <1>3
  <2>3. f[i] = f[j] BY <2>1, <2>2 DEF Once
  <2>4. QED BY <1>4, <2>3
<1>8. QED BY <1>5, <1>6, <1>7

\* Nobody has heard of t yet.
Unknown(t) ==
    /\ ~InReady(t) /\ key[t] = "absent"
    /\ \A c \in Clients : cpc[c] = "saved" => ctask[c] # t
    /\ \A w \in Workers : wtask[w] # t
    /\ \A s \in Sweepers : stask[s] # t /\ t \notin expired[s]
    /\ \A k \in Cancellers : ktask[k] # t

\* A task that has not been saved is unknown, and no two clients save the same.
KnownInv ==
    /\ \A t \in Tasks : status[t] = "none" => Unknown(t)
    /\ \A c \in Clients :
         /\ cpc[c] \in {"userOk", "allOk", "saved"} => ctask[c] \in Wanted[c]
         /\ cpc[c] \in {"userOk", "allOk"} => status[ctask[c]] = "none"

\* A step that saves no task and takes up only tasks that are known.
LEMMA KnownKept ==
  ASSUME KnownInv, ctask' = ctask,
         \A c \in Clients : cpc'[c] \in {cpc[c], "rejected"},
         \A t \in Tasks : status[t] # "none" <=> status'[t] # "none",
         \A t \in Tasks : status[t] = "none" =>
            /\ InReady(t)' => InReady(t)
            /\ key'[t] = "absent"
            /\ \A w \in Workers : wtask'[w] # t
            /\ \A s \in Sweepers : stask'[s] # t /\ t \notin expired'[s]
            /\ \A k \in Cancellers : ktask'[k] # t,
         \A c \in Clients : cpc[c] \in {"userOk", "allOk"} => ctask[c] \in Tasks
  PROVE  KnownInv'
BY DEF KnownInv, Unknown

LEMMA KnownStep ==
  ASSUME TypeOK, TypeOK', IdleHands, KnownInv, [Next]_vars
  PROVE  KnownInv'
<1> USE ConstantsOK DEF TypeOK, Goto, SGoto, KGoto
<1>0. \A c \in Clients : cpc[c] \in {"userOk", "allOk", "saved"} => ctask[c] \in Tasks
  BY DEF HandOK
<1>1. ASSUME NEW c \in Clients, Client(c) PROVE KnownInv'
  <2>1. CASE SaveTask(c)
    <3>1. /\ cpc[c] = "allOk" /\ ctask[c] \in Tasks
          /\ status' = [status EXCEPT ![ctask[c]] = "queued"]
          /\ cpc' = [cpc EXCEPT ![c] = "saved"]
          /\ UNCHANGED <<ready, key, ctask, wtask, stask, expired, ktask>>
      BY <1>0, <2>1 DEF SaveTask
    <3>2. \A d \in Clients : cpc[d] \in {"userOk", "allOk"} /\ ctask[d] = ctask[c] => d = c
      BY <3>1 DEF KnownInv
    <3>3. \A t \in Tasks : status'[t] = "none" => status[t] = "none" /\ t # ctask[c]
      BY <3>1
    <3>4. QED BY <1>0, <3>1, <3>2, <3>3, ReadyKept DEF KnownInv, Unknown
  <2>2. CASE PushTask(c)
    <3>1. /\ cpc[c] = "saved" /\ ctask[c] \in Tasks
          /\ ready' = Append(ready, ctask[c])
          /\ cpc' = [cpc EXCEPT ![c] = IF c \in Batches THEN "pushed" ELSE "next"]
          /\ UNCHANGED <<status, key, ctask, wtask, stask, expired, ktask>>
      BY <1>0, <2>2 DEF PushTask
    <3>2. \A u : InReady(u)' <=> InReady(u) \/ u = ctask[c]
      BY <3>1, ReadyPushed
    <3>3. QED BY <1>0, <3>1, <3>2 DEF KnownInv, Unknown
  <2>3. CASE CheckUserQuota(c) \/ CheckGlobalQuota(c) \/ JoinBatch(c)
    <3>1. /\ \A d \in Clients \ {c} : cpc'[d] = cpc[d] /\ ctask'[d] = ctask[d]
          /\ cpc'[c] # "saved"
          /\ cpc'[c] \in {"userOk", "allOk"} =>
                ctask'[c] \in Wanted[c] /\ status[ctask'[c]] = "none"
          /\ UNCHANGED <<status, ready, key, wtask, stask, expired, ktask>>
      BY <2>3 DEF CheckUserQuota, CheckGlobalQuota, JoinBatch, KnownInv
    <3>2. \A t \in Tasks : status'[t] = "none" => Unknown(t)'
      BY <3>1, ReadyKept DEF KnownInv, Unknown
    <3>3. ASSUME NEW d \in Clients
          PROVE  /\ cpc'[d] \in {"userOk", "allOk", "saved"} => ctask'[d] \in Wanted[d]
                 /\ cpc'[d] \in {"userOk", "allOk"} => status'[ctask'[d]] = "none"
      BY <3>1 DEF KnownInv
    <3>4. QED BY <3>2, <3>3 DEF KnownInv
  <2>4. QED BY <1>1, <2>1, <2>2, <2>3 DEF Client
<1>2. ASSUME NEW w \in Workers, WorkerStep(w) PROVE KnownInv'
  <2>0. wpc[w] # "idle" => wtask[w] \in Tasks /\ status[wtask[w]] # "none"
    BY DEF HandOK, KnownInv, Unknown
  <2>1. CASE Pop(w)
    <3>1. /\ ready # <<>> /\ ready' = Tail(ready)
          /\ wtask' = [wtask EXCEPT ![w] = Head(ready)]
          /\ UNCHANGED <<status, cpc, ctask, key, stask, expired, ktask>>
      BY <2>1 DEF Pop
    <3>2. /\ InReady(Head(ready)) /\ \A u : InReady(u)' => InReady(u)
      BY <3>1, ReadyPopped
    <3>3. QED BY <1>0, <3>1, <3>2, KnownKept DEF KnownInv, Unknown
  <2>2. CASE PushBack(w)
    <3>1. /\ wpc[w] # "idle" /\ ready' = Append(ready, wtask[w])
          /\ wtask' = [wtask EXCEPT ![w] = Nobody]
          /\ UNCHANGED <<status, cpc, ctask, key, stask, expired, ktask>>
      BY <2>2 DEF PushBack
    <3>2. \A u : InReady(u)' <=> InReady(u) \/ u = wtask[w]
      BY <2>0, <3>1, ReadyPushed
    <3>3. QED BY <1>0, <2>0, <3>1, <3>2, KnownKept DEF KnownInv, Unknown
  <2>3. CASE AckSet(w)
    <3>1. /\ wtask' = [wtask EXCEPT ![w] = Nobody]
          /\ UNCHANGED <<status, cpc, ctask, ready, key, stask, expired, ktask>>
      BY <2>3 DEF AckSet
    <3>2. QED BY <1>0, <3>1, ReadyKept, KnownKept DEF KnownInv, Unknown
  <2>4. CASE ~Pop(w) /\ ~PushBack(w) /\ ~AckSet(w)
    <3>1. /\ wpc[w] # "idle"
          /\ \A t \in Tasks \ {wtask[w]} : status'[t] = status[t] /\ key'[t] = key[t]
          /\ status'[wtask[w]] # "none"
          /\ UNCHANGED <<cpc, ctask, ready, wtask, stask, expired, ktask>>
      <4>1. CASE WriteVisibility(w)    BY <2>0, <4>1 DEF WriteVisibility
      <4>2. CASE ArmVisibility(w)      BY <2>0, <4>2 DEF ArmVisibility
      <4>3. CASE AckClearVisibility(w) BY <2>0, <4>3 DEF AckClearVisibility
      <4>4. CASE StartTask(w) \/ AckStatus(w)
        BY <2>0, <4>4 DEF StartTask, AckStatus
      <4>5. CASE RecheckUserQuota(w) \/ MarkUser(w) \/ MarkGlobal(w) \/ Analyse(w)
                 \/ AckUnmarkUser(w) \/ AckUnmarkGlobal(w)
        BY <2>0, <4>5 DEF RecheckUserQuota, MarkUser, MarkGlobal, Analyse,
           AckUnmarkUser, AckUnmarkGlobal
      <4>6. QED BY <1>2, <2>4, <4>1, <4>2, <4>3, <4>4, <4>5 DEF WorkerStep
    <3>2. QED BY <1>0, <2>0, <3>1, ReadyKept, KnownKept DEF KnownInv, Unknown
  <2>5. QED BY <2>1, <2>2, <2>3, <2>4
<1>3. ASSUME NEW w \in Workers, RedisError(w) \/ Crash(w) PROVE KnownInv'
  <2>1. /\ \A v \in Workers : wtask'[v] \in {wtask[v], Nobody}
        /\ UNCHANGED <<status, cpc, ctask, ready, key, stask, expired, ktask>>
    BY <1>3 DEF RedisError, Crash
  <2>2. QED BY <1>0, <2>1, ReadyKept, KnownKept DEF KnownInv, Unknown
<1>4. ASSUME NEW s \in Sweepers, SweepStep(s) PROVE KnownInv'
  <2>0. spc[s] \notin {"collecting", "handling"} =>
           stask[s] \in Tasks /\ status[stask[s]] # "none"
    BY DEF HandOK, KnownInv, Unknown
  <2>1. CASE \E t \in Tasks : CollectExpired(s, t)
    <3>1. PICK t \in Tasks : CollectExpired(s, t) BY <2>1
    <3>2. /\ key[t] # "absent" /\ expired' = [expired EXCEPT ![s] = @ \cup {t}]
          /\ UNCHANGED <<status, cpc, ctask, ready, key, wtask, stask, ktask>>
      BY <3>1 DEF CollectExpired
    <3>3. QED BY <1>0, <3>2, ReadyKept, KnownKept DEF KnownInv, Unknown
  <2>2. CASE HandleExpired(s)
    <3>1. PICK t \in expired[s] : /\ stask' = [stask EXCEPT ![s] = t]
                                  /\ expired' = [expired EXCEPT ![s] = @ \ {t}]
      BY <2>2 DEF HandleExpired
    <3>2. UNCHANGED <<status, cpc, ctask, ready, key, wtask, ktask>>
      BY <2>2 DEF HandleExpired
    <3>3. QED BY <1>0, <3>1, <3>2, ReadyKept, KnownKept DEF KnownInv, Unknown
  <2>3. CASE SweepPush(s)
    <3>1. /\ spc[s] = "sweepPush" /\ ready' = Append(ready, stask[s])
          /\ UNCHANGED <<status, cpc, ctask, key, wtask, stask, expired, ktask>>
      BY <2>3 DEF SweepPush
    <3>2. \A u : InReady(u)' <=> InReady(u) \/ u = stask[s]
      BY <2>0, <3>1, ReadyPushed
    <3>3. QED BY <1>0, <2>0, <3>1, <3>2, KnownKept DEF KnownInv, Unknown
  <2>4. CASE SweepUnmarkUser(s) \/ SweepUnmarkGlobal(s) \/ SweepClearVisibility(s)
             \/ SweepStatus(s)
    <3>1. /\ spc[s] \notin {"collecting", "handling"}
          /\ \A t \in Tasks \ {stask[s]} : status'[t] = status[t]
          /\ status'[stask[s]] # "none"
          /\ \A t \in Tasks : key'[t] \in {key[t], "absent"}
          /\ \A r \in Sweepers : stask'[r] \in {stask[r], Nobody}
          /\ UNCHANGED <<cpc, ctask, ready, wtask, expired, ktask>>
      BY <2>0, <2>4 DEF SweepUnmarkUser, SweepUnmarkGlobal, SweepClearVisibility, SweepStatus,
         LeaveTask
    <3>2. QED BY <1>0, <2>0, <3>1, ReadyKept, KnownKept DEF KnownInv, Unknown
  <2>5. QED BY <1>4, <2>1, <2>2, <2>3, <2>4 DEF SweepStep
<1>5. ASSUME NEW k \in Cancellers, CancelStep(k) PROVE KnownInv'
  <2>1. CASE CancelRead(k)
    <3>1. PICK t \in Tasks : status[t] # "none" /\ ktask' = [ktask EXCEPT ![k] = t]
      BY <2>1 DEF CancelRead
    <3>2. UNCHANGED <<status, cpc, ctask, ready, key, wtask, stask, expired>>
      BY <2>1 DEF CancelRead
    <3>3. QED BY <1>0, <3>1, <3>2, ReadyKept, KnownKept DEF KnownInv, Unknown
  <2>2. CASE CancelRemove(k)
    <3>1. UNCHANGED <<status, cpc, ctask, key, wtask, stask, expired, ktask>>
      BY <2>2 DEF CancelRemove
    <3>2. \A u : InReady(u)' => InReady(u) BY <2>2, ReadyRemoved
    <3>3. QED BY <1>0, <3>1, <3>2, KnownKept DEF KnownInv, Unknown
  <2>3. CASE CancelUnmarkUser(k) \/ CancelUnmarkGlobal(k) \/ CancelClearVisibility(k)
             \/ CancelWrite(k)
    <3>0. kpc[k] # "start" => ktask[k] \in Tasks /\ status[ktask[k]] # "none"
      BY DEF HandOK, KnownInv, Unknown
    <3>1. /\ kpc[k] # "start"
          /\ \A t \in Tasks \ {ktask[k]} : status'[t] = status[t]
          /\ status'[ktask[k]] # "none"
          /\ \A t \in Tasks : key'[t] \in {key[t], "absent"}
          /\ UNCHANGED <<cpc, ctask, ready, wtask, stask, expired, ktask>>
      BY <2>3, <3>0 DEF CancelUnmarkUser, CancelUnmarkGlobal, CancelClearVisibility, CancelWrite
    <3>2. QED BY <1>0, <3>0, <3>1, ReadyKept, KnownKept DEF KnownInv, Unknown
  <2>4. QED BY <1>5, <2>1, <2>2, <2>3 DEF CancelStep
<1>6. ASSUME NEW t \in Tasks, ClockStep(t) PROVE KnownInv'
  <2>1. /\ \A u \in Tasks : key'[u] \in {key[u], "absent"}
        /\ UNCHANGED <<status, cpc, ctask, ready, wtask, stask, expired, ktask>>
    BY <1>6 DEF ClockStep, TimeoutPasses, KeyExpires
  <2>2. QED BY <1>0, <2>1, ReadyKept, KnownKept DEF KnownInv, Unknown
<1>7. CASE HandlerError
  <2>1. /\ UNCHANGED <<status, ctask, ready, key, wtask, ktask>>
        /\ \A c \in Clients : cpc'[c] \in {cpc[c], "rejected"}
        /\ \A s \in Sweepers : /\ stask'[s] \in {stask[s], Nobody}
                               /\ expired'[s] \subseteq expired[s]
    BY <1>7, ErrorEnds
  <2>2. QED BY <1>0, <2>1, ReadyKept, KnownKept DEF KnownInv, Unknown
<1>8. CASE UNCHANGED vars
  BY <1>0, <1>8, ReadyKept, KnownKept DEF vars, KnownInv, Unknown
<1>9. QED BY <1>1, <1>2, <1>3, <1>4, <1>5, <1>6, <1>7, <1>8 DEF Next

LEMMA TasksKnown == Spec => []KnownInv
<1>1. Init => KnownInv
  <2>1. Init => \A t \in Tasks : ~InReady(t) BY DEF Init, InReady
  <2>2. QED BY <2>1, ConstantsOK DEF Init, KnownInv, Unknown
<1>2. QED BY <1>1, KnownStep, HandsIdle, TypeCorrect, PTL DEF Spec

-----------------------------------------------------------------------------
(* A task the cleanup loop left alone is delivered once.                   *)

\* A requeue and a cancel, once under way, stay on record; a cancel that fails
\* abandons its task.
LEMMA RecordsStay ==
  ASSUME TypeOK, IdleHands, [Next]_vars, NEW t \in Tasks
  PROVE  /\ Requeued(t) => Requeued(t)'
         /\ Cancelled(t) => Cancelled(t)' \/ t \in abandoned'
<1> USE ConstantsOK DEF TypeOK, IdleHands, Requeued, Cancelled, KGoto
<1>1. CASE requeued \subseteq requeued' /\ UNCHANGED <<cancelledAt, ktask, kpc>>
  BY <1>1
<1>2. CASE \E s \in Sweepers : SweepStep(s)
  BY <1>1, <1>2 DEF SweepStep, CollectExpired, HandleExpired, SweepUnmarkUser,
     SweepUnmarkGlobal, SweepClearVisibility, SweepPush, SweepStatus, LeaveTask
<1>3. ASSUME NEW k \in Cancellers, CancelStep(k)
      PROVE  /\ requeued' = requeued
             /\ Cancelled(t) => Cancelled(t)'
  <2>1. CASE CancelWrite(k) BY <2>1 DEF CancelWrite
  <2>2. CASE CancelRemove(k)
    <3>1. /\ kpc' = [kpc EXCEPT ![k] = "write"]
          /\ UNCHANGED <<requeued, cancelledAt, ktask>>
      BY <2>2 DEF CancelRemove
    <3>2. QED BY <3>1
  <2>3. CASE CancelRead(k) \/ CancelUnmarkUser(k) \/ CancelUnmarkGlobal(k)
             \/ CancelClearVisibility(k)
    <3>1. /\ kpc[k] = "start" \/ ktask'[k] = ktask[k]
          /\ kpc'[k] # "done"
          /\ \A j \in Cancellers \ {k} : ktask'[j] = ktask[j] /\ kpc'[j] = kpc[j]
          /\ UNCHANGED <<requeued, cancelledAt>>
      BY <2>3 DEF CancelRead, CancelUnmarkUser, CancelUnmarkGlobal, CancelClearVisibility
    <3>2. kpc[k] = "start" => ktask[k] # t OBVIOUS
    <3>3. \A j \in Cancellers : ktask[j] = t /\ kpc[j] # "done" =>
             ktask'[j] = t /\ kpc'[j] # "done"
      BY <3>1, <3>2
    <3>4. Cancelled(t) => Cancelled(t)' BY <3>1, <3>3
    <3>5. QED BY <3>1, <3>4
  <2>4. QED BY <1>3, <2>1, <2>2, <2>3 DEF CancelStep
<1>4. CASE HandlerError
  <2>1. /\ UNCHANGED <<requeued, cancelledAt, ktask>>
        /\ \A k \in Cancellers : kpc'[k] = kpc[k] \/ ktask[k] \in abandoned'
    BY <1>4, ErrorEnds
  <2>2. QED BY <2>1
<1>5. CASE \E c \in Clients : Client(c)
  BY <1>1, <1>5 DEF Client, CheckUserQuota, CheckGlobalQuota, SaveTask, PushTask, JoinBatch
<1>6. CASE \E w \in Workers : WorkerStep(w)
  BY <1>1, <1>6 DEF WorkerStep, Pop, RecheckUserQuota, PushBack, MarkUser, MarkGlobal,
     WriteVisibility, ArmVisibility, StartTask, Analyse, AckUnmarkUser, AckUnmarkGlobal,
     AckClearVisibility, AckStatus, AckSet
<1>7. CASE \E w \in Workers \ crashed : RedisError(w) \/ Crash(w)
  BY <1>1, <1>7 DEF RedisError, Crash
<1>8. CASE \E u \in Tasks : ClockStep(u)
  BY <1>1, <1>8 DEF ClockStep, TimeoutPasses, KeyExpires
<1>9. CASE UNCHANGED vars BY <1>1, <1>9 DEF vars
<1>10. CASE \E k \in Cancellers : CancelStep(k)
  <2>1. PICK k \in Cancellers : CancelStep(k) BY <1>10
  <2>2. QED BY <1>3, <2>1 DEF Requeued
<1>11. QED BY <1>2, <1>4, <1>5, <1>6, <1>7, <1>8, <1>9, <1>10 DEF Next

\* SingleDelivery, and the client about to push holds the only copy.
OnceInv ==
    \A t \in Tasks : Requeued(t)
        \/ /\ Once(t)
           /\ \A w \in Workers : wtask[w] = t => ~InReady(t)
           /\ \A w, v \in Workers : wtask[w] = t /\ wtask[v] = t => w = v
           /\ \A c \in Clients : cpc[c] = "saved" /\ ctask[c] = t =>
                ~InReady(t) /\ \A w \in Workers : wtask[w] # t

\* A step that pushes and hands out nothing.
LEMMA OnceKept ==
  ASSUME OnceInv,
         \A t \in Tasks : Requeued(t) => Requeued(t)',
         \A t \in Tasks : (InReady(t)' => InReady(t)) /\ (Once(t) => Once(t)'),
         \A w \in Workers : wtask'[w] \in {wtask[w], Nobody},
         \A c \in Clients : cpc'[c] = "saved" => cpc[c] = "saved" /\ ctask'[c] = ctask[c]
  PROVE  OnceInv'
<1> SUFFICES ASSUME NEW t \in Tasks, ~Requeued(t)'
    PROVE /\ Once(t)'
          /\ \A w \in Workers : wtask'[w] = t => ~InReady(t)'
          /\ \A w, v \in Workers : wtask'[w] = t /\ wtask'[v] = t => w = v
          /\ \A c \in Clients : cpc'[c] = "saved" /\ ctask'[c] = t =>
                ~InReady(t)' /\ \A w \in Workers : wtask'[w] # t
  BY DEF OnceInv
<1>1. \A w \in Workers : wtask'[w] = t => wtask[w] = t
  BY ConstantsOK
<1>2. QED BY <1>1 DEF OnceInv

LEMMA OnceStep ==
  ASSUME TypeOK, TypeOK', IdleHands, KnownInv, OnceInv, [Next]_vars
  PROVE  OnceInv'
<1> USE ConstantsOK DEF TypeOK, Goto, SGoto, KGoto
<1>0. \A t \in Tasks : Requeued(t) => Requeued(t)'
  BY RecordsStay
<1>1. ASSUME NEW c \in Clients, Client(c) PROVE OnceInv'
  <2>0. cpc[c] \in {"userOk", "allOk", "saved"} => ctask[c] \in Tasks
    BY DEF HandOK
  <2>1. CASE SaveTask(c)
    <3>1. /\ cpc[c] = "allOk" /\ cpc' = [cpc EXCEPT ![c] = "saved"]
          /\ UNCHANGED <<ready, ctask, wtask>>
      BY <2>1 DEF SaveTask
    <3>2. Unknown(ctask[c]) BY <2>0, <3>1 DEF KnownInv
    <3>3. QED BY <1>0, <3>1, <3>2, ReadyKept DEF OnceInv, Unknown
  <2>2. CASE PushTask(c)
    <3>1. /\ cpc[c] = "saved" /\ ctask[c] \in Tasks
          /\ ready' = Append(ready, ctask[c])
          /\ cpc' = [cpc EXCEPT ![c] = IF c \in Batches THEN "pushed" ELSE "next"]
          /\ UNCHANGED <<ctask, wtask>>
      BY <2>0, <2>2 DEF PushTask
    <3>2. /\ \A u : InReady(u)' <=> InReady(u) \/ u = ctask[c]
          /\ \A u : Once(u) /\ (u = ctask[c] => ~InReady(ctask[c])) => Once(u)'
      BY <3>1, ReadyPushed
    <3>3. \A d \in Clients : cpc'[d] = "saved" =>
             cpc[d] = "saved" /\ ctask[d] # ctask[c]
      BY <3>1 DEF KnownInv
    <3>4. QED BY <1>0, <3>1, <3>2, <3>3 DEF OnceInv
  <2>3. CASE CheckUserQuota(c) \/ CheckGlobalQuota(c) \/ JoinBatch(c)
    <3>1. /\ \A d \in Clients : cpc'[d] = "saved" => cpc[d] = "saved" /\ ctask'[d] = ctask[d]
          /\ UNCHANGED <<ready, wtask>>
      BY <2>3 DEF CheckUserQuota, CheckGlobalQuota, JoinBatch
    <3>2. QED BY <1>0, <3>1, ReadyKept, OnceKept
  <2>4. QED BY <1>1, <2>1, <2>2, <2>3 DEF Client
<1>2. ASSUME NEW w \in Workers, WorkerStep(w) PROVE OnceInv'
  <2>1. CASE Pop(w)
    <3>1. /\ ready # <<>> /\ ready' = Tail(ready)
          /\ wtask' = [wtask EXCEPT ![w] = Head(ready)]
          /\ UNCHANGED <<cpc, ctask>>
      BY <2>1 DEF Pop
    <3>2. /\ Head(ready) \in Tasks /\ InReady(Head(ready))
          /\ \A u : InReady(u)' => InReady(u)
          /\ \A u : Once(u) => Once(u)' /\ (u = Head(ready) => ~InReady(u)')
      BY <3>1, ReadyPopped
    <3>3. QED BY <1>0, <3>1, <3>2 DEF OnceInv
  <2>2. CASE PushBack(w)
    <3>1. /\ wtask[w] \in Tasks /\ ready' = Append(ready, wtask[w])
          /\ wtask' = [wtask EXCEPT ![w] = Nobody]
          /\ UNCHANGED <<cpc, ctask>>
      BY <2>2 DEF PushBack, HandOK
    <3>2. /\ \A u : InReady(u)' <=> InReady(u) \/ u = wtask[w]
          /\ \A u : Once(u) /\ (u = wtask[w] => ~InReady(wtask[w])) => Once(u)'
      BY <3>1, ReadyPushed
    <3>3. QED BY <1>0, <3>1, <3>2 DEF OnceInv
  <2>3. CASE ~Pop(w) /\ ~PushBack(w)
    <3>1. /\ \A v \in Workers : wtask'[v] \in {wtask[v], Nobody}
          /\ UNCHANGED <<cpc, ctask, ready>>
      BY <1>2, <2>3 DEF WorkerStep, RecheckUserQuota, MarkUser, MarkGlobal, WriteVisibility,
         ArmVisibility, StartTask, Analyse, AckUnmarkUser, AckUnmarkGlobal,
         AckClearVisibility, AckStatus, AckSet
    <3>2. QED BY <1>0, <3>1, ReadyKept, OnceKept
  <2>4. QED BY <2>1, <2>2, <2>3
<1>3. ASSUME NEW w \in Workers, RedisError(w) \/ Crash(w) PROVE OnceInv'
  <2>1. /\ \A v \in Workers : wtask'[v] \in {wtask[v], Nobody}
        /\ UNCHANGED <<cpc, ctask, ready>>
    BY <1>3 DEF RedisError, Crash
  <2>2. QED BY <1>0, <2>1, ReadyKept, OnceKept
<1>4. ASSUME NEW s \in Sweepers, SweepStep(s) PROVE OnceInv'
  <2>1. CASE SweepPush(s)
    <3>1. /\ stask[s] \in Tasks /\ ready' = Append(ready, stask[s])
          /\ requeued' = requeued \cup {stask[s]}
          /\ UNCHANGED <<cpc, ctask, wtask, stask>>
      BY <2>1 DEF SweepPush, HandOK
    <3>2. /\ \A u : InReady(u)' <=> InReady(u) \/ u = stask[s]
          /\ \A u : Once(u) /\ (u = stask[s] => ~InReady(stask[s])) => Once(u)'
      BY <3>1, ReadyPushed
    <3>3. Requeued(stask[s])' BY <3>1 DEF Requeued
    <3>4. QED BY <1>0, <3>1, <3>2, <3>3 DEF OnceInv
  <2>2. CASE ~SweepPush(s)
    <3>1. UNCHANGED <<cpc, ctask, ready, wtask>>
      BY <1>4, <2>2 DEF SweepStep, CollectExpired, HandleExpired, SweepUnmarkUser,
         SweepUnmarkGlobal, SweepClearVisibility, SweepStatus, LeaveTask
    <3>2. QED BY <1>0, <3>1, ReadyKept, OnceKept
  <2>3. QED BY <2>1, <2>2
<1>5. ASSUME NEW k \in Cancellers, CancelStep(k) PROVE OnceInv'
  <2>1. CASE CancelRemove(k)
    <3>1. UNCHANGED <<cpc, ctask, wtask>> BY <2>1 DEF CancelRemove
    <3>2. \A u : (InReady(u)' => InReady(u)) /\ (Once(u) => Once(u)')
      BY <2>1, ReadyRemoved
    <3>3. QED BY <1>0, <3>1, <3>2, OnceKept
  <2>2. CASE ~CancelRemove(k)
    <3>1. UNCHANGED <<cpc, ctask, ready, wtask>>
      BY <1>5, <2>2 DEF CancelStep, CancelRead, CancelUnmarkUser, CancelUnmarkGlobal,
         CancelClearVisibility, CancelWrite
    <3>2. QED BY <1>0, <3>1, ReadyKept, OnceKept
  <2>3. QED BY <2>1, <2>2
<1>6. CASE (\E t \in Tasks : ClockStep(t)) \/ UNCHANGED vars
  <2>1. UNCHANGED <<cpc, ctask, ready, wtask>>
    BY <1>6 DEF ClockStep, TimeoutPasses, KeyExpires, vars
  <2>2. QED BY <1>0, <2>1, ReadyKept, OnceKept
<1>7. CASE HandlerError
  <2>1. /\ UNCHANGED <<ctask, ready, wtask>>
        /\ \A c \in Clients : cpc'[c] \in {cpc[c], "rejected"}
    BY <1>7, ErrorEnds
  <2>2. QED BY <1>0, <2>1, ReadyKept, OnceKept
<1>8. QED BY <1>1, <1>2, <1>3, <1>4, <1>5, <1>6, <1>7 DEF Next

LEMMA DeliveryOnce == Spec => []OnceInv
<1>1. Init => OnceInv
  BY ConstantsOK DEF Init, OnceInv, Once, InReady
<1>2. QED BY <1>1, OnceStep, TasksKnown, HandsIdle, TypeCorrect, PTL DEF Spec

\* Whatever clients, workers, cancels and faults do, only a requeue by the
\* cleanup loop makes a second copy of a task.
THEOREM DeliveredOnce == Spec => []SingleDelivery
<1>1. OnceInv => SingleDelivery BY DEF OnceInv, SingleDelivery, Once
<1>2. QED BY <1>1, DeliveryOnce, PTL

-----------------------------------------------------------------------------
(* Who holds a slot or a visibility key.                                   *)

\* The control states between the command that takes a mark and the one that
\* gives it back.
WithUser == {"userMarked", "marked", "timed", "armed", "running", "ack"}
WithSlot == {"marked", "timed", "armed", "running", "ack", "ackGlobal"}
WithKey  == {"timed", "armed", "running", "ack", "ackGlobal", "ackKey"}
HoldsMark(t, states) == \E w \in Workers \ crashed : wtask[w] = t /\ wpc[w] \in states

\* NoLeakWithoutFault for each of the three records by itself.
LeakInv ==
    \A t \in Tasks : t \notin abandoned =>
        /\ t \in userMarked => HoldsMark(t, WithUser)
        /\ t \in processing => HoldsMark(t, WithSlot)
        /\ key[t] # "absent" => HoldsMark(t, WithKey)

\* A step that takes no mark and moves no worker.
LEMMA LeakKept ==
  ASSUME LeakInv, UNCHANGED <<wtask, wpc, crashed>>, abandoned \subseteq abandoned',
         userMarked' \subseteq userMarked, processing' \subseteq processing,
         \A t \in Tasks : key'[t] # "absent" => key[t] # "absent"
  PROVE  LeakInv'
BY DEF LeakInv, HoldsMark

\* A step of a worker that takes a mark only for the task it then holds, and
\* leaves the states that hold one only by giving it back.
LEMMA LeakMoved ==
  ASSUME TypeOK, LeakInv, NEW w \in Workers \ crashed, UNCHANGED <<crashed, abandoned>>,
         \A v \in Workers \ {w} : wtask'[v] = wtask[v] /\ wpc'[v] = wpc[v],
         wtask'[w] = wtask[w] \/ wpc[w] \notin WithUser \cup WithSlot \cup WithKey,
         \A t \in Tasks : t \in userMarked' =>
            IF t = wtask[w] /\ wpc[w] \in WithUser THEN wpc'[w] \in WithUser
            ELSE t \in userMarked \/ (t = wtask'[w] /\ wpc'[w] \in WithUser),
         \A t \in Tasks : t \in processing' =>
            IF t = wtask[w] /\ wpc[w] \in WithSlot THEN wpc'[w] \in WithSlot
            ELSE t \in processing \/ (t = wtask'[w] /\ wpc'[w] \in WithSlot),
         \A t \in Tasks : key'[t] # "absent" =>
            IF t = wtask[w] /\ wpc[w] \in WithKey THEN wpc'[w] \in WithKey
            ELSE key[t] # "absent" \/ (t = wtask'[w] /\ wpc'[w] \in WithKey)
  PROVE  LeakInv'
<1> SUFFICES ASSUME NEW t \in Tasks, t \notin abandoned
             PROVE  /\ t \in userMarked' => HoldsMark(t, WithUser)'
                    /\ t \in processing' => HoldsMark(t, WithSlot)'
                    /\ key'[t] # "absent" => HoldsMark(t, WithKey)'
  BY DEF LeakInv
<1>1. ASSUME NEW S \in {WithUser, WithSlot, WithKey}, HoldsMark(t, S),
             t = wtask[w] /\ wpc[w] \in S => wpc'[w] \in S
      PROVE  HoldsMark(t, S)'
  <2>1. PICK v \in Workers \ crashed : wtask[v] = t /\ wpc[v] \in S
    BY <1>1 DEF HoldsMark
  <2>2. CASE v = w BY <1>1, <2>1, <2>2 DEF HoldsMark
  <2>3. CASE v # w BY <2>1, <2>3 DEF HoldsMark
  <2>4. QED BY <2>2, <2>3
<1>2. ASSUME NEW S \in {WithUser, WithSlot, WithKey}, t = wtask'[w] /\ wpc'[w] \in S
      PROVE  HoldsMark(t, S)'
  BY <1>2 DEF HoldsMark
<1>3. t \in userMarked' => HoldsMark(t, WithUser)'
  BY <1>1, <1>2 DEF LeakInv
<1>4. t \in processing' => HoldsMark(t, WithSlot)'
  BY <1>1, <1>2 DEF LeakInv
<1>5. key'[t] # "absent" => HoldsMark(t, WithKey)'
  BY <1>1, <1>2 DEF LeakInv
<1>6. QED BY <1>3, <1>4, <1>5

LEMMA LeakStep ==
  ASSUME TypeOK, LeakInv, [Next]_vars
  PROVE  LeakInv'
<1> USE ConstantsOK DEF TypeOK, Goto
<1>1. ASSUME NEW w \in Workers, WorkerStep(w) PROVE LeakInv'
  <2>0. /\ w \notin crashed /\ UNCHANGED <<crashed, abandoned>>
        /\ \A v \in Workers \ {w} : wtask'[v] = wtask[v] /\ wpc'[v] = wpc[v]
    BY <1>1 DEF WorkerStep, Pop, RecheckUserQuota, PushBack, MarkUser, MarkGlobal,
       WriteVisibility, ArmVisibility, StartTask, Analyse, AckUnmarkUser, AckUnmarkGlobal,
       AckClearVisibility, AckStatus, AckSet
  <2> USE DEF WithUser, WithSlot, WithKey
  <2>1. CASE Pop(w) \/ PushBack(w) \/ RecheckUserQuota(w) \/ AckStatus(w) \/ AckSet(w)
    <3>1. /\ wpc[w] \notin WithUser \cup WithSlot \cup WithKey
          /\ UNCHANGED <<userMarked, processing, key>>
      BY <2>1 DEF Pop, PushBack, RecheckUserQuota, AckStatus, AckSet
    <3>2. QED BY <2>0, <3>1, LeakMoved
  <2>2. CASE MarkUser(w)
    <3>1. /\ wpc[w] = "admitted" /\ wpc'[w] = "userMarked"
          /\ userMarked' = userMarked \cup {wtask[w]}
          /\ UNCHANGED <<processing, key, wtask>>
      BY <2>2 DEF MarkUser
    <3>2. QED BY <2>0, <3>1, LeakMoved
  <2>3. CASE MarkGlobal(w)
    <3>1. /\ wpc[w] = "userMarked" /\ wpc'[w] = "marked"
          /\ processing' = processing \cup {wtask[w]}
          /\ UNCHANGED <<userMarked, key, wtask>>
      BY <2>3 DEF MarkGlobal
    <3>2. QED BY <2>0, <3>1, LeakMoved
  <2>4. CASE WriteVisibility(w) \/ ArmVisibility(w)
    <3>1. /\ \A t \in Tasks \ {wtask[w]} : key'[t] = key[t]
          /\ key[wtask[w]] = "absent" /\ wpc[w] = "timed" => key'[wtask[w]] = "absent"
          /\ wpc[w] \in {"marked", "timed"} /\ wpc'[w] \in {"timed", "armed"}
          /\ UNCHANGED <<userMarked, processing, wtask>>
      BY <2>4 DEF WriteVisibility, ArmVisibility, HandOK
    <3>2. QED BY <2>0, <3>1, LeakMoved
  <2>5. CASE StartTask(w) \/ Analyse(w)
    <3>1. /\ wpc[w] \in {"armed", "running"} /\ wpc'[w] \in {"running", "ack"}
          /\ UNCHANGED <<userMarked, processing, key, wtask>>
      BY <2>5 DEF StartTask, Analyse
    <3>2. QED BY <2>0, <3>1, LeakMoved
  <2>6. CASE AckUnmarkUser(w)
    <3>1. /\ wpc[w] = "ack" /\ wpc'[w] = "ackGlobal"
          /\ userMarked' = userMarked \ {wtask[w]}
          /\ UNCHANGED <<processing, key, wtask>>
      BY <2>6 DEF AckUnmarkUser
    <3>2. QED BY <2>0, <3>1, LeakMoved
  <2>7. CASE AckUnmarkGlobal(w)
    <3>1. /\ wpc[w] = "ackGlobal" /\ wpc'[w] = "ackKey"
          /\ processing' = processing \ {wtask[w]}
          /\ UNCHANGED <<userMarked, key, wtask>>
      BY <2>7 DEF AckUnmarkGlobal
    <3>2. QED BY <2>0, <3>1, LeakMoved
  <2>8. CASE AckClearVisibility(w)
    <3>1. /\ wpc[w] = "ackKey" /\ wpc'[w] = "ackStatus"
          /\ key' = [key EXCEPT ![wtask[w]] = "absent"]
          /\ UNCHANGED <<processing, userMarked, wtask>>
      BY <2>8 DEF AckClearVisibility
    <3>2. QED BY <2>0, <3>1, LeakMoved
  <2>9. QED BY <1>1, <2>1, <2>2, <2>3, <2>4, <2>5, <2>6, <2>7, <2>8 DEF WorkerStep
<1>2. ASSUME NEW w \in Workers \ crashed, RedisError(w) \/ Crash(w) PROVE LeakInv'
  <2> SUFFICES ASSUME NEW t \in Tasks, t \notin abandoned',
                      NEW S \in {WithUser, WithSlot, WithKey}, HoldsMark(t, S)
               PROVE  HoldsMark(t, S)'
    BY <1>2 DEF LeakInv, RedisError, Crash
  <2>1. PICK v \in Workers \ crashed : wtask[v] = t /\ wpc[v] \in S
    BY DEF HoldsMark
  <2>2. wpc[v] # "idle" BY <2>1 DEF WithUser, WithSlot, WithKey
  <2>3. v # w BY <1>2, <2>1, <2>2 DEF RedisError, Crash
  <2>4. v \notin crashed' /\ wtask'[v] = wtask[v] /\ wpc'[v] = wpc[v]
    BY <1>2, <2>3 DEF RedisError, Crash
  <2>5. QED BY <2>1, <2>4 DEF HoldsMark
<1>3. CASE \E c \in Clients : Client(c)
  BY <1>3, LeakKept DEF Client, CheckUserQuota, CheckGlobalQuota, SaveTask, PushTask, JoinBatch
<1>4. CASE \E s \in Sweepers : SweepStep(s)
  BY <1>4, LeakKept DEF SweepStep, CollectExpired, HandleExpired, SweepUnmarkUser,
     SweepUnmarkGlobal, SweepClearVisibility, SweepPush, SweepStatus, LeaveTask
<1>5. ASSUME NEW k \in Cancellers, CancelStep(k) PROVE LeakInv'
  <2>1. CASE CancelRemove(k)
    <3>1. UNCHANGED <<userMarked, processing, key, wtask, wpc, crashed, abandoned>>
      BY <2>1 DEF CancelRemove
    <3>2. QED BY <3>1, LeakKept
  <2>2. CASE ~CancelRemove(k)
    BY <1>5, <2>2, LeakKept DEF CancelStep, CancelRead, CancelUnmarkUser,
       CancelUnmarkGlobal, CancelClearVisibility, CancelWrite
  <2>3. QED BY <2>1, <2>2
<1>6. CASE \E t \in Tasks : ClockStep(t)
  BY <1>6, LeakKept DEF ClockStep, TimeoutPasses, KeyExpires
<1>7. CASE HandlerError
  BY <1>7, ErrorEnds, LeakKept
<1>8. CASE UNCHANGED vars
  BY <1>8, LeakKept DEF vars
<1>9. QED BY <1>1, <1>2, <1>3, <1>4, <1>5, <1>6, <1>7, <1>8 DEF Next

\* In every interleaving of acks, cancels, sweeps and dequeues a slot or a
\* visibility key is held by a running worker or was left by a fault.
THEOREM MarksHeld == Spec => []NoLeakWithoutFault
<1>1. Init => LeakInv BY DEF Init, LeakInv
<1>2. LeakInv => NoLeakWithoutFault
  BY DEF LeakInv, HoldsMark, WithUser, WithSlot, WithKey, NoLeakWithoutFault, Marked
<1>3. QED BY <1>1, <1>2, LeakStep, TypeCorrect, PTL DEF Spec

-----------------------------------------------------------------------------
(* A task being analysed is counted against the limits.                    *)

Excused(t) == Requeued(t) \/ Cancelled(t) \/ t \in abandoned
              \/ \E s \in Sweepers : stask[s] = t

\* RunningIsCounted from the mark to the acknowledgement, slot by slot.
CountInv ==
    \A w \in Workers \ crashed :
        /\ wpc[w] \in WithUser => wtask[w] \in userMarked \/ Excused(wtask[w])
        /\ wpc[w] \in WithSlot => wtask[w] \in processing \/ Excused(wtask[w])

LEMMA ExcuseStays ==
  ASSUME TypeOK, IdleHands, [Next]_vars, NEW t \in Tasks, Excused(t)
  PROVE  Excused(t)'
<1>0. abandoned \subseteq abandoned' BY AbandonedStays
<1>1. CASE Requeued(t) \/ Cancelled(t) \/ t \in abandoned
  BY <1>0, <1>1, RecordsStay DEF Excused
<1>2. CASE UNCHANGED stask
  BY <1>1, <1>2 DEF Excused
<1>3. ASSUME NEW s \in Sweepers, SweepStep(s) PROVE Excused(t)'
  <2>1. CASE HandleExpired(s)
    <3>1. /\ stask[s] = Nobody /\ t # Nobody
          /\ \A r \in Sweepers \ {s} : stask'[r] = stask[r]
      BY <2>1, ConstantsOK DEF HandleExpired, IdleHands, TypeOK
    <3>2. QED BY <1>1, <3>1 DEF Excused
  <2>2. CASE SweepStatus(s)
    <3>1. /\ \A r \in Sweepers \ {s} : stask'[r] = stask[r]
          /\ Requeued(stask[s])
      BY <2>2 DEF SweepStatus, LeaveTask, TypeOK, IdleHands, Requeued
    <3>2. QED BY <1>1, <3>1 DEF Excused
  <2>3. CASE ~HandleExpired(s) /\ ~SweepStatus(s)
    <3>1. UNCHANGED stask
      BY <1>3, <2>3 DEF SweepStep, CollectExpired, SweepUnmarkUser, SweepUnmarkGlobal,
         SweepClearVisibility, SweepPush
    <3>2. QED BY <1>2, <3>1
  <2>4. QED BY <2>1, <2>2, <2>3
<1>4. CASE HandlerError
  <2>1. \A s \in Sweepers : \/ stask'[s] = stask[s]
                           \/ spc[s] = "sweepStatus" \/ stask[s] \in abandoned'
    BY <1>4, ErrorEnds
  <2>2. \A s \in Sweepers : spc[s] = "sweepStatus" => Requeued(stask[s])
    BY DEF IdleHands, Requeued
  <2>3. QED BY <1>1, <2>1, <2>2 DEF Excused
<1>5. CASE \/ \E c \in Clients : Client(c)
           \/ \E w \in Workers : WorkerStep(w)
           \/ \E w \in Workers \ crashed : RedisError(w) \/ Crash(w)
           \/ \E k \in Cancellers : CancelStep(k)
           \/ \E u \in Tasks : ClockStep(u)
           \/ UNCHANGED vars
  BY <1>2, <1>5, SweepersStay
<1>6. QED BY <1>3, <1>4, <1>5 DEF Next

\* A worker enters the states of a slot by taking it, and what others take
\* from it is excused.
LEMMA CountKept ==
  ASSUME TypeOK, CountInv, crashed \subseteq crashed',
         \A t \in Tasks : Excused(t) => Excused(t)',
         \A w \in Workers \ crashed : wpc'[w] \in WithUser \cup WithSlot =>
            wtask'[w] = wtask[w] /\ wtask[w] \in Tasks,
         \A w \in Workers \ crashed : wpc'[w] \in WithUser =>
            \/ wtask[w] \in userMarked' \/ Excused(wtask[w])
            \/ wpc[w] \in WithUser /\ wtask[w] \notin userMarked,
         \A w \in Workers \ crashed : wpc'[w] \in WithSlot =>
            \/ wtask[w] \in processing' \/ Excused(wtask[w])
            \/ wpc[w] \in WithSlot /\ wtask[w] \notin processing
  PROVE  CountInv'
BY DEF CountInv

LEMMA CountStep ==
  ASSUME TypeOK, IdleHands, OnceInv, CountInv, [Next]_vars
  PROVE  CountInv'
<1> USE ConstantsOK DEF TypeOK, Goto
<1>0. /\ \A t \in Tasks : Excused(t) => Excused(t)'
      /\ \A v \in Workers : wpc[v] # "idle" => wtask[v] \in Tasks
  BY ExcuseStays DEF HandOK
<1> USE DEF WithUser, WithSlot
<1>1. ASSUME NEW w \in Workers, WorkerStep(w) PROVE CountInv'
  <2>0. /\ crashed' = crashed
        /\ \A v \in Workers \ {w} : wtask'[v] = wtask[v] /\ wpc'[v] = wpc[v]
        /\ wpc[w] # "idle" =>
              \A v \in Workers \ {w} : wtask[v] = wtask[w] => Excused(wtask[w])
    <3>1. /\ crashed' = crashed
          /\ \A v \in Workers \ {w} : wtask'[v] = wtask[v] /\ wpc'[v] = wpc[v]
      BY <1>1 DEF WorkerStep, Pop, RecheckUserQuota, PushBack, MarkUser, MarkGlobal,
         WriteVisibility, ArmVisibility, StartTask, Analyse, AckUnmarkUser, AckUnmarkGlobal,
         AckClearVisibility, AckStatus, AckSet
    <3>2. wpc[w] # "idle" =>
              \A v \in Workers \ {w} : wtask[v] = wtask[w] => Requeued(wtask[w])
      BY <1>0 DEF OnceInv
    <3>3. QED BY <3>1, <3>2 DEF Excused
  <2>1. CASE Pop(w) \/ PushBack(w) \/ RecheckUserQuota(w) \/ AckStatus(w) \/ AckSet(w)
    <3>1. /\ wpc'[w] \notin WithUser \cup WithSlot
          /\ UNCHANGED <<userMarked, processing>>
      BY <2>1 DEF Pop, PushBack, RecheckUserQuota, AckStatus, AckSet
    <3>2. QED BY <1>0, <2>0, <3>1, CountKept
  <2>2. CASE MarkUser(w)
    <3>1. /\ wpc[w] = "admitted" /\ wpc'[w] = "userMarked" /\ wtask' = wtask
          /\ userMarked' = userMarked \cup {wtask[w]} /\ processing' = processing
      BY <2>2 DEF MarkUser
    <3>2. QED BY <1>0, <2>0, <3>1, CountKept
  <2>3. CASE MarkGlobal(w)
    <3>1. /\ wpc[w] = "userMarked" /\ wpc'[w] = "marked" /\ wtask' = wtask
          /\ processing' = processing \cup {wtask[w]} /\ userMarked' = userMarked
      BY <2>3 DEF MarkGlobal
    <3>2. QED BY <1>0, <2>0, <3>1, CountKept
  <2>4. CASE WriteVisibility(w) \/ ArmVisibility(w) \/ StartTask(w) \/ Analyse(w)
             \/ AckClearVisibility(w)
    <3>1. /\ wpc[w] # "idle"
          /\ wpc'[w] \in WithUser => wpc[w] \in WithUser
          /\ wpc'[w] \in WithSlot => wpc[w] \in WithSlot
          /\ UNCHANGED <<userMarked, processing, wtask>>
      BY <2>4 DEF WriteVisibility, ArmVisibility, StartTask, Analyse, AckClearVisibility
    <3>2. QED BY <1>0, <2>0, <3>1, CountKept
  <2>5. CASE AckUnmarkUser(w)
    <3>1. /\ wpc[w] = "ack" /\ wpc'[w] = "ackGlobal" /\ wtask' = wtask
          /\ userMarked' = userMarked \ {wtask[w]} /\ processing' = processing
      BY <2>5 DEF AckUnmarkUser
    <3>2. QED BY <1>0, <2>0, <3>1, CountKept
  <2>6. CASE AckUnmarkGlobal(w)
    <3>1. /\ wpc[w] = "ackGlobal" /\ wpc'[w] = "ackKey" /\ wtask' = wtask
          /\ processing' = processing \ {wtask[w]} /\ userMarked' = userMarked
      BY <2>6 DEF AckUnmarkGlobal
    <3>2. QED BY <1>0, <2>0, <3>1, CountKept
  <2>7. QED BY <1>1, <2>1, <2>2, <2>3, <2>4, <2>5, <2>6 DEF WorkerStep
<1>2. ASSUME NEW w \in Workers \ crashed, RedisError(w) \/ Crash(w) PROVE CountInv'
  <2>1. /\ UNCHANGED <<userMarked, processing>> /\ crashed \subseteq crashed'
        /\ \A v \in Workers : wpc'[v] # "idle" => wtask'[v] = wtask[v] /\ wpc'[v] = wpc[v]
    BY <1>2 DEF RedisError, Crash
  <2>2. QED BY <1>0, <2>1, CountKept
<1>3. CASE \E c \in Clients : Client(c)
  <2>1. UNCHANGED <<userMarked, processing, crashed, wpc, wtask>>
    BY <1>3 DEF Client, CheckUserQuota, CheckGlobalQuota, SaveTask, PushTask, JoinBatch
  <2>2. QED BY <1>0, <2>1, CountKept
<1>4. ASSUME NEW s \in Sweepers, SweepStep(s) PROVE CountInv'
  <2>1. /\ UNCHANGED <<crashed, wpc, wtask>>
        /\ \A t \in Tasks \ {stask[s]} : (t \in userMarked <=> t \in userMarked')
                                      /\ (t \in processing <=> t \in processing')
    BY <1>4 DEF SweepStep, CollectExpired, HandleExpired, SweepUnmarkUser,
       SweepUnmarkGlobal, SweepClearVisibility, SweepPush, SweepStatus, LeaveTask
  <2>2. Excused(stask[s]) BY DEF Excused
  <2>3. QED BY <1>0, <2>1, <2>2, CountKept
<1>5. ASSUME NEW k \in Cancellers, CancelStep(k) PROVE CountInv'
  <2>1. CASE CancelUnmarkUser(k) \/ CancelUnmarkGlobal(k)
    <3>1. /\ UNCHANGED <<crashed, wpc, wtask>>
          /\ \A t \in Tasks \ {ktask[k]} : (t \in userMarked <=> t \in userMarked')
                                        /\ (t \in processing <=> t \in processing')
          /\ kpc[k] # "done"
      BY <2>1 DEF CancelUnmarkUser, CancelUnmarkGlobal
    <3>2. Excused(ktask[k]) BY <3>1 DEF Excused, Cancelled
    <3>3. QED BY <1>0, <3>1, <3>2, CountKept
  <2>2. CASE ~CancelUnmarkUser(k) /\ ~CancelUnmarkGlobal(k)
    <3>1. UNCHANGED <<userMarked, processing, crashed, wpc, wtask>>
      BY <1>5, <2>2 DEF CancelStep, CancelRead, CancelClearVisibility, CancelRemove, CancelWrite
    <3>2. QED BY <1>0, <3>1, CountKept
  <2>3. QED BY <2>1, <2>2
<1>6. CASE (\E t \in Tasks : ClockStep(t)) \/ UNCHANGED vars
  <2>1. UNCHANGED <<userMarked, processing, crashed, wpc, wtask>>
    BY <1>6 DEF ClockStep, TimeoutPasses, KeyExpires, vars
  <2>2. QED BY <1>0, <2>1, CountKept
<1>7. CASE HandlerError
  <2>1. UNCHANGED <<userMarked, processing, crashed, wpc, wtask>>
    BY <1>7, ErrorEnds
  <2>2. QED BY <1>0, <2>1, CountKept
<1>8. QED BY <1>1, <1>2, <1>3, <1>4, <1>5, <1>6, <1>7 DEF Next

\* A task is analysed outside its two slots only after a requeue or a cancel,
\* whole or failed: a second worker cannot give back the slot of the first.
THEOREM AnalysesCounted == Spec => []RunningIsCounted
<1>1. Init => CountInv
  BY DEF Init, CountInv, WithUser, WithSlot
<1>2. CountInv => RunningIsCounted
  BY DEF CountInv, WithUser, WithSlot, Excused, RunningIsCounted
<1>3. QED BY <1>1, <1>2, CountStep, DeliveryOnce, HandsIdle, TypeCorrect, PTL DEF Spec

-----------------------------------------------------------------------------
(* No command loses a task.                                                *)

\* NoTaskVanishes for a task whatever its status, without the cleanup loop
\* that has pushed its task back.
Placed(t) ==
    \/ InReady(t)
    \/ \E c \in Clients : cpc[c] = "saved" /\ ctask[c] = t
    \/ \E w \in Workers \ crashed : wtask[w] = t
    \/ \E s \in Sweepers \ crashed : stask[s] = t /\ spc[s] # "sweepStatus"
    \/ t \in abandoned \cup completed \cup failed \/ Cancelled(t)

PlaceInv ==
    /\ \A t \in Tasks : status[t] \in {"queued", "processing"} => Placed(t)
    /\ \A s \in Sweepers : spc[s] = "sweepStatus" => Placed(stask[s])

\* A step that takes nothing away.
LEMMA PlacedKept ==
  ASSUME NEW t \in Tasks, Placed(t), Cancelled(t) => Cancelled(t)' \/ t \in abandoned',
         InReady(t) => InReady(t)',
         \A c \in Clients : cpc[c] = "saved" /\ ctask[c] = t =>
                               cpc'[c] = "saved" /\ ctask'[c] = t,
         \A w \in Workers \ crashed : wtask[w] = t => w \notin crashed' /\ wtask'[w] = t,
         \A s \in Sweepers \ crashed : stask[s] = t /\ spc[s] # "sweepStatus" =>
            s \notin crashed' /\ stask'[s] = t /\ spc'[s] # "sweepStatus",
         abandoned \subseteq abandoned', completed \subseteq completed', failed \subseteq failed'
  PROVE  Placed(t)'
BY DEF Placed

LEMMA PlacedStays ==
  ASSUME TypeOK, IdleHands, [Next]_vars, NEW t \in Tasks, Placed(t)
  PROVE  Placed(t)'
<1> USE ConstantsOK DEF TypeOK, Goto, SGoto
<1>0. Cancelled(t) => Cancelled(t)' \/ t \in abandoned' BY RecordsStay
<1>1. ASSUME NEW c \in Clients, Client(c) PROVE Placed(t)'
  <2>0. /\ \A d \in Clients \ {c} : cpc'[d] = cpc[d] /\ ctask'[d] = ctask[d]
        /\ UNCHANGED <<crashed, wtask, stask, spc, abandoned, completed, failed>>
    BY <1>1 DEF Client, CheckUserQuota, CheckGlobalQuota, SaveTask, PushTask, JoinBatch
  <2>1. CASE PushTask(c)
    <3>1. /\ cpc[c] = "saved" /\ ctask[c] \in Tasks /\ ctask' = ctask
          /\ ready' = Append(ready, ctask[c])
      BY <2>1 DEF PushTask, HandOK
    <3>2. \A u : InReady(u)' <=> InReady(u) \/ u = ctask[c]
      BY <3>1, ReadyPushed
    <3>3. CASE t = ctask[c] BY <3>2, <3>3 DEF Placed
    <3>4. CASE t # ctask[c] BY <1>0, <2>0, <3>1, <3>2, <3>4, PlacedKept
    <3>5. QED BY <3>3, <3>4
  <2>2. CASE ~PushTask(c)
    <3>1. cpc[c] # "saved" /\ ready' = ready
      BY <1>1, <2>2 DEF Client, CheckUserQuota, CheckGlobalQuota, SaveTask, JoinBatch
    <3>2. QED BY <1>0, <2>0, <3>1, ReadyKept, PlacedKept
  <2>3. QED BY <2>1, <2>2
<1>2. ASSUME NEW w \in Workers, WorkerStep(w) PROVE Placed(t)'
  <2>0. /\ w \notin crashed /\ \A v \in Workers \ {w} : wtask'[v] = wtask[v]
        /\ UNCHANGED <<crashed, cpc, ctask, stask, spc, abandoned>>
        /\ completed \subseteq completed' /\ failed \subseteq failed'
    BY <1>2 DEF WorkerStep, Pop, RecheckUserQuota, PushBack, MarkUser, MarkGlobal,
       WriteVisibility, ArmVisibility, StartTask, Analyse, AckUnmarkUser, AckUnmarkGlobal,
       AckClearVisibility, AckStatus, AckSet
  <2>1. CASE Pop(w)
    <3>1. /\ ready # <<>> /\ ready' = Tail(ready) /\ wpc[w] = "idle"
          /\ wtask'[w] = Head(ready)
      BY <2>1 DEF Pop
    <3>2. \A u : InReady(u) => InReady(u)' \/ u = Head(ready)
      BY <3>1, ReadyPopped
    <3>3. CASE t = Head(ready) BY <2>0, <3>1, <3>3 DEF Placed
    <3>4. CASE t # Head(ready)
      <4>1. wtask[w] # t BY <3>1 DEF IdleHands
      <4>2. QED BY <1>0, <2>0, <3>2, <3>4, <4>1, PlacedKept
    <3>5. QED BY <3>3, <3>4
  <2>2. CASE PushBack(w)
    <3>1. wtask[w] \in Tasks /\ ready' = Append(ready, wtask[w])
      BY <2>2 DEF PushBack, HandOK
    <3>2. \A u : InReady(u)' <=> InReady(u) \/ u = wtask[w]
      BY <3>1, ReadyPushed
    <3>3. CASE t = wtask[w] BY <3>2, <3>3 DEF Placed
    <3>4. CASE t # wtask[w] BY <1>0, <2>0, <3>2, <3>4, PlacedKept
    <3>5. QED BY <3>3, <3>4
  <2>3. CASE AckSet(w)
    <3>1. wtask[w] \in completed' \cup failed' /\ ready' = ready
      BY <2>3 DEF AckSet
    <3>2. CASE t = wtask[w] BY <3>1, <3>2 DEF Placed
    <3>3. CASE t # wtask[w] BY <1>0, <2>0, <3>1, <3>3, ReadyKept, PlacedKept
    <3>4. QED BY <3>2, <3>3
  <2>4. CASE ~Pop(w) /\ ~PushBack(w) /\ ~AckSet(w)
    <3>1. UNCHANGED <<ready, wtask>>
      BY <1>2, <2>4 DEF WorkerStep, RecheckUserQuota, MarkUser, MarkGlobal,
         WriteVisibility, ArmVisibility, StartTask, Analyse, AckUnmarkUser, AckUnmarkGlobal,
         AckClearVisibility, AckStatus
    <3>2. QED BY <1>0, <2>0, <3>1, ReadyKept, PlacedKept
  <2>5. QED BY <2>1, <2>2, <2>3, <2>4
<1>3. ASSUME NEW w \in Workers \ crashed, RedisError(w) \/ Crash(w) PROVE Placed(t)'
  <2>1. /\ \A v \in Workers \ {w} : wtask'[v] = wtask[v] /\ (v \in crashed' <=> v \in crashed)
        /\ UNCHANGED <<ready, cpc, ctask, stask, spc, completed, failed>>
        /\ abandoned \subseteq abandoned'
    BY <1>3 DEF RedisError, Crash
  <2>2. CASE t \in abandoned' BY <2>2 DEF Placed
  <2>3. CASE t \notin abandoned'
    <3>1. t # wtask[w]
      BY <1>3, <2>3 DEF RedisError, Crash, IdleHands
    <3>2. \A s \in Sweepers : stask[s] = t => s # w \/ s \notin crashed'
      BY <1>3, <2>3 DEF RedisError, Crash
    <3>3. QED BY <1>0, <2>1, <3>1, <3>2, ReadyKept, PlacedKept
  <2>4. QED BY <2>2, <2>3
<1>4. ASSUME NEW s \in Sweepers, SweepStep(s) PROVE Placed(t)'
  <2>0. /\ \A r \in Sweepers \ {s} : stask'[r] = stask[r] /\ spc'[r] = spc[r]
        /\ UNCHANGED <<crashed, cpc, ctask, wtask, abandoned, completed, failed>>
    BY <1>4 DEF SweepStep, CollectExpired, HandleExpired, SweepUnmarkUser,
       SweepUnmarkGlobal, SweepClearVisibility, SweepPush, SweepStatus, LeaveTask
  <2>1. CASE SweepPush(s)
    <3>1. stask[s] \in Tasks /\ ready' = Append(ready, stask[s])
      BY <2>1 DEF SweepPush, HandOK
    <3>2. \A u : InReady(u)' <=> InReady(u) \/ u = stask[s]
      BY <3>1, ReadyPushed
    <3>3. CASE t = stask[s] BY <3>2, <3>3 DEF Placed
    <3>4. CASE t # stask[s] BY <1>0, <2>0, <3>2, <3>4, PlacedKept
    <3>5. QED BY <3>3, <3>4
  <2>2. CASE ~SweepPush(s)
    <3>1. /\ ready' = ready
          /\ \/ stask[s] = Nobody \/ spc[s] = "sweepStatus"
             \/ stask'[s] = stask[s] /\ spc'[s] # "sweepStatus"
      BY <1>4, <2>2 DEF SweepStep, CollectExpired, HandleExpired, SweepUnmarkUser,
         SweepUnmarkGlobal, SweepClearVisibility, SweepStatus, LeaveTask, IdleHands
    <3>2. QED BY <1>0, <2>0, <3>1, ReadyKept, PlacedKept
  <2>3. QED BY <2>1, <2>2
<1>5. ASSUME NEW k \in Cancellers, CancelStep(k) PROVE Placed(t)'
  <2>1. CASE CancelRemove(k)
    <3>1. /\ UNCHANGED <<crashed, cpc, ctask, wtask, stask, spc, abandoned,
                         completed, failed, ktask>>
          /\ kpc'[k] = "write"
      BY <2>1 DEF CancelRemove, KGoto
    <3>2. \A u : InReady(u) => InReady(u)' \/ u = ktask[k] BY <2>1, ReadyRemoved
    <3>3. CASE t = ktask[k] BY <3>1, <3>3 DEF Placed, Cancelled
    <3>4. CASE t # ktask[k] BY <1>0, <3>1, <3>2, <3>4, PlacedKept
    <3>5. QED BY <3>3, <3>4
  <2>2. CASE ~CancelRemove(k)
    <3>1. UNCHANGED <<ready, crashed, cpc, ctask, wtask, stask, spc, abandoned,
                      completed, failed>>
      BY <1>5, <2>2 DEF CancelStep, CancelRead, CancelUnmarkUser, CancelUnmarkGlobal,
         CancelClearVisibility, CancelWrite
    <3>2. QED BY <1>0, <3>1, ReadyKept, PlacedKept
  <2>3. QED BY <2>1, <2>2
<1>6. CASE (\E u \in Tasks : ClockStep(u)) \/ UNCHANGED vars
  <2>1. UNCHANGED <<ready, crashed, cpc, ctask, wtask, stask, spc, abandoned,
                    completed, failed>>
    BY <1>6 DEF ClockStep, TimeoutPasses, KeyExpires, vars
  <2>2. QED BY <1>0, <2>1, ReadyKept, PlacedKept
<1>7. CASE HandlerError
  <2>1. /\ UNCHANGED <<ready, crashed, ctask, wtask, completed, failed>>
        /\ abandoned \subseteq abandoned'
        /\ \A c \in Clients : cpc[c] = "saved" => cpc'[c] = "saved" \/ ctask[c] \in abandoned'
        /\ \A s \in Sweepers : spc[s] # "sweepStatus" =>
             \/ stask'[s] = stask[s] /\ spc'[s] # "sweepStatus"
             \/ stask[s] \in abandoned'
    BY <1>7, ErrorEnds
  <2>2. CASE t \in abandoned' BY <2>2 DEF Placed
  <2>3. CASE t \notin abandoned' BY <1>0, <2>1, <2>3, ReadyKept, PlacedKept
  <2>4. QED BY <2>2, <2>3
<1>8. QED BY <1>1, <1>2, <1>3, <1>4, <1>5, <1>6, <1>7 DEF Next

\* A step that makes no task live and ends no push of the cleanup loop.
LEMMA PlaceKept ==
  ASSUME TypeOK', PlaceInv, \A t \in Tasks : Placed(t) => Placed(t)',
         \A t \in Tasks : status'[t] \in {"queued", "processing"} =>
            status[t] \in {"queued", "processing"} \/ Placed(t)',
         \A s \in Sweepers : spc'[s] = "sweepStatus" =>
            (spc[s] = "sweepStatus" /\ stask'[s] = stask[s]) \/ Placed(stask[s])'
  PROVE  PlaceInv'
<1>1. \A s \in Sweepers : spc'[s] = "sweepStatus" => stask'[s] \in Tasks
  BY DEF TypeOK, HandOK
<1>2. \A s \in Sweepers : spc'[s] = "sweepStatus" => Placed(stask[s])'
  <2> SUFFICES ASSUME NEW s \in Sweepers, spc'[s] = "sweepStatus", spc[s] = "sweepStatus",
                      NEW t \in Tasks, t = stask[s], t = stask'[s]
               PROVE  Placed(stask[s])'
    BY <1>1
  <2>1. Placed(t)' BY DEF PlaceInv
  <2>2. QED BY <2>1
<1>3. QED BY <1>2 DEF PlaceInv

LEMMA PlaceStep ==
  ASSUME TypeOK, TypeOK', IdleHands, PlaceInv, [Next]_vars
  PROVE  PlaceInv'
<1> USE ConstantsOK DEF TypeOK, Goto, SGoto
<1>0. \A t \in Tasks : Placed(t) => Placed(t)' BY PlacedStays
<1>1. ASSUME NEW c \in Clients, Client(c) PROVE PlaceInv'
  <2>1. CASE SaveTask(c)
    <3>1. /\ UNCHANGED <<ctask, spc, stask>> /\ cpc'[c] = "saved"
          /\ \A t \in Tasks \ {ctask[c]} : status'[t] = status[t]
      BY <2>1 DEF SaveTask
    <3>2. Placed(ctask[c])' BY <3>1 DEF Placed
    <3>3. QED BY <1>0, <3>1, <3>2, PlaceKept
  <2>2. CASE ~SaveTask(c)
    <3>1. UNCHANGED <<status, spc, stask>>
      BY <1>1, <2>2 DEF Client, CheckUserQuota, CheckGlobalQuota, PushTask, JoinBatch
    <3>2. QED BY <1>0, <3>1, PlaceKept
  <2>3. QED BY <2>1, <2>2
<1>2. ASSUME NEW w \in Workers, WorkerStep(w) PROVE PlaceInv'
  <2>1. CASE StartTask(w)
    <3>1. /\ UNCHANGED <<wtask, spc, stask, crashed>>
          /\ \A t \in Tasks \ {wtask[w]} : status'[t] = status[t]
      BY <2>1 DEF StartTask
    <3>2. Placed(wtask[w])' BY <1>2, <3>1 DEF Placed, WorkerStep
    <3>3. QED BY <1>0, <3>1, <3>2, PlaceKept
  <2>2. CASE AckStatus(w)
    <3>1. /\ UNCHANGED <<spc, stask>> /\ wtask[w] \in Tasks
          /\ status' = [status EXCEPT ![wtask[w]] = IF wok[w] THEN "completed" ELSE "failed"]
      BY <2>2 DEF AckStatus, HandOK
    <3>2. \A t \in Tasks : status'[t] \in {"queued", "processing"} => status'[t] = status[t]
      BY <3>1
    <3>3. QED BY <1>0, <3>1, <3>2, PlaceKept
  <2>3. CASE ~StartTask(w) /\ ~AckStatus(w)
    <3>1. UNCHANGED <<status, spc, stask>>
      BY <1>2, <2>3 DEF WorkerStep, Pop, RecheckUserQuota, PushBack, MarkUser, MarkGlobal,
         WriteVisibility, ArmVisibility, Analyse, AckUnmarkUser, AckUnmarkGlobal,
         AckClearVisibility, AckSet
    <3>2. QED BY <1>0, <3>1, PlaceKept
  <2>4. QED BY <2>1, <2>2, <2>3
<1>3. ASSUME NEW s \in Sweepers, SweepStep(s) PROVE PlaceInv'
  <2>0. \A r \in Sweepers \ {s} : stask'[r] = stask[r] /\ spc'[r] = spc[r]
    BY <1>3 DEF SweepStep, CollectExpired, HandleExpired, SweepUnmarkUser,
       SweepUnmarkGlobal, SweepClearVisibility, SweepPush, SweepStatus, LeaveTask
  <2>1. CASE SweepPush(s)
    <3>1. /\ stask[s] \in Tasks /\ ready' = Append(ready, stask[s])
          /\ UNCHANGED <<status, stask>>
      BY <2>1 DEF SweepPush, HandOK
    <3>2. InReady(stask[s])' BY <3>1, ReadyPushed
    <3>3. Placed(stask[s])' BY <3>2 DEF Placed
    <3>4. QED BY <1>0, <2>0, <3>1, <3>3, PlaceKept
  <2>2. CASE SweepStatus(s)
    <3>1. PICK u \in Tasks : /\ u = stask[s] /\ spc[s] = "sweepStatus"
                             /\ spc'[s] # "sweepStatus"
                             /\ \A t \in Tasks \ {u} : status'[t] = status[t]
      BY <2>2 DEF SweepStatus, LeaveTask, HandOK
    <3>2. Placed(u)' BY <1>0, <3>1 DEF PlaceInv
    <3>3. QED BY <1>0, <2>0, <3>1, <3>2, PlaceKept
  <2>3. CASE ~SweepPush(s) /\ ~SweepStatus(s)
    <3>1. status' = status /\ spc'[s] # "sweepStatus"
      BY <1>3, <2>3 DEF SweepStep, CollectExpired, HandleExpired, SweepUnmarkUser,
         SweepUnmarkGlobal, SweepClearVisibility
    <3>2. QED BY <1>0, <2>0, <3>1, PlaceKept
  <2>4. QED BY <2>1, <2>2, <2>3
<1>4. ASSUME NEW k \in Cancellers, CancelStep(k) PROVE PlaceInv'
  <2>1. CASE CancelWrite(k)
    <3>1. /\ UNCHANGED <<spc, stask>>
          /\ \A t \in Tasks : status'[t] \in {status[t], "cancelled"}
      BY <2>1 DEF CancelWrite
    <3>2. QED BY <1>0, <3>1, PlaceKept
  <2>2. CASE ~CancelWrite(k)
    <3>1. UNCHANGED <<status, spc, stask>>
      BY <1>4, <2>2 DEF CancelStep, CancelRead, CancelUnmarkUser, CancelUnmarkGlobal,
         CancelClearVisibility, CancelRemove
    <3>2. QED BY <1>0, <3>1, PlaceKept
  <2>3. QED BY <2>1, <2>2
<1>5. CASE \/ \E w \in Workers \ crashed : RedisError(w) \/ Crash(w)
           \/ \E t \in Tasks : ClockStep(t)
           \/ UNCHANGED vars
  <2>1. UNCHANGED <<status, spc, stask>>
    BY <1>5 DEF RedisError, Crash, ClockStep, TimeoutPasses, KeyExpires, vars
  <2>2. QED BY <1>0, <2>1, PlaceKept
<1>6. CASE HandlerError
  <2>1. /\ status' = status
        /\ \A s \in Sweepers : spc'[s] = "sweepStatus" =>
             spc[s] = "sweepStatus" /\ stask'[s] = stask[s]
    BY <1>6, ErrorEnds
  <2>2. QED BY <1>0, <2>1, PlaceKept
<1>7. QED BY <1>1, <1>2, <1>3, <1>4, <1>5, <1>6 DEF Next

\* An accepted task that is neither settled nor cancelled is always somewhere
\* a process will find it, unless a fault dropped it.
THEOREM NothingVanishes == Spec => []NoTaskVanishes
<1>1. Init => PlaceInv
  BY ConstantsOK DEF Init, PlaceInv
<1>2. PlaceInv => NoTaskVanishes
  BY DEF PlaceInv, Placed, NoTaskVanishes
<1>3. QED BY <1>1, <1>2, PlaceStep, HandsIdle, TypeCorrect, PTL DEF Spec
=============================================================================
