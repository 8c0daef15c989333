-------------------------- MODULE MCAnalysisQueue --------------------------
(* Small instances of AnalysisQueue for TLC.                               *)
EXTENDS AnalysisQueue, TLC

CONSTANTS t1, t2, t3, u1, u2, c1, c2, w1, w2, k1

\* Two users: u1 submits a batch of two, u2 a single task.
TwoUsersOwner  == t1 :> u1 @@ t2 :> u1 @@ t3 :> u2
TwoUsersWanted == c1 :> {t1, t2} @@ c2 :> {t3}

\* One user with a batch of two.
OneUserOwner  == t1 :> u1 @@ t2 :> u1
OneUserWanted == c1 :> {t1, t2}

\* One user with a batch of three.
ThreeTasksOwner  == t1 :> u1 @@ t2 :> u1 @@ t3 :> u1
ThreeTasksWanted == c1 :> {t1, t2, t3}

\* One task.
OneTaskOwner  == t1 :> u1
OneTaskWanted == c1 :> {t1}

\* The fields of the call in _process_task, and with the one it omits.
CodeFields     == {"task_id", "user_id", "stock_code", "batch_id", "parameters"}
RepairedFields == CodeFields \cup {"symbol"}

ThreeTasksSymmetry == Permutations({t1, t2, t3}) \cup Permutations({w1, w2})
=============================================================================
