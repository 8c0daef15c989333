---------------------------- MODULE BasicsSync ----------------------------
(***************************************************************************)
(* The synchronisation of the stock list from several sources              *)
(* (app/services/multi_source_basics_sync_service.py).  One service belongs *)
(* to the start-up code of app/main.py, another to the routes of            *)
(* app/routers/multi_source_sync.py: each has its own lock, flag and last    *)
(* status, and both write the same status document.                         *)
(*                                                                         *)
(* One step is what a run does between two awaits that another run can use. *)
(***************************************************************************)
EXTENDS Naturals

CONSTANTS Batches,         \* batches of 500 stocks
          MaxSyncs,        \* calls of run_full_sync
          MaxSyncTroubles \* status writes that raise, and restarts

ASSUME SyncConstants ==
    /\ Batches \in Nat \ {0} /\ MaxSyncs \in Nat /\ MaxSyncTroubles \in Nat

VARIABLES startup, \* the call of the start-up code is still to come
          flag,    \* _running, per service
          last,    \* _last_status, per service
          doc,     \* the document of sync_status: its status and whose it is
          syncs,   \* per call: its service, place, batches and errors
          seen,    \* per service, since the start: was a call forced, did a first
                   \* status write raise (history)
          ended,   \* the call that wrote its final status last (history)
          count    \* calls and troubles so far

syncVars == <<startup, flag, last, doc, syncs, seen, ended, count>>

-----------------------------------------------------------------------------
Services == {"main", "routes"}
Syncs == 1 .. MaxSyncs
FinalStatus == {"success", "success_with_errors", "failed"}
Statuses == {"none", "running"} \cup FinalStatus

NoStatus == [status |-> "none", by |-> 0]
NoSync == [at |-> "main", pc |-> "none", force |-> FALSE, batch |-> 0,
           errors |-> 0]

\* Past the check of the flag and before it is cleared.
AtWork == {"begin", "fetch", "write", "finish", "fail", "clear"}
Working(s) == syncs[s].pc \in AtWork
AllQuiet == \A s \in Syncs : syncs[s].pc = "none"

\* The lock is held across an await only while the status is read.
Locked(service) == \E s \in Syncs : syncs[s].at = service /\ syncs[s].pc = "ask"

SyncInit ==
    /\ startup = TRUE
    /\ flag = [v \in Services |-> FALSE]
    /\ last = [v \in Services |-> NoStatus]
    /\ doc = NoStatus
    /\ syncs = [s \in Syncs |-> NoSync]
    /\ seen = [v \in Services |-> [forced |-> FALSE, raised |-> FALSE]]
    /\ ended = 0
    /\ count = [syncs |-> 0, troubles |-> 0]

GoOn(s, pc) == syncs' = [syncs EXCEPT ![s].pc = pc]
Return(s) == syncs' = [syncs EXCEPT ![s] = NoSync]

SyncTrouble == /\ count.troubles < MaxSyncTroubles
               /\ count' = [count EXCEPT !.troubles = @ + 1]

-----------------------------------------------------------------------------
\* Start-up calls once and unforced, the routes as often as asked.
CallSync(s, service, force) ==
    /\ s = count.syncs + 1
    /\ service = "main" => startup /\ ~force
    /\ count' = [count EXCEPT !.syncs = s]
    /\ startup' = (startup /\ service # "main")
    /\ syncs' = [syncs EXCEPT ![s] = [NoSync EXCEPT !.at = service, !.pc = "lock",
                                                     !.force = force]]
    /\ seen' = [seen EXCEPT ![service].forced = @ \/ force]
    /\ UNCHANGED <<flag, last, doc, ended>>

TakeFlag(s) ==
    /\ syncs[s].pc = "lock" /\ ~Locked(syncs[s].at)
    /\ ~flag[syncs[s].at] \/ syncs[s].force
    /\ flag' = [flag EXCEPT ![syncs[s].at] = TRUE]
    /\ GoOn(s, "begin")
    /\ UNCHANGED <<startup, last, doc, seen, ended, count>>

\* Already running: answer the last status, from Mongo when there is none.
SkipSync(s) ==
    /\ syncs[s].pc = "lock" /\ ~Locked(syncs[s].at)
    /\ flag[syncs[s].at] /\ ~syncs[s].force
    /\ IF last[syncs[s].at] # NoStatus THEN Return(s) ELSE GoOn(s, "ask")
    /\ UNCHANGED <<startup, flag, last, doc, seen, ended, count>>

AskStatus(s) ==
    /\ syncs[s].pc = "ask"
    /\ Return(s)
    /\ UNCHANGED <<startup, flag, last, doc, seen, ended, count>>

-----------------------------------------------------------------------------
\* _persist_status
Persist(s, status) ==
    /\ doc' = [status |-> status, by |-> s]
    /\ last' = [last EXCEPT ![syncs[s].at] = doc']

\* The same when update_one raises: the server may have done it all the same.
PersistRaises(s, status) ==
    /\ SyncTrouble
    /\ doc' \in {doc, [status |-> status, by |-> s]}
    /\ UNCHANGED last

PersistRunning(s) ==
    /\ syncs[s].pc = "begin"
    /\ Persist(s, "running")
    /\ GoOn(s, "fetch")
    /\ UNCHANGED <<startup, flag, seen, ended, count>>

\* The write before the try block raises: nothing clears the flag.
PersistRunningRaises(s) ==
    /\ syncs[s].pc = "begin"
    /\ PersistRaises(s, "running")
    /\ seen' = [seen EXCEPT ![syncs[s].at].raised = TRUE]
    /\ Return(s)
    /\ UNCHANGED <<startup, flag, ended>>

\* Mutant: without a usable source the run returns before its status is written.
FetchList_EarlyReturn(s) ==
    /\ syncs[s].pc = "fetch"
    /\ GoOn(s, "write") \/ GoOn(s, "clear")
    /\ UNCHANGED <<startup, flag, last, doc, seen, ended, count>>

\* Adapters, stock list, trade date and daily figures, in threads.
FetchList(s) ==
    /\ syncs[s].pc = "fetch"
    /\ \/ GoOn(s, "write")
       \/ GoOn(s, "fail")
    /\ UNCHANGED <<startup, flag, last, doc, seen, ended, count>>

NextBatch(s, failed) ==
    syncs' = [syncs EXCEPT ![s].batch = @ + 1, ![s].errors = @ + failed,
                           ![s].pc = IF syncs[s].batch + 1 = Batches THEN "finish" ELSE @]

\* Up to three tries when a write times out; a batch that writes nothing counts
\* as errors, and the next one follows.
WriteBatch(s) ==
    /\ syncs[s].pc = "write"
    /\ \E failed \in 0 .. 1 : NextBatch(s, failed)
    /\ UNCHANGED <<startup, flag, last, doc, seen, ended, count>>

Result(s) == IF syncs[s].pc = "fail" THEN "failed"
             ELSE IF syncs[s].errors > 0 THEN "success_with_errors" ELSE "success"

PersistResult(s) ==
    /\ syncs[s].pc \in {"finish", "fail"}
    /\ Persist(s, Result(s))
    /\ ended' = s
    /\ GoOn(s, "clear")
    /\ UNCHANGED <<startup, flag, seen, count>>

\* Mutant: when the failure cannot be written either, the flag is not cleared.
PersistResultRaises_NoFinally(s) ==
    /\ PersistRaises(s, Result(s))
    /\ \/ syncs[s].pc = "finish" /\ GoOn(s, "fail")
       \/ syncs[s].pc = "fail" /\ Return(s)
    /\ UNCHANGED <<startup, flag, seen, ended>>

\* Success that cannot be written becomes a failure, and that is given up.
PersistResultRaises(s) ==
    /\ PersistRaises(s, Result(s))
    /\ \/ syncs[s].pc = "finish" /\ GoOn(s, "fail")
       \/ syncs[s].pc = "fail" /\ GoOn(s, "clear")
    /\ UNCHANGED <<startup, flag, seen, ended>>

\* finally: under the lock again, whoever else is at work.
ClearFlag(s) ==
    /\ syncs[s].pc = "clear" /\ ~Locked(syncs[s].at)
    /\ flag' = [flag EXCEPT ![syncs[s].at] = FALSE]
    /\ Return(s)
    /\ UNCHANGED <<startup, last, doc, seen, ended, count>>

\* Only the document survives the process.
RestartSync ==
    /\ SyncTrouble
    /\ startup' = TRUE
    /\ flag' = [v \in Services |-> FALSE]
    /\ last' = [v \in Services |-> NoStatus]
    /\ syncs' = [s \in Syncs |-> NoSync]
    /\ seen' = [v \in Services |-> [forced |-> FALSE, raised |-> FALSE]]
    /\ UNCHANGED <<doc, ended>>

SyncNext ==
    \/ \E s \in Syncs :
        \/ \E service \in Services, force \in BOOLEAN : CallSync(s, service, force)
        \/ TakeFlag(s) \/ SkipSync(s) \/ AskStatus(s)
        \/ PersistRunning(s) \/ PersistRunningRaises(s) \/ FetchList(s)
        \/ WriteBatch(s)
        \/ PersistResult(s) \/ PersistResultRaises(s) \/ ClearFlag(s)
    \/ RestartSync

SyncSpec == SyncInit /\ [][SyncNext]_syncVars

-----------------------------------------------------------------------------
(* Properties                                                              *)

\* Types of all variables.
SyncTypeOK ==
    /\ startup \in BOOLEAN
    /\ flag \in [Services -> BOOLEAN]
    /\ doc \in [status: Statuses, by: Nat]
    /\ last \in [Services -> [status: Statuses, by: Nat]]
    /\ syncs \in [Syncs -> [at: Services, pc: {"none", "lock", "ask"} \cup AtWork,
                            force: BOOLEAN, batch: Nat, errors: Nat]]
    /\ seen \in [Services -> [forced: BOOLEAN, raised: BOOLEAN]]
    /\ ended \in Nat
    /\ count \in [syncs: Nat, troubles: Nat]

\* A service refuses a synchronisation only while one of its own is at work,
\* or until a forced one ends once a first status write has raised; and two of its
\* synchronisations overlap only after a forced one, whose end (or start)
\* takes the flag from under the other.
FlagTellsTruth ==
    \A v \in Services :
        /\ flag[v] => seen[v].raised \/ \E s \in Syncs : syncs[s].at = v /\ Working(s)
        /\ \A s, r \in Syncs :
             s # r /\ Working(s) /\ Working(r) /\ syncs[s].at = v /\ syncs[r].at = v
             => seen[v].forced

\* Once nothing is at work the document carries the outcome of the call that
\* ended last, of whichever service: it says running, or is older, only after
\* a restart or a failed write.
StatusSettles ==
    AllQuiet /\ count.troubles = 0 => doc.by = ended /\ doc.status # "running"

=============================================================================
