------------------------ MODULE BasicsSync_proofs ------------------------
(* Proofs about BasicsSync, for every number of calls, batches, failed      *)
(* writes and restarts.                                                     *)
EXTENDS BasicsSync, TLAPS

\* What a call is.
SyncRecords == [at: Services, pc: {"none", "lock", "ask"} \cup AtWork, force: BOOLEAN,
                batch: Nat, errors: Nat]

\* What FlagTellsTruth rests on: no call has a place before it is made; a forced
\* call is remembered; and while one is at work without the flag, a forced one
\* has ended beside it.
FlagInv ==
    /\ \A s \in Syncs : s > count.syncs => syncs[s].pc = "none"
    /\ \A s \in Syncs : syncs[s].force => seen[syncs[s].at].forced
    /\ \A s \in Syncs : Working(s) => flag[syncs[s].at] \/ seen[syncs[s].at].forced

\* Between its first and its final status write.
Reporting(s) == syncs[s].pc \in {"fetch", "write", "finish", "fail"}

\* What StatusSettles rests on: without troubles the document has the outcome of
\* the call that ended last, or a call is still to write its own.
SettleInv ==
    count.troubles = 0 => \/ doc.by = ended /\ doc.status # "running"
                          \/ \E s \in Syncs : Reporting(s)

-----------------------------------------------------------------------------
\* The ways a step changes the calls: all others keep their records.
LEMMA CallChanges ==
    ASSUME SyncTypeOK, NEW s \in Syncs, NEW pc \in {"none", "lock", "ask"} \cup AtWork
    PROVE  /\ GoOn(s, pc) =>
                /\ syncs' \in [Syncs -> SyncRecords]
                /\ syncs'[s].pc = pc /\ syncs'[s].at = syncs[s].at
                /\ syncs'[s].force = syncs[s].force
                /\ \A r \in Syncs \ {s} : syncs'[r] = syncs[r]
           /\ Return(s) =>
                /\ syncs' \in [Syncs -> SyncRecords]
                /\ syncs'[s] = NoSync
                /\ \A r \in Syncs \ {s} : syncs'[r] = syncs[r]
<1>1. syncs \in [Syncs -> SyncRecords]
  BY DEF SyncTypeOK, SyncRecords
<1>2. [syncs[s] EXCEPT !.pc = pc] \in SyncRecords /\ NoSync \in SyncRecords
  BY <1>1 DEF SyncRecords, NoSync, Services
<1>3. ASSUME GoOn(s, pc)
      PROVE  /\ syncs' \in [Syncs -> SyncRecords]
             /\ syncs'[s].pc = pc /\ syncs'[s].at = syncs[s].at
             /\ syncs'[s].force = syncs[s].force
             /\ \A r \in Syncs \ {s} : syncs'[r] = syncs[r]
  <2>1. syncs' = [syncs EXCEPT ![s] = [syncs[s] EXCEPT !.pc = pc]]
    BY <1>3 DEF GoOn
  <2>2. syncs' \in [Syncs -> SyncRecords]
    BY <1>1, <1>2, <2>1
  <2>3. QED BY <1>1, <2>1, <2>2 DEF SyncRecords
<1>4. ASSUME Return(s)
      PROVE  /\ syncs' \in [Syncs -> SyncRecords]
             /\ syncs'[s] = NoSync
             /\ \A r \in Syncs \ {s} : syncs'[r] = syncs[r]
  BY <1>1, <1>2, <1>4 DEF Return
<1>5. QED BY <1>3, <1>4

\* A batch changes neither whose call it is nor whether it was forced.
LEMMA BatchChanges ==
    ASSUME SyncTypeOK, NEW s \in Syncs, WriteBatch(s)
    PROVE  /\ syncs' \in [Syncs -> SyncRecords]
           /\ syncs'[s].pc \in {"write", "finish"} /\ syncs'[s].at = syncs[s].at
           /\ syncs'[s].force = syncs[s].force
           /\ \A r \in Syncs \ {s} : syncs'[r] = syncs[r]
<1>1. syncs \in [Syncs -> SyncRecords] /\ syncs[s].pc = "write"
  BY DEF SyncTypeOK, SyncRecords, WriteBatch
<1>2. PICK failed \in 0 .. 1 : NextBatch(s, failed)
  BY DEF WriteBatch
<1> DEFINE counted == [syncs[s] EXCEPT !.batch = @ + 1]
           failing == [counted EXCEPT !.errors = @ + failed]
           pc == IF syncs[s].batch + 1 = Batches THEN "finish" ELSE syncs[s].pc
<1>3. syncs' = [syncs EXCEPT ![s] = [failing EXCEPT !.pc = pc]]
  BY <1>2 DEF NextBatch
<1>p. pc \in {"write", "finish"}
  BY <1>1
<1> HIDE DEF pc
<1>4. counted \in SyncRecords /\ counted.at = syncs[s].at /\ counted.force = syncs[s].force
  BY <1>1 DEF SyncRecords
<1> HIDE DEF counted
<1>5. failing \in SyncRecords /\ failing.at = counted.at /\ failing.force = counted.force
  BY <1>4 DEF SyncRecords
<1> HIDE DEF failing
<1>6. [failing EXCEPT !.pc = pc] \in SyncRecords
  BY <1>5, <1>p DEF SyncRecords, AtWork
<1>7. syncs' \in [Syncs -> SyncRecords]
  BY <1>1, <1>3, <1>6
<1>8. QED BY <1>1, <1>3, <1>p, <1>4, <1>5, <1>7 DEF SyncRecords

\* What a status write leaves behind.
LEMMA PersistFacts ==
    ASSUME SyncTypeOK, NEW s \in Syncs, NEW status \in Statuses, Persist(s, status)
    PROVE  /\ doc' = [status |-> status, by |-> s]
           /\ doc' \in [status: Statuses, by: Nat]
           /\ last' \in [Services -> [status: Statuses, by: Nat]]
<1>1. doc' = [status |-> status, by |-> s] /\ last' = [last EXCEPT ![syncs[s].at] = doc']
  BY DEF Persist
<1>2. doc' \in [status: Statuses, by: Nat]
  BY <1>1 DEF Syncs
<1>3. QED BY <1>1, <1>2 DEF SyncTypeOK

\* What a status write that raises leaves behind.
LEMMA RaiseFacts ==
    ASSUME SyncTypeOK, NEW s \in Syncs, NEW status \in Statuses, PersistRaises(s, status)
    PROVE  /\ doc' \in [status: Statuses, by: Nat] /\ UNCHANGED last
           /\ count' \in [syncs: Nat, troubles: Nat] /\ count'.syncs = count.syncs
<1>1. [status |-> status, by |-> s] \in [status: Statuses, by: Nat]
  BY DEF Syncs
<1>2. QED BY <1>1 DEF PersistRaises, SyncTrouble, SyncTypeOK

\* Every variable keeps its type.
THEOREM SyncTypes == SyncSpec => []SyncTypeOK
<1>1. SyncInit => SyncTypeOK
  BY DEF SyncInit, SyncTypeOK, NoSync, NoStatus, Services, Statuses
<1>2. SyncTypeOK /\ [SyncNext]_syncVars => SyncTypeOK'
  <2> SUFFICES ASSUME SyncTypeOK, [SyncNext]_syncVars PROVE SyncTypeOK'
    OBVIOUS
  <2>0. \A s \in Syncs : Return(s) => syncs' \in [Syncs -> SyncRecords]
    BY CallChanges
  <2>1. ASSUME NEW s \in Syncs, NEW service \in Services, NEW force \in BOOLEAN,
               CallSync(s, service, force)
        PROVE  SyncTypeOK'
    <3>1. syncs' \in [Syncs -> SyncRecords]
      <4>1. [NoSync EXCEPT !.at = service, !.pc = "lock", !.force = force] \in SyncRecords
        BY DEF SyncRecords, NoSync
      <4>2. syncs \in [Syncs -> SyncRecords]
        BY DEF SyncTypeOK, SyncRecords
      <4>3. QED BY <2>1, <4>1, <4>2 DEF CallSync
    <3>2. count' \in [syncs: Nat, troubles: Nat]
      <4>1. count' = [count EXCEPT !.syncs = s] /\ s \in Nat
        BY <2>1 DEF CallSync, Syncs
      <4>2. QED BY <4>1 DEF SyncTypeOK
    <3>3. seen' \in [Services -> [forced: BOOLEAN, raised: BOOLEAN]]
      BY <2>1 DEF CallSync, SyncTypeOK
    <3>4. QED BY <2>1, <3>1, <3>2, <3>3 DEF CallSync, SyncTypeOK, SyncRecords
  <2>2. ASSUME NEW s \in Syncs, TakeFlag(s) PROVE SyncTypeOK'
    BY <2>2, CallChanges DEF TakeFlag, SyncTypeOK, SyncRecords, AtWork
  <2>3. ASSUME NEW s \in Syncs, SkipSync(s) \/ AskStatus(s) PROVE SyncTypeOK'
    <3>1. syncs' \in [Syncs -> SyncRecords]
      BY <2>0, <2>3, CallChanges DEF SkipSync, AskStatus
    <3>2. QED BY <2>3, <3>1 DEF SkipSync, AskStatus, SyncTypeOK, SyncRecords
  <2>4. ASSUME NEW s \in Syncs, PersistRunning(s) PROVE SyncTypeOK'
    <3>1. syncs' \in [Syncs -> SyncRecords]
      BY <2>4, CallChanges DEF PersistRunning, AtWork
    <3>2. QED BY <2>4, <3>1, PersistFacts DEF PersistRunning, SyncTypeOK, SyncRecords, Statuses
  <2>5. ASSUME NEW s \in Syncs, PersistRunningRaises(s) PROVE SyncTypeOK'
    <3>1. syncs' \in [Syncs -> SyncRecords]
      BY <2>0, <2>5 DEF PersistRunningRaises
    <3>2. PersistRaises(s, "running") /\ "running" \in Statuses
      BY <2>5 DEF PersistRunningRaises, Statuses
    <3>3. QED BY <2>5, <3>1, <3>2, RaiseFacts DEF PersistRunningRaises, SyncTypeOK, SyncRecords
  <2>6. ASSUME NEW s \in Syncs, FetchList(s) PROVE SyncTypeOK'
    <3>1. syncs' \in [Syncs -> SyncRecords]
      BY <2>6, CallChanges DEF FetchList, AtWork
    <3>2. QED BY <2>6, <3>1 DEF FetchList, SyncTypeOK, SyncRecords
  <2>7. ASSUME NEW s \in Syncs, WriteBatch(s) PROVE SyncTypeOK'
    <3>1. syncs' \in [Syncs -> SyncRecords]
      BY <2>7, BatchChanges
    <3>2. QED BY <2>7, <3>1 DEF WriteBatch, SyncTypeOK, SyncRecords
  <2>8. ASSUME NEW s \in Syncs, PersistResult(s) PROVE SyncTypeOK'
    <3>1. syncs' \in [Syncs -> SyncRecords]
      BY <2>8, CallChanges DEF PersistResult, AtWork
    <3>2. doc' \in [status: Statuses, by: Nat]
          /\ last' \in [Services -> [status: Statuses, by: Nat]]
      BY <2>8, PersistFacts DEF PersistResult, Result, Statuses, FinalStatus
    <3>3. QED BY <2>8, <3>1, <3>2 DEF PersistResult, SyncTypeOK, SyncRecords, Syncs
  <2>9. ASSUME NEW s \in Syncs, PersistResultRaises(s) PROVE SyncTypeOK'
    <3>1. syncs' \in [Syncs -> SyncRecords]
      BY <2>9, CallChanges DEF PersistResultRaises, AtWork
    <3>2. PersistRaises(s, Result(s)) /\ Result(s) \in Statuses
      BY <2>9 DEF PersistResultRaises, Result, Statuses, FinalStatus
    <3>3. QED BY <2>9, <3>1, <3>2, RaiseFacts DEF PersistResultRaises, SyncTypeOK, SyncRecords
  <2>10. ASSUME NEW s \in Syncs, ClearFlag(s) PROVE SyncTypeOK'
    <3>1. syncs' \in [Syncs -> SyncRecords]
      BY <2>0, <2>10 DEF ClearFlag
    <3>2. QED BY <2>10, <3>1 DEF ClearFlag, SyncTypeOK, SyncRecords
  <2>11. CASE RestartSync
    <3>1. count' \in [syncs: Nat, troubles: Nat]
      BY <2>11 DEF RestartSync, SyncTrouble, SyncTypeOK
    <3>2. QED BY <2>11, <3>1 DEF RestartSync, SyncTypeOK, NoSync, NoStatus, Services, Statuses
  <2>12. CASE UNCHANGED syncVars BY <2>12 DEF syncVars, SyncTypeOK
  <2>13. QED BY <2>1, <2>2, <2>3, <2>4, <2>5, <2>6, <2>7, <2>8, <2>9, <2>10, <2>11, <2>12
         DEF SyncNext
<1>3. QED BY <1>1, <1>2, PTL DEF SyncSpec

-----------------------------------------------------------------------------
\* A step of a call at work that leaves flag, history and its owner alone.
LEMMA QuietStep ==
    ASSUME SyncTypeOK, SyncTypeOK', FlagInv, FlagTellsTruth, NEW s \in Syncs,
           UNCHANGED <<flag, seen>>, count'.syncs = count.syncs,
           Working(s) <=> Working(s)', syncs[s].pc # "none",
           syncs'[s].at = syncs[s].at, syncs'[s].force = syncs[s].force,
           \A r \in Syncs \ {s} : syncs'[r] = syncs[r]
    PROVE  FlagInv' /\ FlagTellsTruth'
<1>1. \A r \in Syncs : /\ Working(r)' <=> Working(r)
                       /\ syncs'[r].at = syncs[r].at /\ syncs'[r].force = syncs[r].force
                       /\ syncs[r].pc = "none" => syncs'[r].pc = "none"
  BY DEF Working
<1>2. FlagInv' BY <1>1 DEF FlagInv
<1>3. FlagTellsTruth' BY <1>1 DEF FlagTellsTruth
<1>4. QED BY <1>2, <1>3

\* A call that is not at work leaves.
LEMMA QuietReturn ==
    ASSUME SyncTypeOK, FlagInv, FlagTellsTruth, NEW s \in Syncs, ~Working(s),
           UNCHANGED <<flag, seen, count>>, Return(s)
    PROVE  FlagInv' /\ FlagTellsTruth'
<1>1. syncs'[s] = NoSync /\ \A r \in Syncs \ {s} : syncs'[r] = syncs[r]
  BY CallChanges
<1>2. \A r \in Syncs : /\ Working(r)' <=> Working(r)
                       /\ Working(r) => syncs'[r].at = syncs[r].at
                       /\ syncs'[r].force => syncs[r].force /\ syncs'[r].at = syncs[r].at
                       /\ syncs[r].pc = "none" => syncs'[r].pc = "none"
  BY <1>1 DEF Working, NoSync, AtWork
<1>3. FlagInv' BY <1>2 DEF FlagInv
<1>4. FlagTellsTruth' BY <1>2 DEF FlagTellsTruth
<1>5. QED BY <1>3, <1>4

\* FlagInv is inductive together with what it is for.
LEMMA FlagInvariant == SyncSpec => [](FlagInv /\ FlagTellsTruth)
<1>1. SyncInit => FlagInv /\ FlagTellsTruth
  BY DEF SyncInit, FlagInv, FlagTellsTruth, Working, AtWork, NoSync, Services
<1>2. /\ SyncTypeOK /\ SyncTypeOK' /\ FlagInv /\ FlagTellsTruth /\ [SyncNext]_syncVars
      => FlagInv' /\ FlagTellsTruth'
  <2> SUFFICES ASSUME SyncTypeOK, SyncTypeOK', FlagInv, FlagTellsTruth, [SyncNext]_syncVars
               PROVE  FlagInv' /\ FlagTellsTruth'
    OBVIOUS
  <2>1. ASSUME NEW s \in Syncs, NEW service \in Services, NEW force \in BOOLEAN,
               CallSync(s, service, force)
        PROVE  FlagInv' /\ FlagTellsTruth'
    <3>1. /\ s = count.syncs + 1 /\ count'.syncs = s /\ flag' = flag
          /\ syncs'[s] = [NoSync EXCEPT !.at = service, !.pc = "lock", !.force = force]
          /\ \A r \in Syncs \ {s} : syncs'[r] = syncs[r]
          /\ force => seen'[service].forced
          /\ \A v \in Services : /\ seen[v].forced => seen'[v].forced
                                 /\ seen'[v].raised = seen[v].raised
      BY <2>1 DEF CallSync, SyncTypeOK
    <3>2. ~Working(s)' /\ ~Working(s) /\ syncs'[s].at = service /\ syncs'[s].force = force
      <4>1. s > count.syncs BY <3>1 DEF SyncTypeOK, Syncs
      <4>2. syncs[s].pc = "none" BY <4>1 DEF FlagInv
      <4>3. QED BY <3>1, <4>2 DEF Working, AtWork, NoSync
    <3>3. \A r \in Syncs : /\ Working(r)' <=> Working(r)
                           /\ Working(r) => syncs'[r] = syncs[r]
                           /\ syncs[r].at \in Services
      BY <3>1, <3>2 DEF Working, SyncTypeOK
    <3>4. FlagInv'
      <4>1. ASSUME NEW r \in Syncs, r > count'.syncs PROVE syncs'[r].pc = "none"
        <5>1. count.syncs \in Nat /\ r \in Nat BY DEF SyncTypeOK, Syncs
        <5>2. r > count.syncs /\ r # s BY <3>1, <4>1, <5>1
        <5>3. QED BY <3>1, <5>2 DEF FlagInv
      <4>2. ASSUME NEW r \in Syncs, syncs'[r].force PROVE seen'[syncs'[r].at].forced
        BY <3>1, <3>2, <3>3, <4>2 DEF FlagInv
      <4>3. ASSUME NEW r \in Syncs, Working(r)'
            PROVE  flag'[syncs'[r].at] \/ seen'[syncs'[r].at].forced
        BY <3>1, <3>3, <4>3 DEF FlagInv
      <4>4. QED BY <4>1, <4>2, <4>3 DEF FlagInv
    <3>5. FlagTellsTruth'
      BY <3>1, <3>3 DEF FlagTellsTruth
    <3>6. QED BY <3>4, <3>5
  <2>2. ASSUME NEW s \in Syncs, TakeFlag(s) PROVE FlagInv' /\ FlagTellsTruth'
    <3>1. /\ syncs'[s].pc = "begin" /\ syncs'[s].at = syncs[s].at
          /\ syncs'[s].force = syncs[s].force
          /\ \A r \in Syncs \ {s} : syncs'[r] = syncs[r]
          /\ ~Working(s) /\ syncs[s].pc = "lock"
      BY <2>2, CallChanges DEF TakeFlag, AtWork, Working
    <3>2. /\ \A r \in Syncs \ {s} : Working(r)' <=> Working(r)
          /\ Working(s)'
      BY <3>1 DEF Working, AtWork
    <3>3. flag' = [flag EXCEPT ![syncs[s].at] = TRUE] /\ UNCHANGED <<seen, count>>
      BY <2>2 DEF TakeFlag
    <3>a. /\ \A v \in Services : flag[v] => flag'[v]
          /\ flag'[syncs[s].at]
          /\ \A v \in Services \ {syncs[s].at} : flag'[v] = flag[v]
          /\ \A r \in Syncs : syncs[r].at \in Services
      BY <3>3 DEF SyncTypeOK
    <3>4. FlagInv'
      <4>1. ASSUME NEW r \in Syncs, r > count'.syncs PROVE syncs'[r].pc = "none"
        BY <3>1, <3>3, <4>1 DEF FlagInv
      <4>2. ASSUME NEW r \in Syncs, syncs'[r].force PROVE seen'[syncs'[r].at].forced
        BY <3>1, <3>3, <4>2 DEF FlagInv
      <4>3. ASSUME NEW r \in Syncs, Working(r)'
            PROVE  flag'[syncs'[r].at] \/ seen'[syncs'[r].at].forced
        BY <3>1, <3>2, <3>3, <3>a, <4>3 DEF FlagInv
      <4>4. QED BY <4>1, <4>2, <4>3 DEF FlagInv
    <3>5. ASSUME NEW r \in Syncs \ {s}, Working(r), syncs[r].at = syncs[s].at
          PROVE  seen[syncs[s].at].forced
      <4>1. flag[syncs[s].at] \/ seen[syncs[s].at].forced BY <3>5 DEF FlagInv
      <4>2. ~flag[syncs[s].at] \/ syncs[s].force BY <2>2 DEF TakeFlag
      <4>3. QED BY <4>1, <4>2 DEF FlagInv
    <3>6. FlagTellsTruth'
      <4>1. ASSUME NEW v \in Services, flag'[v]
            PROVE  seen'[v].raised \/ \E r \in Syncs : syncs'[r].at = v /\ Working(r)'
        BY <3>1, <3>2, <3>3, <3>a, <4>1 DEF FlagTellsTruth
      <4>2. ASSUME NEW v \in Services, NEW q \in Syncs, NEW r \in Syncs, q # r,
                   Working(q)', Working(r)', syncs'[q].at = v, syncs'[r].at = v
            PROVE  seen'[v].forced
        BY <3>1, <3>2, <3>3, <3>5, <4>2 DEF FlagTellsTruth
      <4>3. QED BY <4>1, <4>2 DEF FlagTellsTruth
    <3>7. QED BY <3>4, <3>6
  <2>3. ASSUME NEW s \in Syncs, SkipSync(s) \/ AskStatus(s)
        PROVE  FlagInv' /\ FlagTellsTruth'
    <3>1. CASE Return(s)
      BY <2>3, <3>1, QuietReturn DEF SkipSync, AskStatus, Working, AtWork
    <3>2. CASE GoOn(s, "ask") /\ SkipSync(s)
      BY <3>2, CallChanges, QuietStep DEF SkipSync, Working, AtWork
    <3>3. QED BY <2>3, <3>1, <3>2 DEF SkipSync, AskStatus
  <2>4. ASSUME NEW s \in Syncs,
               PersistRunning(s) \/ FetchList(s) \/ PersistResult(s) \/ PersistResultRaises(s)
        PROVE  FlagInv' /\ FlagTellsTruth'
    <3>1. PICK pc \in AtWork : GoOn(s, pc)
      BY <2>4 DEF PersistRunning, FetchList, PersistResult, PersistResultRaises, AtWork
    <3>2. /\ UNCHANGED <<flag, seen>> /\ count'.syncs = count.syncs
          /\ syncs[s].pc \in AtWork
      BY <2>4 DEF PersistRunning, FetchList, PersistResult, PersistResultRaises, AtWork,
                  PersistRaises, SyncTrouble, SyncTypeOK
    <3>3. QED BY <3>1, <3>2, CallChanges, QuietStep DEF Working, AtWork
  <2>5. ASSUME NEW s \in Syncs, WriteBatch(s) PROVE FlagInv' /\ FlagTellsTruth'
    BY <2>5, BatchChanges, QuietStep DEF WriteBatch, Working, AtWork
  <2>6. ASSUME NEW s \in Syncs, PersistRunningRaises(s) PROVE FlagInv' /\ FlagTellsTruth'
    <3>1. /\ syncs'[s] = NoSync /\ flag' = flag /\ count'.syncs = count.syncs
          /\ \A r \in Syncs \ {s} : syncs'[r] = syncs[r]
          /\ seen' = [seen EXCEPT ![syncs[s].at].raised = TRUE]
      BY <2>6, CallChanges DEF PersistRunningRaises, PersistRaises, SyncTrouble, SyncTypeOK
    <3>2. /\ ~Working(s)' /\ syncs'[s].force = FALSE /\ syncs'[s].pc = "none"
          /\ \A r \in Syncs \ {s} : Working(r)' <=> Working(r)
      BY <3>1 DEF Working, NoSync, AtWork
    <3>3. /\ \A v \in Services : seen'[v].forced = seen[v].forced
          /\ seen'[syncs[s].at].raised
          /\ \A v \in Services : seen[v].raised => seen'[v].raised
          /\ \A r \in Syncs : syncs[r].at \in Services
      BY <3>1 DEF SyncTypeOK
    <3>4. FlagInv' BY <3>1, <3>2, <3>3 DEF FlagInv
    <3>5. FlagTellsTruth' BY <3>1, <3>2, <3>3 DEF FlagTellsTruth
    <3>6. QED BY <3>4, <3>5
  <2>7. ASSUME NEW s \in Syncs, ClearFlag(s) PROVE FlagInv' /\ FlagTellsTruth'
    <3>1. /\ syncs'[s] = NoSync /\ UNCHANGED <<seen, count>>
          /\ \A r \in Syncs \ {s} : syncs'[r] = syncs[r]
          /\ flag' = [flag EXCEPT ![syncs[s].at] = FALSE]
          /\ Working(s)
      BY <2>7, CallChanges DEF ClearFlag, Working, AtWork
    <3>2. /\ ~Working(s)' /\ syncs'[s].force = FALSE /\ syncs'[s].pc = "none"
          /\ \A r \in Syncs \ {s} : Working(r)' <=> Working(r)
          /\ \A r \in Syncs : syncs[r].at \in Services
      BY <3>1 DEF Working, NoSync, AtWork, SyncTypeOK
    <3>3. ASSUME NEW r \in Syncs \ {s}, Working(r), syncs[r].at = syncs[s].at
          PROVE  seen[syncs[r].at].forced
      BY <3>1, <3>2, <3>3 DEF FlagTellsTruth
    <3>a. /\ ~flag'[syncs[s].at]
          /\ \A v \in Services \ {syncs[s].at} : flag'[v] = flag[v]
      BY <3>1, <3>2 DEF SyncTypeOK
    <3>4. FlagInv'
      <4>1. ASSUME NEW r \in Syncs, Working(r)'
            PROVE  flag'[syncs'[r].at] \/ seen'[syncs'[r].at].forced
        <5>1. r # s /\ Working(r) /\ syncs'[r] = syncs[r] BY <3>1, <3>2, <4>1
        <5>2. CASE syncs[r].at = syncs[s].at BY <3>1, <3>3, <5>1, <5>2
        <5>3. CASE syncs[r].at # syncs[s].at
          BY <3>1, <3>2, <3>a, <5>1, <5>3 DEF FlagInv
        <5>4. QED BY <5>2, <5>3
      <4>2. QED BY <3>1, <3>2, <4>1 DEF FlagInv
    <3>5. FlagTellsTruth'
      <4>1. ASSUME NEW v \in Services, flag'[v]
            PROVE  seen'[v].raised \/ \E r \in Syncs : syncs'[r].at = v /\ Working(r)'
        <5>1. v # syncs[s].at /\ flag[v] BY <3>a, <4>1
        <5>2. QED BY <3>1, <3>2, <5>1 DEF FlagTellsTruth
      <4>2. QED BY <3>1, <3>2, <4>1 DEF FlagTellsTruth
    <3>6. QED BY <3>4, <3>5
  <2>8. CASE RestartSync
    BY <2>8 DEF RestartSync, FlagInv, FlagTellsTruth, NoSync, Working, AtWork, Services
  <2>9. CASE UNCHANGED syncVars
    BY <2>9 DEF syncVars, FlagInv, FlagTellsTruth, Working
  <2>10. QED BY <2>1, <2>2, <2>3, <2>4, <2>5, <2>6, <2>7, <2>8, <2>9 DEF SyncNext
<1>3. QED BY <1>1, <1>2, SyncTypes, PTL DEF SyncSpec

\* A service refuses only while it is at work (or a first write has raised), and
\* works twice at once only after a forced call, whoever clears the flag.
THEOREM FlagIsTruthful == SyncSpec => []FlagTellsTruth
  BY FlagInvariant, PTL

-----------------------------------------------------------------------------
\* Without restarts and failed writes the document ends with the outcome of the
\* call that ended last.
THEOREM StatusIsSettled == SyncSpec => []StatusSettles
<1>1. SyncInit => SettleInv
  BY DEF SyncInit, SettleInv, NoStatus
<1>2. SyncTypeOK /\ FlagInv /\ SettleInv /\ [SyncNext]_syncVars => SettleInv'
  <2> SUFFICES ASSUME SyncTypeOK, FlagInv, SettleInv, [SyncNext]_syncVars PROVE SettleInv'
    OBVIOUS
  <2>1. ASSUME NEW s \in Syncs, PersistRunning(s) PROVE SettleInv'
    BY <2>1, CallChanges DEF PersistRunning, SettleInv, Reporting, AtWork
  <2>2. ASSUME NEW s \in Syncs, PersistResult(s) PROVE SettleInv'
    BY <2>2, PersistFacts DEF PersistResult, Result, SettleInv, Statuses, FinalStatus
  <2>3. ASSUME NEW s \in Syncs, FetchList(s) PROVE SettleInv'
    BY <2>3, CallChanges DEF FetchList, SettleInv, Reporting, AtWork
  <2>4. ASSUME NEW s \in Syncs, WriteBatch(s) PROVE SettleInv'
    BY <2>4, BatchChanges DEF WriteBatch, SettleInv, Reporting
  <2>5. ASSUME NEW s \in Syncs, ~Reporting(s), UNCHANGED <<doc, ended>>,
               count'.troubles = count.troubles,
               \A r \in Syncs \ {s} : syncs'[r] = syncs[r]
        PROVE  SettleInv'
    BY <2>5 DEF SettleInv, Reporting
  <2>6. ASSUME NEW s \in Syncs, NEW service \in Services, NEW force \in BOOLEAN,
               CallSync(s, service, force)
        PROVE  SettleInv'
    <3>1. \A r \in Syncs \ {s} : syncs'[r] = syncs[r]
      BY <2>6 DEF CallSync, SyncTypeOK
    <3>2. s = count.syncs + 1 /\ count'.troubles = count.troubles /\ UNCHANGED <<doc, ended>>
      BY <2>6 DEF CallSync, SyncTypeOK
    <3>3. s > count.syncs BY <3>2 DEF SyncTypeOK, Syncs
    <3>4. ~Reporting(s) BY <3>3 DEF FlagInv, Reporting
    <3>5. QED BY <2>5, <3>1, <3>2, <3>4
  <2>7. ASSUME NEW s \in Syncs, TakeFlag(s) \/ SkipSync(s) \/ AskStatus(s) \/ ClearFlag(s)
        PROVE  SettleInv'
    <3>1. \A r \in Syncs \ {s} : syncs'[r] = syncs[r]
      BY <2>7 DEF TakeFlag, SkipSync, AskStatus, ClearFlag, GoOn, Return, SyncTypeOK
    <3>2. QED BY <2>5, <2>7, <3>1 DEF TakeFlag, SkipSync, AskStatus, ClearFlag, Reporting
  <2>8. ASSUME SyncTrouble PROVE SettleInv'
    BY <2>8 DEF SyncTrouble, SettleInv, SyncTypeOK
  <2>9. CASE UNCHANGED syncVars
    BY <2>9 DEF syncVars, SettleInv, Reporting
  <2>10. QED BY <2>1, <2>2, <2>3, <2>4, <2>6, <2>7, <2>8, <2>9
         DEF SyncNext, PersistRunningRaises, PersistResultRaises, PersistRaises, RestartSync
<1>3. SettleInv => StatusSettles
  BY DEF SettleInv, StatusSettles, AllQuiet, Reporting
<1>4. QED BY <1>1, <1>2, <1>3, SyncTypes, FlagInvariant, PTL DEF SyncSpec

=============================================================================
