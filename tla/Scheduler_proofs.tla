------------------------- MODULE Scheduler_proofs -------------------------
(* Proofs about Scheduler, for every number of runs, items and incidents.   *)
EXTENDS Scheduler, TLAPS, WellFoundedInduction

\* What OutcomeKept rests on: a document the zombie check holds is past the age
\* in which a listener could have found it, and so does not come to say success.
ZombieInv ==
    /\ \A i \in zombies : records[i].age = Stale /\ records[i].status # "success"
    /\ \A t \in tasks : t.rec # 0 => records[t.rec].age # Stale

\* What OutcomesShown rests on: runs have numbers of their own, a listener that
\* is alone is the only one ...
NumberInv ==
    /\ run.pc # Idle => 0 < run.n
    /\ \A t \in tasks : 0 < t.n /\ t.n <= run.n /\ (run.pc # Idle => t.n # run.n)
    /\ \A n \in logged : 0 < n /\ n <= run.n /\ (run.pc # Idle => n # run.n)
    /\ \A i \in DOMAIN records :
         records[i].by <= run.n /\ (run.pc # Idle => records[i].by # run.n)
    /\ \A t \in tasks : t.n \notin logged
    /\ \A t, u \in tasks : t.n = u.n => t = u
    /\ \A t \in tasks : t.alone => tasks = {t}
    /\ \A t \in tasks, i \in DOMAIN records : records[i].by # t.n

\* ... a document with an outcome is not running, and one that a listener holds
\* carries no outcome that was written alone.
ShownInv ==
    kind # "reporting" =>
      /\ \A i \in DOMAIN records : records[i].by # 0 => records[i].status # "running"
      /\ \A t \in tasks : t.rec # 0 => records[t.rec].by \notin logged
      /\ \A n \in logged : \E i \in DOMAIN records : records[i].by = n

-----------------------------------------------------------------------------
(* What the helpers find and write.                                         *)

\* A set of numbers up to n has a greatest.
LEMMA GreatestExists ==
    ASSUME NEW n \in Nat, NEW S, S \subseteq 1 .. n, S # {}
    PROVE  \E i \in S : \A j \in S : j <= i
<1> DEFINE T == {n - i : i \in S}
           R == OpToRel(<, Nat)
<1>1. T \subseteq Nat /\ T # {}
  <2>1. \A i \in S : n - i \in Nat OBVIOUS
  <2>2. PICK i \in S : TRUE OBVIOUS
  <2>3. n - i \in T OBVIOUS
  <2>4. QED BY <2>1, <2>3
<1>2. PICK x \in T : \A y \in T : ~(<<y, x>> \in R)
  <2> HIDE DEF T, R
  <2>1. IsWellFoundedOn(R, Nat) BY NatLessThanWellFounded DEF R
  <2>2. QED BY <1>1, <2>1, WFMin
<1>3. \A y \in T : x <= y
  <2> SUFFICES ASSUME NEW y \in T, y < x PROVE FALSE
    BY <1>1
  <2>1. <<y, x>> \in R BY <1>1 DEF OpToRel
  <2>2. QED BY <1>2, <2>1
<1>4. PICK i \in S : x = n - i
  OBVIOUS
<1>5. ASSUME NEW j \in S PROVE j <= i
  <2>1. n - j \in T OBVIOUS
  <2>2. x <= n - j BY <1>3, <2>1
  <2>3. QED BY <1>4, <2>2
<1>6. QED BY <1>5

\* The latest document with one of some statuses is a document with one.
LEMMA LatestFacts ==
    ASSUME SchedulerTypeOK, NEW S
    PROVE  /\ Latest(S) \in 0 .. Len(records)
           /\ Latest(S) # 0 => Latest(S) \in DOMAIN records /\ records[Latest(S)].status \in S
<1> DEFINE found == {i \in DOMAIN records : records[i].status \in S}
<1>1. DOMAIN records = 1 .. Len(records) /\ Len(records) \in Nat
  BY DEF SchedulerTypeOK
<1>2. CASE found = {}
  BY <1>1, <1>2 DEF Latest
<1>3. CASE found # {}
  <2>1. \E i \in found : \A j \in found : j <= i
    <3>1. found \subseteq 1 .. Len(records) BY <1>1
    <3> HIDE DEF found
    <3>2. QED BY <1>1, <1>3, <3>1, GreatestExists
  <2>2. Latest(S) \in found
    BY <1>3, <2>1 DEF Latest
  <2>3. QED BY <1>1, <2>2
<1>4. QED BY <1>2, <1>3

\* What a listener finds is running and under five minutes old.
LEMMA FreshRunningFacts ==
    ASSUME SchedulerTypeOK
    PROVE  /\ FreshRunning \in 0 .. Len(records)
           /\ FreshRunning # 0 =>
                /\ FreshRunning \in DOMAIN records
                /\ records[FreshRunning].status = "running"
                /\ records[FreshRunning].age = Fresh
  BY LatestFacts DEF FreshRunning

\* An inserted document is the last, the others stay as they are.
LEMMA AppendFacts ==
    ASSUME SchedulerTypeOK, NEW e \in Executions, records' = Append(records, e)
    PROVE  /\ records' \in Seq(Executions) /\ Len(records') = Len(records) + 1
           /\ DOMAIN records' = DOMAIN records \cup {Len(records')}
           /\ \A j \in DOMAIN records : records'[j] = records[j]
           /\ records'[Len(records')] = e
           /\ Len(records') \notin DOMAIN records /\ Len(records) \in Nat
  BY DEF SchedulerTypeOK

\* One document changes, the others stay as they are.
LEMMA ChangeFacts ==
    ASSUME SchedulerTypeOK, NEW i \in DOMAIN records, NEW e \in Executions,
           records' = [records EXCEPT ![i] = e]
    PROVE  /\ records' \in Seq(Executions) /\ Len(records') = Len(records)
           /\ DOMAIN records' = DOMAIN records
           /\ records'[i] = e
           /\ \A j \in DOMAIN records : j # i => records'[j] = records[j]
  BY DEF SchedulerTypeOK

\* The status of a document that is not deleted changes, nothing else of it.
LEMMA SetStatusFacts ==
    ASSUME SchedulerTypeOK, NEW i \in DOMAIN records,
           NEW status \in {"running", "success", "failed", "missed", "deleted"},
           records' = SetStatus(i, status)
    PROVE  /\ records' \in Seq(Executions) /\ Len(records') = Len(records)
           /\ DOMAIN records' = DOMAIN records
           /\ \A j \in DOMAIN records :
                /\ j # i => records'[j] = records[j]
                /\ records'[j].age = records[j].age /\ records'[j].by = records[j].by
                /\ records'[j].status = records[j].status
                   \/ (j = i /\ records'[j].status = status /\ records[j].status # "deleted")
<1>1. records[i] \in Executions
  BY DEF SchedulerTypeOK
<1>2. CASE records' = records
  BY <1>2 DEF SchedulerTypeOK
<1>3. CASE records[i].status # "deleted" /\ records' = [records EXCEPT ![i].status = status]
  <2> DEFINE e == [records[i] EXCEPT !.status = status]
  <2>1. e \in Executions /\ e.status = status /\ e.age = records[i].age /\ e.by = records[i].by
    BY <1>1 DEF Executions
  <2>2. records' = [records EXCEPT ![i] = e]
    BY <1>3
  <2> HIDE DEF e
  <2>3. /\ records' \in Seq(Executions) /\ Len(records') = Len(records)
        /\ DOMAIN records' = DOMAIN records /\ records'[i] = e
        /\ \A j \in DOMAIN records : j # i => records'[j] = records[j]
    BY <2>1, <2>2, ChangeFacts
  <2>4. QED BY <1>3, <2>1, <2>3
<1>4. QED BY <1>2, <1>3 DEF SetStatus

\* The document of a listener's update takes its outcome and its run.
LEMMA UpdateFacts ==
    ASSUME SchedulerTypeOK, NEW t \in tasks, ListenerUpdate(t)
    PROVE  /\ t.rec \in DOMAIN records /\ t \in ListenerTasks
           /\ records' \in Seq(Executions) /\ Len(records') = Len(records)
           /\ DOMAIN records' = DOMAIN records
           /\ \A j \in DOMAIN records : j # t.rec => records'[j] = records[j]
           /\ records'[t.rec].age = records[t.rec].age
           /\ records[t.rec].status = "deleted" => records' = records
           /\ records[t.rec].status # "deleted" =>
                records'[t.rec].by = t.n /\ records'[t.rec].status = t.outcome
<1>1. /\ t.rec \in DOMAIN records /\ t \in ListenerTasks
      /\ records \in Seq(Executions) /\ records[t.rec] \in Executions
  BY DEF SchedulerTypeOK, ListenerUpdate
<1>2. CASE records' = records /\ records[t.rec].status = "deleted"
  BY <1>1, <1>2
<1>3. CASE /\ records[t.rec].status # "deleted"
           /\ records' = [records EXCEPT ![t.rec].status = t.outcome, ![t.rec].by = t.n]
  <2> DEFINE e == [records[t.rec] EXCEPT !.status = t.outcome, !.by = t.n]
  <2>1. /\ e \in Executions /\ e.status = t.outcome /\ e.by = t.n
        /\ e.age = records[t.rec].age
    BY <1>1 DEF Executions, ListenerTasks, Ended
  <2>2. records' = [records EXCEPT ![t.rec] = e]
    BY <1>1, <1>3
  <2> HIDE DEF e
  <2>3. /\ records' \in Seq(Executions) /\ Len(records') = Len(records)
        /\ DOMAIN records' = DOMAIN records /\ records'[t.rec] = e
        /\ \A j \in DOMAIN records : j # t.rec => records'[j] = records[j]
    BY <1>1, <2>1, <2>2, ChangeFacts
  <2>4. QED BY <1>1, <1>3, <2>1, <2>3
<1>4. QED BY <1>2, <1>3 DEF ListenerUpdate

\* A document grows older and changes in nothing else.
LEMMA AgeFacts ==
    ASSUME SchedulerTypeOK, NEW i \in DOMAIN records, Age(i)
    PROVE  /\ records' \in Seq(Executions) /\ Len(records') = Len(records)
           /\ DOMAIN records' = DOMAIN records
           /\ \A j \in DOMAIN records : j # i => records'[j] = records[j]
           /\ records'[i].status = records[i].status /\ records'[i].by = records[i].by
           /\ records[i].age # Stale
           /\ records'[i].age = Stale => \A t \in tasks : t.rec # i
<1> DEFINE e == [records[i] EXCEPT !.age = @ + 1]
<1>1. records[i] \in Executions /\ records[i].age < Stale
  BY DEF SchedulerTypeOK, Age
<1>2. /\ e \in Executions /\ e.status = records[i].status /\ e.by = records[i].by
      /\ e.age = Stale => records[i].age = Settling
  BY <1>1 DEF Executions, Fresh, Settling, Stale
<1>3. records' = [records EXCEPT ![i] = e]
  BY DEF Age
<1> HIDE DEF e
<1>4. /\ records' \in Seq(Executions) /\ Len(records') = Len(records)
      /\ DOMAIN records' = DOMAIN records /\ records'[i] = e
      /\ \A j \in DOMAIN records : j # i => records'[j] = records[j]
  BY <1>2, <1>3, ChangeFacts
<1>5. QED BY <1>1, <1>2, <1>4 DEF Age, Stale

\* An event adds a listener's task and the others learn that they are not alone.
LEMMA NotifyFacts ==
    ASSUME SchedulerTypeOK, run'.n \in Nat, NEW outcome \in Ended \cup {"missed"},
           Notify(outcome)
    PROVE  /\ tasks' \subseteq ListenerTasks
           /\ tasks' = tasks \/
                \A t \in tasks' :
                  \/ t.n = run'.n /\ t.rec = 0 /\ t.stage # "update"
                     /\ (t.alone => tasks' = {t})
                     /\ \A u \in tasks' : u.n # run'.n \/ u = t \/ \E v \in tasks : v.n = run'.n
                  \/ ~t.alone /\ \E u \in tasks : t = [u EXCEPT !.alone = FALSE]
<1> DEFINE new == [n |-> run'.n, outcome |-> outcome, rec |-> 0, alone |-> tasks = {},
                   stage |-> IF outcome = "missed" THEN "insert" ELSE "find"]
           Busier(t) == [t EXCEPT !.alone = FALSE]
<1>0. tasks \subseteq ListenerTasks BY DEF SchedulerTypeOK
<1>1. CASE tasks' = tasks
  BY <1>0, <1>1
<1>2. CASE tasks' = {Busier(t) : t \in tasks} \cup {new}
  <2>1. /\ new \in ListenerTasks /\ new.n = run'.n /\ new.rec = 0 /\ new.stage # "update"
        /\ new.alone <=> tasks = {}
    BY DEF ListenerTasks, Ended
  <2>2. ASSUME NEW t \in tasks
        PROVE  Busier(t) \in ListenerTasks /\ ~Busier(t).alone /\ Busier(t).n = t.n
    BY <1>0, <2>2 DEF ListenerTasks
  <2> HIDE DEF new
  <2>3. tasks' \subseteq ListenerTasks BY <1>2, <2>1, <2>2
  <2>4. ASSUME NEW t \in tasks', t # new
        PROVE  ~t.alone /\ \E u \in tasks : t = [u EXCEPT !.alone = FALSE]
    BY <1>2, <2>2, <2>4
  <2>5. new.alone => tasks' = {new}
    BY <1>2, <2>1
  <2>6. ASSUME NEW u \in tasks' PROVE u.n # run'.n \/ u = new \/ \E v \in tasks : v.n = run'.n
    BY <1>2, <2>2, <2>6
  <2>7. QED BY <2>1, <2>3, <2>4, <2>5, <2>6
<1>3. QED BY <1>1, <1>2 DEF Notify

-----------------------------------------------------------------------------
\* The parts of SchedulerTypeOK that depend on the documents and their holders.
HoldersOK ==
    /\ records \in Seq(Executions)
    /\ tasks \subseteq ListenerTasks
    /\ \A t \in tasks : t.rec \in 0 .. Len(records) /\ (t.stage = "update" => t.rec # 0)
    /\ admin \in [op: {"none", "cancel", "mark", "delete"}, rec: 0 .. Len(records)]
    /\ admin.op = "none" <=> admin.rec = 0
    /\ zombies \subseteq DOMAIN records

RestOK ==
    /\ kind \in Kinds
    /\ installed \in BOOLEAN
    /\ timer \in {"paused", "waiting", "due"}
    /\ run \in [n: Nat, pc: {Idle, "check", "work"}, items: Nat]
    /\ trigger \in {Idle, "record"}
    /\ logged \subseteq Nat
    /\ used \in [Uses -> Nat]

LEMMA TypeParts == HoldersOK' /\ RestOK' => SchedulerTypeOK'
  BY DEF SchedulerTypeOK, HoldersOK, RestOK

\* Documents are never removed, so whoever holds one keeps a document.
LEMMA HoldersKept ==
    ASSUME SchedulerTypeOK, records' \in Seq(Executions), Len(records') >= Len(records),
           \A t \in tasks' : t \in tasks, admin' = admin, zombies' \subseteq zombies
    PROVE  HoldersOK'
<1>1. Len(records) \in Nat /\ Len(records') \in Nat
      /\ DOMAIN records = 1 .. Len(records) /\ DOMAIN records' = 1 .. Len(records')
  BY DEF SchedulerTypeOK
<1>2. /\ tasks' \subseteq ListenerTasks
      /\ \A t \in tasks' : t.rec \in 0 .. Len(records') /\ (t.stage = "update" => t.rec # 0)
  BY <1>1 DEF SchedulerTypeOK
<1>3. /\ admin' \in [op: {"none", "cancel", "mark", "delete"}, rec: 0 .. Len(records')]
      /\ (admin'.op = "none" <=> admin'.rec = 0)
  BY <1>1 DEF SchedulerTypeOK
<1>4. zombies' \subseteq DOMAIN records'
  BY <1>1 DEF SchedulerTypeOK
<1>5. QED BY <1>2, <1>3, <1>4 DEF HoldersOK

\* A step of the job's body that does not touch a document.
LEMMA NotifyKeepsHolders ==
    ASSUME SchedulerTypeOK, run'.n \in Nat, NEW outcome \in Ended \cup {"missed"},
           Notify(outcome), UNCHANGED <<records, admin, zombies>>
    PROVE  HoldersOK'
<1>1. tasks \subseteq ListenerTasks /\ Len(records) \in Nat
  BY DEF SchedulerTypeOK
<1>2. ASSUME NEW t \in tasks'
      PROVE  t.rec \in 0 .. Len(records') /\ (t.stage = "update" => t.rec # 0)
  <2>1. CASE t \in tasks BY <2>1 DEF SchedulerTypeOK
  <2>2. CASE t.rec = 0 /\ t.stage # "update" BY <1>1, <2>2
  <2>3. CASE \E u \in tasks : t = [u EXCEPT !.alone = FALSE]
    <3>1. PICK u \in tasks : t = [u EXCEPT !.alone = FALSE] BY <2>3
    <3>2. t.rec = u.rec /\ t.stage = u.stage BY <1>1, <3>1 DEF ListenerTasks
    <3>3. QED BY <3>2 DEF SchedulerTypeOK
  <2>4. QED BY <2>1, <2>2, <2>3, NotifyFacts
<1>3. tasks' \subseteq ListenerTasks BY NotifyFacts
<1>4. QED BY <1>2, <1>3 DEF HoldersOK, SchedulerTypeOK

\* The run, and whether its event is heard, after an item or at the end.
LEMMA BodyFacts ==
    ASSUME SchedulerTypeOK, run.pc # Idle, EndRun \/ NextItem
    PROVE  /\ run' \in [n: Nat, pc: {Idle, "check", "work"}, items: Nat]
           /\ run'.n = run.n
           /\ \/ run'.pc # Idle /\ tasks' = tasks
              \/ run'.pc = Idle /\ Notify("success")
<1>1. run \in [n: Nat, pc: {Idle, "check", "work"}, items: Nat]
  BY DEF SchedulerTypeOK
<1>2. CASE EndRun
  BY <1>1, <1>2 DEF EndRun
<1>3. CASE NextItem
  <2>1. CASE EndRun BY <1>2, <2>1
  <2>2. CASE /\ run' = [run EXCEPT !.items = @ + 1, !.pc = FirstPlace]
             /\ UNCHANGED tasks
    <3>1. FirstPlace \in {"check", "work"} BY DEF FirstPlace
    <3>2. /\ run' \in [n: Nat, pc: {Idle, "check", "work"}, items: Nat]
          /\ run'.n = run.n /\ run'.pc = FirstPlace
      <4> DEFINE counted == [run EXCEPT !.items = @ + 1]
      <4>1. counted \in [n: Nat, pc: {Idle, "check", "work"}, items: Nat] /\ counted.n = run.n
        BY <1>1
      <4>2. run' = [counted EXCEPT !.pc = FirstPlace]
        BY <2>2
      <4> HIDE DEF counted
      <4>3. QED BY <3>1, <4>1, <4>2
    <3>3. QED BY <2>2, <3>1, <3>2 DEF Idle
  <2>3. QED BY <1>3, <2>1, <2>2 DEF NextItem
<1>4. QED BY <1>2, <1>3

\* A body's step that leaves the documents alone keeps all types.
LEMMA BodyTypes ==
    ASSUME SchedulerTypeOK, run.pc # Idle, EndRun \/ NextItem, used' \in [Uses -> Nat],
           UNCHANGED <<kind, installed, timer, records, trigger, admin, zombies, logged>>
    PROVE  SchedulerTypeOK'
<1>1. HoldersOK'
  <2>1. CASE tasks' = tasks
    BY <2>1 DEF HoldersOK, SchedulerTypeOK
  <2>2. CASE Notify("success") /\ run'.n \in Nat
    BY <2>2, NotifyKeepsHolders DEF Ended
  <2>3. QED BY <2>1, <2>2, BodyFacts
<1>2. RestOK'
  BY BodyFacts DEF RestOK, SchedulerTypeOK
<1>3. QED BY <1>1, <1>2, TypeParts

\* Documents, tasks, administrators and the zombie check keep to documents that
\* exist; everything else keeps its type.
THEOREM SchedulerTypes == SchedulerSpec => []SchedulerTypeOK
<1>1. SchedulerInit => SchedulerTypeOK
  <2> SUFFICES ASSUME SchedulerInit PROVE SchedulerTypeOK
    OBVIOUS
  <2>1. records = <<>> /\ records \in Seq(Executions) /\ Len(records) = 0
    BY DEF SchedulerInit
  <2>2. run \in [n: Nat, pc: {Idle, "check", "work"}, items: Nat]
    BY DEF SchedulerInit
  <2>3. admin = [op |-> "none", rec |-> 0]
    BY DEF SchedulerInit, Nobody
  <2>4. used \in [Uses -> Nat]
    BY DEF SchedulerInit
  <2>5. HoldersOK
    BY <2>1, <2>3 DEF SchedulerInit, HoldersOK
  <2>6. RestOK
    BY <2>2, <2>4 DEF SchedulerInit, RestOK, Idle
  <2>7. QED BY <2>5, <2>6 DEF HoldersOK, RestOK, SchedulerTypeOK
<1>2. SchedulerTypeOK /\ [SchedulerNext]_schedulerVars => SchedulerTypeOK'
  <2> SUFFICES ASSUME SchedulerTypeOK, [SchedulerNext]_schedulerVars PROVE SchedulerTypeOK'
    OBVIOUS
  <2>0. ASSUME NEW what \in Uses, NEW limit, Use(what, limit) PROVE used' \in [Uses -> Nat]
    BY <2>0 DEF Use, SchedulerTypeOK
  <2>1. CASE CronTime \/ StartRun \/ SkipRun
    <3>1. used' \in [Uses -> Nat]
      BY <2>0, <2>1 DEF CronTime, StartRun, SkipRun, Uses, SchedulerTypeOK
    <3>2. run' \in [n: Nat, pc: {Idle, "check", "work"}, items: Nat]
      BY <2>1 DEF CronTime, StartRun, SkipRun, FirstPlace, SchedulerTypeOK
    <3>3. QED BY <2>1, <3>1, <3>2 DEF CronTime, StartRun, SkipRun, SchedulerTypeOK
  <2>2. ASSUME NEW outcome \in {"missed", "failed"}, StartFails(outcome) PROVE SchedulerTypeOK'
    <3>1. run' \in [n: Nat, pc: {Idle, "check", "work"}, items: Nat]
      BY <2>2 DEF StartFails, SchedulerTypeOK
    <3>2. HoldersOK'
      BY <2>2, <3>1, NotifyKeepsHolders DEF StartFails, Ended
    <3>3. QED BY <2>2, <3>1, <3>2, TypeParts DEF StartFails, RestOK, SchedulerTypeOK
  <2>3. CASE ShouldStop
    <3>1. CASE EndRun
      BY <2>3, <3>1, BodyTypes DEF ShouldStop, SchedulerTypeOK, Idle
    <3>2. CASE run' = [run EXCEPT !.pc = "work"] /\ UNCHANGED tasks
      BY <2>3, <3>2 DEF ShouldStop, SchedulerTypeOK
    <3>3. QED BY <2>3, <3>1, <3>2 DEF ShouldStop
  <2>4. CASE WorkRaises \/ UpdateProgress
    BY <2>4, BodyTypes DEF WorkRaises, UpdateProgress, SchedulerTypeOK, Idle
  <2>5. CASE UpdateJobProgress
    <3> DEFINE i == Latest({"running"} \cup Ended)
    <3>1. /\ records' \in Seq(Executions) /\ Len(records') >= Len(records)
          /\ Len(records) \in Nat
      <4>1. i # 0 => i \in DOMAIN records BY LatestFacts
      <4> HIDE DEF i
      <4>2. CASE records' = records BY <4>2 DEF SchedulerTypeOK
      <4>3. CASE records' = Append(records, Execution("running", 0))
        <5>1. Execution("running", 0) \in Executions BY DEF Execution, Executions, Fresh
        <5>2. QED BY <4>3, <5>1, AppendFacts
      <4>4. CASE i # 0 /\ records' = SetStatus(i, "running")
        BY <4>1, <4>4, SetStatusFacts DEF SchedulerTypeOK
      <4>5. QED BY <2>5, <4>2, <4>3, <4>4 DEF UpdateJobProgress, i
    <3>2. HoldersOK'
      <4>1. CASE tasks' = tasks
        BY <2>5, <3>1, <4>1, HoldersKept DEF UpdateJobProgress
      <4>2. CASE Notify("success") /\ run'.n \in Nat
        <5>1. tasks' \subseteq ListenerTasks
          BY <4>2, NotifyFacts DEF Ended
        <5>2. ASSUME NEW t \in tasks'
              PROVE  t.rec \in 0 .. Len(records) /\ (t.stage = "update" => t.rec # 0)
          <6>1. tasks \subseteq ListenerTasks BY DEF SchedulerTypeOK
          <6>2. CASE t \in tasks BY <6>2 DEF SchedulerTypeOK
          <6>3. CASE t.rec = 0 /\ t.stage # "update" BY <3>1, <6>3
          <6>4. CASE \E u \in tasks : t = [u EXCEPT !.alone = FALSE]
            <7>1. PICK u \in tasks : t = [u EXCEPT !.alone = FALSE] BY <6>4
            <7>2. t.rec = u.rec /\ t.stage = u.stage BY <6>1, <7>1 DEF ListenerTasks
            <7>3. QED BY <7>2 DEF SchedulerTypeOK
          <6>5. QED BY <4>2, <6>2, <6>3, <6>4, NotifyFacts DEF Ended
        <5>3. /\ DOMAIN records = 1 .. Len(records) /\ DOMAIN records' = 1 .. Len(records')
              /\ Len(records') \in Nat
          BY <3>1 DEF SchedulerTypeOK
        <5>4. \A t \in tasks' : t.rec \in 0 .. Len(records') /\ (t.stage = "update" => t.rec # 0)
          BY <3>1, <5>2, <5>3
        <5>5. /\ admin' \in [op: {"none", "cancel", "mark", "delete"}, rec: 0 .. Len(records')]
              /\ (admin'.op = "none" <=> admin'.rec = 0)
          BY <2>5, <3>1, <5>3 DEF UpdateJobProgress, SchedulerTypeOK
        <5>6. zombies' \subseteq DOMAIN records'
          BY <2>5, <3>1, <5>3 DEF UpdateJobProgress, SchedulerTypeOK
        <5>7. QED BY <3>1, <5>1, <5>4, <5>5, <5>6 DEF HoldersOK
      <4>3. QED BY <2>5, <4>1, <4>2, BodyFacts DEF UpdateJobProgress, Idle
    <3>3. RestOK'
      BY <2>5, BodyFacts DEF UpdateJobProgress, RestOK, SchedulerTypeOK, Idle
    <3>4. QED BY <3>2, <3>3, TypeParts
  <2>6. CASE BodyMongoRaises
    <3>1. used' \in [Uses -> Nat] BY <2>0, <2>6 DEF BodyMongoRaises, Uses
    <3>2. CASE run' = [run EXCEPT !.pc = "work"] /\ UNCHANGED tasks
      BY <2>6, <3>1, <3>2 DEF BodyMongoRaises, SchedulerTypeOK
    <3>3. CASE run.pc = "work" /\ NextItem
      BY <2>6, <3>1, <3>3, BodyTypes DEF BodyMongoRaises, Idle
    <3>4. QED BY <2>6, <3>2, <3>3 DEF BodyMongoRaises
  <2>7. ASSUME NEW t \in tasks, ListenerFind(t) PROVE SchedulerTypeOK'
    <3>1. t \in ListenerTasks BY DEF SchedulerTypeOK
    <3>2. PICK found \in ListenerTasks :
            /\ tasks' = (tasks \ {t}) \cup {found}
            /\ found.rec = FreshRunning
            /\ found.stage = "update" => FreshRunning # 0
      <4> DEFINE found == [t EXCEPT !.rec = FreshRunning,
                                    !.stage = IF FreshRunning = 0 THEN "insert" ELSE "update"]
      <4>1. FreshRunning \in Nat BY FreshRunningFacts
      <4>2. found \in ListenerTasks /\ found.rec = FreshRunning
            /\ (found.stage = "update" => FreshRunning # 0)
        BY <3>1, <4>1 DEF ListenerTasks
      <4>3. tasks' = (tasks \ {t}) \cup {found} BY <2>7 DEF ListenerFind
      <4> HIDE DEF found
      <4>4. QED BY <4>2, <4>3
    <3>3. QED BY <2>7, <3>2, FreshRunningFacts DEF ListenerFind, SchedulerTypeOK
  <2>8. ASSUME NEW t \in tasks, ListenerUpdate(t) PROVE SchedulerTypeOK'
    <3>1. HoldersOK'
      <4>1. /\ records' \in Seq(Executions) /\ Len(records') = Len(records)
            /\ Len(records) \in Nat
        BY <2>8, UpdateFacts DEF SchedulerTypeOK
      <4>2. /\ \A u \in tasks' : u \in tasks
            /\ admin' = admin /\ zombies' = zombies
        BY <2>8 DEF ListenerUpdate
      <4>3. QED BY <4>1, <4>2, HoldersKept
    <3>2. logged' \subseteq Nat
      BY <2>8, UpdateFacts DEF ListenerUpdate, SchedulerTypeOK, ListenerTasks
    <3>3. QED BY <2>8, <3>1, <3>2, TypeParts DEF ListenerUpdate, RestOK, SchedulerTypeOK
  <2>9. ASSUME NEW t \in tasks, ListenerInsert(t) PROVE SchedulerTypeOK'
    <3>1. t \in ListenerTasks BY DEF SchedulerTypeOK
    <3>2. Execution(t.outcome, t.n) \in Executions
      BY <3>1 DEF Execution, Executions, ListenerTasks, Ended, Fresh
    <3>3. HoldersOK'
      BY <2>9, <3>2, AppendFacts, HoldersKept DEF ListenerInsert
    <3>4. logged' \subseteq Nat
      BY <2>9, <3>1 DEF ListenerInsert, SchedulerTypeOK, ListenerTasks
    <3>5. QED BY <2>9, <3>3, <3>4, TypeParts DEF ListenerInsert, RestOK, SchedulerTypeOK
  <2>10. ASSUME NEW t \in tasks, ListenerRaises(t) PROVE SchedulerTypeOK'
    BY <2>0, <2>10 DEF ListenerRaises, Uses, SchedulerTypeOK
  <2>11. CASE OpenService \/ PauseJob \/ ResumeJob \/ TriggerJob \/ TriggerRaises
    <3>1. used' \in [Uses -> Nat]
      BY <2>0, <2>11 DEF OpenService, PauseJob, ResumeJob, TriggerJob, TriggerRaises, Uses,
                         SchedulerTypeOK
    <3>2. QED BY <2>11, <3>1 DEF OpenService, PauseJob, ResumeJob, TriggerJob, TriggerRaises,
                                 SchedulerTypeOK
  <2>12. CASE TriggerRecord
    <3>1. Execution("running", 0) \in Executions BY DEF Execution, Executions, Fresh
    <3>2. HoldersOK'
      BY <2>12, <3>1, AppendFacts, HoldersKept DEF TriggerRecord
    <3>3. QED BY <2>12, <3>2, TypeParts DEF TriggerRecord, RestOK, SchedulerTypeOK
  <2>13. ASSUME NEW op \in {"cancel", "mark", "delete"}, NEW i \in DOMAIN records,
                AdminFind(op, i)
         PROVE  SchedulerTypeOK'
    BY <2>0, <2>13 DEF AdminFind, Uses, SchedulerTypeOK
  <2>14. CASE AdminWrite
    <3>1. admin.rec \in DOMAIN records /\ admin.op \in {"cancel", "mark", "delete"}
      BY <2>14 DEF AdminWrite, Nobody, SchedulerTypeOK
    <3>2. /\ records' \in Seq(Executions) /\ Len(records') = Len(records)
          /\ DOMAIN records' = DOMAIN records
      <4>1. CASE records' = [records EXCEPT ![admin.rec].cancel = TRUE]
        <5>1. [records[admin.rec] EXCEPT !.cancel = TRUE] \in Executions
          <6>1. records[admin.rec] \in Executions BY <3>1 DEF SchedulerTypeOK
          <6>2. QED BY <6>1 DEF Executions
        <5>2. QED BY <3>1, <4>1, <5>1, ChangeFacts
      <4>2. CASE records' = SetStatus(admin.rec, "failed")
        BY <3>1, <4>2, SetStatusFacts
      <4>3. CASE records' = SetStatus(admin.rec, "deleted")
        BY <3>1, <4>3, SetStatusFacts
      <4>4. QED BY <2>14, <3>1, <4>1, <4>2, <4>3 DEF AdminWrite
    <3>3. QED BY <2>14, <3>2 DEF AdminWrite, Nobody, SchedulerTypeOK
  <2>15. CASE ZombieFind
    BY <2>15 DEF ZombieFind, SchedulerTypeOK
  <2>16. CASE ZombieWrite
    <3>1. PICK i \in zombies : records' = SetStatus(i, "failed") /\ zombies' = zombies \ {i}
      BY <2>16 DEF ZombieWrite
    <3>2. /\ records' \in Seq(Executions) /\ Len(records') = Len(records)
          /\ DOMAIN records' = DOMAIN records
      BY <3>1, SetStatusFacts DEF SchedulerTypeOK
    <3>3. QED BY <2>16, <3>1, <3>2 DEF ZombieWrite, SchedulerTypeOK
  <2>17. ASSUME NEW i \in DOMAIN records, Age(i) PROVE SchedulerTypeOK'
    BY <2>17, AgeFacts DEF Age, SchedulerTypeOK
  <2>18. CASE Restart
    <3>1. used' \in [Uses -> Nat] BY <2>0, <2>18 DEF Restart, Uses
    <3>2. HoldersOK'
      <4>1. Len(records) \in Nat BY DEF SchedulerTypeOK
      <4>2. QED BY <2>18, <4>1 DEF Restart, Nobody, HoldersOK, SchedulerTypeOK
    <3>3. run' \in [n: Nat, pc: {Idle, "check", "work"}, items: Nat]
      BY <2>18 DEF Restart, SchedulerTypeOK
    <3>4. RestOK' BY <2>18, <3>1, <3>3 DEF Restart, RestOK, SchedulerTypeOK
    <3>5. QED BY <3>2, <3>4, TypeParts
  <2>19. CASE UNCHANGED schedulerVars
    BY <2>19 DEF schedulerVars, SchedulerTypeOK
  <2>20. QED
    BY <2>1, <2>2, <2>3, <2>4, <2>5, <2>6, <2>7, <2>8, <2>9, <2>10, <2>11, <2>12, <2>13,
       <2>14, <2>15, <2>16, <2>17, <2>18, <2>19 DEF SchedulerNext
<1>3. QED BY <1>1, <1>2, PTL DEF SchedulerSpec

-----------------------------------------------------------------------------
\* After an event the tasks hold the documents they held.
LEMMA NotifyHolds ==
    ASSUME SchedulerTypeOK, run'.n \in Nat, NEW outcome \in Ended \cup {"missed"},
           Notify(outcome)
    PROVE  \A t \in tasks' : t.rec = 0 \/ \E u \in tasks : u.rec = t.rec
<1>1. tasks \subseteq ListenerTasks BY DEF SchedulerTypeOK
<1>2. ASSUME NEW u \in tasks, NEW t, t = [u EXCEPT !.alone = FALSE] PROVE t.rec = u.rec
  BY <1>1, <1>2 DEF ListenerTasks
<1>3. QED BY <1>2, NotifyFacts

\* The body of a job goes on or ends: the tasks hold the documents they held.
LEMMA BodyHolds ==
    ASSUME SchedulerTypeOK, run.pc # Idle, EndRun \/ NextItem
    PROVE  \A t \in tasks' : t.rec = 0 \/ \E u \in tasks : u.rec = t.rec
<1>1. CASE tasks' = tasks BY <1>1
<1>2. CASE Notify("success") /\ run'.n \in Nat BY <1>2, NotifyHolds DEF Ended
<1>3. QED BY <1>1, <1>2, BodyFacts

\* A step in which no document grows older or comes to say success, and nobody
\* takes hold of one.
LEMMA ZombieQuiet ==
    ASSUME SchedulerTypeOK, ZombieInv, zombies' \subseteq zombies,
           \A j \in DOMAIN records :
              /\ records'[j].age = records[j].age
              /\ records'[j].status = "success" => records[j].status = "success",
           \A t \in tasks' : t.rec = 0 \/ \E u \in tasks : u.rec = t.rec
    PROVE  ZombieInv'
<1>1. /\ zombies \subseteq DOMAIN records
      /\ \A t \in tasks : t.rec # 0 => t.rec \in DOMAIN records
  BY DEF SchedulerTypeOK
<1>2. \A i \in zombies' : records'[i].age = Stale /\ records'[i].status # "success"
  BY <1>1 DEF ZombieInv
<1>3. ASSUME NEW t \in tasks', t.rec # 0 PROVE records'[t.rec].age # Stale
  <2>1. PICK u \in tasks : u.rec = t.rec BY <1>3
  <2>2. QED BY <1>1, <1>3, <2>1 DEF ZombieInv
<1>4. QED BY <1>2, <1>3 DEF ZombieInv

\* No step turns a document the zombie check holds into a success.
LEMMA ZombiesKept ==
    SchedulerTypeOK /\ ZombieInv /\ [SchedulerNext]_schedulerVars => ZombieInv'
<1> SUFFICES ASSUME SchedulerTypeOK, ZombieInv, [SchedulerNext]_schedulerVars PROVE ZombieInv'
  OBVIOUS
<1>0. records \in Seq(Executions) /\ DOMAIN records = 1 .. Len(records) /\ Len(records) \in Nat
      /\ \A j \in DOMAIN records : records[j] \in Executions
  BY DEF SchedulerTypeOK
<1>1. CASE \/ CronTime \/ StartRun \/ SkipRun \/ OpenService \/ PauseJob \/ ResumeJob
           \/ TriggerJob \/ TriggerRaises \/ UNCHANGED schedulerVars
           \/ \E op \in {"cancel", "mark", "delete"}, i \in DOMAIN records : AdminFind(op, i)
           \/ \E t \in tasks : ListenerRaises(t)
  <2>1. UNCHANGED <<records, zombies>> /\ tasks' \subseteq tasks
    BY <1>1 DEF CronTime, StartRun, SkipRun, OpenService, PauseJob, ResumeJob, TriggerJob,
                TriggerRaises, AdminFind, ListenerRaises, schedulerVars
  <2>2. QED BY <2>1, ZombieQuiet
<1>2. ASSUME NEW outcome \in {"missed", "failed"}, StartFails(outcome) PROVE ZombieInv'
  <2>1. run'.n \in Nat BY <1>2 DEF StartFails, SchedulerTypeOK
  <2>2. QED BY <1>2, <2>1, NotifyHolds, ZombieQuiet DEF StartFails, Ended
<1>3. CASE ShouldStop \/ WorkRaises \/ UpdateProgress \/ BodyMongoRaises
  <2>1. /\ UNCHANGED <<records, zombies>> /\ run.pc # Idle
        /\ EndRun \/ NextItem \/ tasks' = tasks
    BY <1>3 DEF ShouldStop, WorkRaises, UpdateProgress, BodyMongoRaises, Idle
  <2>2. QED BY <2>1, BodyHolds, ZombieQuiet
<1>4. CASE UpdateJobProgress
  <2> DEFINE i == Latest({"running"} \cup Ended)
  <2>1. i # 0 => i \in DOMAIN records BY LatestFacts
  <2> HIDE DEF i
  <2>2. \A j \in DOMAIN records :
           /\ records'[j].age = records[j].age
           /\ records'[j].status = "success" => records[j].status = "success"
    <3>1. CASE records' = records BY <3>1
    <3>2. CASE records' = Append(records, Execution("running", 0))
      <4>1. Execution("running", 0) \in Executions BY DEF Execution, Executions, Fresh
      <4>2. QED BY <3>2, <4>1, AppendFacts
    <3>3. CASE i # 0 /\ records' = SetStatus(i, "running")
      BY <2>1, <3>3, SetStatusFacts
    <3>4. QED BY <1>4, <3>1, <3>2, <3>3 DEF UpdateJobProgress, i
  <2>3. \A t \in tasks' : t.rec = 0 \/ \E u \in tasks : u.rec = t.rec
    BY <1>4, BodyHolds DEF UpdateJobProgress, Idle
  <2>4. QED BY <1>4, <2>2, <2>3, ZombieQuiet DEF UpdateJobProgress
<1>5. ASSUME NEW t \in tasks, ListenerFind(t) PROVE ZombieInv'
  <2>1. t \in ListenerTasks BY DEF SchedulerTypeOK
  <2>2. \A u \in tasks' : u \in tasks \/ u.rec = FreshRunning
    BY <1>5, <2>1 DEF ListenerFind, ListenerTasks
  <2>3. UNCHANGED <<records, zombies>> BY <1>5 DEF ListenerFind
  <2>4. FreshRunning # 0 => records[FreshRunning].age # Stale
    BY FreshRunningFacts DEF Fresh, Stale
  <2>5. QED BY <2>2, <2>3, <2>4 DEF ZombieInv
<1>6. ASSUME NEW t \in tasks, ListenerUpdate(t) PROVE ZombieInv'
  <2>1. t.rec \notin zombies /\ t.rec \in DOMAIN records
    BY <1>6, UpdateFacts DEF ZombieInv, SchedulerTypeOK, ListenerUpdate
  <2>2. zombies' = zombies /\ tasks' \subseteq tasks
        /\ zombies \subseteq DOMAIN records
        /\ \A u \in tasks : u.rec # 0 => u.rec \in DOMAIN records
    BY <1>6 DEF ListenerUpdate, SchedulerTypeOK
  <2>3. \A j \in DOMAIN records : records'[j].age = records[j].age
                                   /\ (j # t.rec => records'[j] = records[j])
    BY <1>6, UpdateFacts
  <2>4. QED BY <2>1, <2>2, <2>3 DEF ZombieInv
<1>7. ASSUME NEW t \in tasks, ListenerInsert(t) PROVE ZombieInv'
  <2>1. Execution(t.outcome, t.n) \in Executions
    BY DEF SchedulerTypeOK, Execution, Executions, ListenerTasks, Ended, Fresh
  <2>2. \A j \in DOMAIN records : records'[j] = records[j]
    BY <1>7, <2>1, AppendFacts DEF ListenerInsert
  <2>3. QED BY <1>7, <2>2, ZombieQuiet DEF ListenerInsert
<1>8. CASE TriggerRecord
  <2>1. Execution("running", 0) \in Executions BY DEF Execution, Executions, Fresh
  <2>2. \A j \in DOMAIN records : records'[j] = records[j]
    BY <1>8, <2>1, AppendFacts DEF TriggerRecord
  <2>3. QED BY <1>8, <2>2, ZombieQuiet DEF TriggerRecord
<1>9. CASE AdminWrite
  <2>1. admin.rec \in DOMAIN records /\ admin.op \in {"cancel", "mark", "delete"}
    BY <1>9 DEF AdminWrite, Nobody, SchedulerTypeOK
  <2>2. \A j \in DOMAIN records :
           /\ records'[j].age = records[j].age
           /\ records'[j].status = "success" => records[j].status = "success"
    <3>1. CASE records' = [records EXCEPT ![admin.rec].cancel = TRUE]
      BY <1>0, <2>1, <3>1 DEF Executions
    <3>2. CASE records' = SetStatus(admin.rec, "failed")
      BY <2>1, <3>2, SetStatusFacts
    <3>3. CASE records' = SetStatus(admin.rec, "deleted")
      BY <2>1, <3>3, SetStatusFacts
    <3>4. QED BY <1>9, <2>1, <3>1, <3>2, <3>3 DEF AdminWrite
  <2>3. QED BY <1>9, <2>2, ZombieQuiet DEF AdminWrite
<1>10. CASE ZombieFind
  BY <1>10 DEF ZombieFind, ZombieInv
<1>11. CASE ZombieWrite
  <2>1. PICK i \in zombies : records' = SetStatus(i, "failed") /\ zombies' = zombies \ {i}
    BY <1>11 DEF ZombieWrite
  <2>2. \A j \in DOMAIN records :
           /\ records'[j].age = records[j].age
           /\ records'[j].status = "success" => records[j].status = "success"
    BY <2>1, SetStatusFacts DEF SchedulerTypeOK
  <2>3. QED BY <1>11, <2>1, <2>2, ZombieQuiet DEF ZombieWrite
<1>12. ASSUME NEW i \in DOMAIN records, Age(i) PROVE ZombieInv'
  <2>1. UNCHANGED <<tasks, zombies>> BY <1>12 DEF Age
  <2>2. i \notin zombies BY <1>12, AgeFacts DEF ZombieInv
  <2>3. /\ zombies \subseteq DOMAIN records
        /\ \A u \in tasks : u.rec # 0 => u.rec \in DOMAIN records
    BY DEF SchedulerTypeOK
  <2>4. QED BY <1>12, <2>1, <2>2, <2>3, AgeFacts DEF ZombieInv
<1>13. CASE Restart
  BY <1>13 DEF Restart, ZombieInv
<1>14. QED BY <1>1, <1>2, <1>3, <1>4, <1>5, <1>6, <1>7, <1>8, <1>9, <1>10, <1>11, <1>12,
              <1>13 DEF SchedulerNext

\* A success is overwritten only by an administrator, a second listener that had
\* found the document, or a report; the zombie check, which writes without
\* looking again, never does it.
THEOREM OutcomeIsKept == SchedulerSpec => OutcomeKept
<1>1. SchedulerInit => ZombieInv
  BY DEF SchedulerInit, ZombieInv
<1>2. SchedulerTypeOK /\ ZombieInv /\ [SchedulerNext]_schedulerVars =>
        [\A i \in DOMAIN records :
           /\ records[i].status = "success"
           /\ records'[i].status \notin {"success", "deleted"}
           => \/ admin = [op |-> "mark", rec |-> i]
              \/ \E t \in tasks : t.rec = i
              \/ kind = "reporting" /\ run.pc = "work"]_schedulerVars
  <2> SUFFICES ASSUME SchedulerTypeOK, ZombieInv, SchedulerNext,
                      NEW i \in DOMAIN records, records[i].status = "success",
                      records'[i].status \notin {"success", "deleted"},
                      \A t \in tasks : t.rec # i, kind # "reporting" \/ run.pc # "work"
               PROVE  admin = [op |-> "mark", rec |-> i]
    OBVIOUS
  <2>1. records' # records OBVIOUS
  <2>2. CASE TriggerRecord
    <3>1. Execution("running", 0) \in Executions BY DEF Execution, Executions, Fresh
    <3>2. QED BY <2>2, <3>1, AppendFacts DEF TriggerRecord
  <2>3. ASSUME NEW t \in tasks, ListenerInsert(t) PROVE FALSE
    <3>1. Execution(t.outcome, t.n) \in Executions
      BY DEF SchedulerTypeOK, Execution, Executions, ListenerTasks, Ended, Fresh
    <3>2. QED BY <2>3, <3>1, AppendFacts DEF ListenerInsert
  <2>4. ASSUME NEW t \in tasks, ListenerUpdate(t) PROVE FALSE
    BY <2>4, UpdateFacts
  <2>5. CASE AdminWrite
    <3>1. admin.rec \in DOMAIN records /\ admin.op \in {"cancel", "mark", "delete"}
      BY <2>5 DEF AdminWrite, Nobody, SchedulerTypeOK
    <3>2. CASE admin.op = "cancel"
      <4>1. records' = [records EXCEPT ![admin.rec].cancel = TRUE]
        BY <2>5, <3>2 DEF AdminWrite
      <4>2. records \in Seq(Executions) /\ records[i] \in Executions BY DEF SchedulerTypeOK
      <4>3. records'[i].status = records[i].status BY <3>1, <4>1, <4>2 DEF Executions
      <4>4. QED BY <4>3
    <3>3. CASE admin.op = "mark"
      <4>1. admin.rec = i BY <2>5, <3>1, <3>3, SetStatusFacts DEF AdminWrite
      <4>2. admin \in [op: {"none", "cancel", "mark", "delete"}, rec: 0 .. Len(records)]
        BY DEF SchedulerTypeOK
      <4>3. QED BY <3>3, <4>1, <4>2
    <3>4. CASE admin.op = "delete"
      BY <2>5, <3>1, <3>4, SetStatusFacts DEF AdminWrite
    <3>5. QED BY <3>1, <3>2, <3>3, <3>4
  <2>6. CASE ZombieWrite
    <3>1. PICK j \in zombies : records' = SetStatus(j, "failed")
      BY <2>6 DEF ZombieWrite
    <3>2. j # i BY DEF ZombieInv
    <3>3. QED BY <3>1, <3>2, SetStatusFacts DEF SchedulerTypeOK
  <2>7. ASSUME NEW j \in DOMAIN records, Age(j) PROVE FALSE
    BY <2>7, AgeFacts
  <2>8. ~UpdateJobProgress BY DEF UpdateJobProgress
  <2>9. QED
    BY <2>1, <2>2, <2>3, <2>4, <2>5, <2>6, <2>7, <2>8
    DEF SchedulerNext, CronTime, StartRun, SkipRun, StartFails, ShouldStop, WorkRaises,
        UpdateProgress, BodyMongoRaises, ListenerFind, ListenerRaises, OpenService, PauseJob,
        ResumeJob, TriggerJob, TriggerRaises, AdminFind, ZombieFind, Restart
<1>3. QED BY <1>1, <1>2, SchedulerTypes, ZombiesKept, PTL DEF SchedulerSpec, OutcomeKept

-----------------------------------------------------------------------------
\* The types the arguments about run numbers use.
LEMMA NumberTypes ==
    ASSUME SchedulerTypeOK
    PROVE  /\ run.n \in Nat /\ logged \subseteq Nat /\ tasks \subseteq ListenerTasks
           /\ \A t \in tasks : t.n \in Nat
           /\ \A i \in DOMAIN records : records[i].by \in Nat /\ records[i] \in Executions
<1>1. /\ run.n \in Nat /\ logged \subseteq Nat /\ tasks \subseteq ListenerTasks
      /\ \A i \in DOMAIN records : records[i] \in Executions
  BY DEF SchedulerTypeOK
<1>2. QED BY <1>1 DEF ListenerTasks, Executions

\* Every document says what it said of runs, and new ones speak of none.
SameOutcomes ==
    \A j \in DOMAIN records' : \/ records'[j].by = 0
                               \/ j \in DOMAIN records /\ records'[j].by = records[j].by

\* A step in which no run begins or ends and no outcome is written.
LEMMA NumberQuiet ==
    ASSUME SchedulerTypeOK, NumberInv, UNCHANGED <<run, logged>>, tasks' \subseteq tasks,
           SameOutcomes
    PROVE  NumberInv'
<1>1. \A i \in DOMAIN records' : /\ records'[i].by <= run.n
                                 /\ run.pc # Idle => records'[i].by # run.n
                                 /\ \A t \in tasks : records'[i].by # t.n
  BY NumberTypes DEF NumberInv, SameOutcomes
<1>2. \A t \in tasks' : t.alone => tasks' = {t}
  BY DEF NumberInv
<1>3. QED BY <1>1, <1>2 DEF NumberInv

\* The event of a run that has just ended, or never begun, carries a new number.
LEMMA NumberNotify ==
    ASSUME SchedulerTypeOK, NumberInv, NEW outcome \in Ended \cup {"missed"}, Notify(outcome),
           logged' = logged, SameOutcomes, run'.pc = Idle,
           \/ run'.n = run.n /\ run.pc # Idle
           \/ run'.n = run.n + 1
    PROVE  NumberInv'
<1>0. run'.n \in Nat /\ run'.n > 0 BY NumberTypes DEF NumberInv
<1>1. /\ \A t \in tasks : 0 < t.n /\ t.n <= run'.n /\ t.n # run'.n
      /\ \A n \in logged' : 0 < n /\ n <= run'.n /\ n # run'.n
      /\ \A i \in DOMAIN records' : /\ records'[i].by <= run'.n /\ records'[i].by # run'.n
                                    /\ \A t \in tasks : records'[i].by # t.n
  BY <1>0, NumberTypes DEF NumberInv, SameOutcomes
<1>2. CASE tasks' = tasks
  <2>1. \A t \in tasks' : t.alone => tasks' = {t} BY <1>2 DEF NumberInv
  <2>2. QED BY <1>1, <1>2, <2>1 DEF NumberInv
<1>3. CASE tasks' # tasks
  <2>1. ASSUME NEW t \in tasks'
        PROVE  \/ /\ t.n = run'.n /\ (t.alone => tasks' = {t})
                  /\ \A u \in tasks' : u.n = run'.n => u = t
               \/ ~t.alone /\ \E u \in tasks : t = [u EXCEPT !.alone = FALSE] /\ t.n = u.n
    <3>1. ASSUME NEW u \in tasks, t = [u EXCEPT !.alone = FALSE] PROVE t.n = u.n
      BY <3>1, NumberTypes DEF ListenerTasks
    <3>2. QED BY <1>0, <1>1, <1>3, <3>1, NotifyFacts
  <2>2. ASSUME NEW t \in tasks'
        PROVE  /\ 0 < t.n /\ t.n <= run'.n /\ t.n \notin logged'
               /\ t.alone => tasks' = {t}
               /\ \A i \in DOMAIN records' : records'[i].by # t.n
    BY <1>0, <1>1, <2>1 DEF NumberInv
  <2>3. ASSUME NEW t \in tasks', NEW u \in tasks', t.n = u.n PROVE t = u
    <3>1. CASE t.n = run'.n
      BY <1>1, <2>1, <2>3, <3>1
    <3>2. CASE t.n # run'.n
      <4>1. PICK t0 \in tasks : t = [t0 EXCEPT !.alone = FALSE] /\ t.n = t0.n BY <2>1, <3>2
      <4>2. PICK u0 \in tasks : u = [u0 EXCEPT !.alone = FALSE] /\ u.n = u0.n
        BY <2>1, <2>3, <3>2
      <4>3. t0 = u0 BY <2>3, <4>1, <4>2 DEF NumberInv
      <4>4. QED BY <4>1, <4>2, <4>3
    <3>3. QED BY <3>1, <3>2
  <2>4. run'.pc = Idle OBVIOUS
  <2>6. /\ \A n \in logged' : 0 < n /\ n <= run'.n /\ (run'.pc # Idle => n # run'.n)
        /\ \A i \in DOMAIN records' :
             records'[i].by <= run'.n /\ (run'.pc # Idle => records'[i].by # run'.n)
    BY <1>1
  <2>7. QED BY <2>2, <2>3, <2>4, <2>6 DEF NumberInv
<1>4. QED BY <1>2, <1>3

\* An item is done, or the body ends and its event carries the run's number.
LEMMA NumberBody ==
    ASSUME SchedulerTypeOK, NumberInv, run.pc # Idle, EndRun \/ NextItem,
           logged' = logged, SameOutcomes
    PROVE  NumberInv'
<1>1. CASE run'.pc # Idle /\ run'.n = run.n /\ tasks' = tasks
  <2>1. \A i \in DOMAIN records' : /\ records'[i].by <= run.n /\ records'[i].by # run.n
                                   /\ \A t \in tasks : records'[i].by # t.n
    BY NumberTypes DEF NumberInv, SameOutcomes
  <2>2. QED BY <1>1, <2>1 DEF NumberInv
<1>2. CASE run'.pc = Idle /\ run'.n = run.n /\ Notify("success")
  BY <1>2, NumberNotify DEF Ended
<1>3. QED BY <1>1, <1>2, BodyFacts

\* A listener that is done leaves, and what it wrote carries its run's number.
LEMMA NumberWritten ==
    ASSUME SchedulerTypeOK, NumberInv, NEW t \in tasks, tasks' = tasks \ {t}, run' = run,
           logged' = logged \/ logged' = logged \cup {t.n},
           \A j \in DOMAIN records' :
             \/ records'[j].by = t.n
             \/ j \in DOMAIN records /\ records'[j].by = records[j].by
    PROVE  NumberInv'
<1>1. \A i \in DOMAIN records' : /\ records'[i].by <= run.n
                                 /\ run.pc # Idle => records'[i].by # run.n
                                 /\ \A u \in tasks' : records'[i].by # u.n
  BY NumberTypes DEF NumberInv
<1>2. \A u \in tasks' : u.n # t.n /\ u.n \notin logged' /\ (u.alone => tasks' = {u})
  BY DEF NumberInv
<1>3. \A n \in logged' : 0 < n /\ n <= run.n /\ (run.pc # Idle => n # run.n)
  BY DEF NumberInv
<1>4. QED BY <1>1, <1>2, <1>3 DEF NumberInv

\* Setting a status leaves what the documents say of runs.
LEMMA SetStatusOutcomes ==
    ASSUME SchedulerTypeOK, NEW i \in DOMAIN records,
           NEW status \in {"running", "success", "failed", "missed", "deleted"},
           records' = SetStatus(i, status)
    PROVE  SameOutcomes
  BY SetStatusFacts DEF SameOutcomes

\* So does inserting a running document.
LEMMA InsertRunningOutcomes ==
    ASSUME SchedulerTypeOK, records' = Append(records, Execution("running", 0))
    PROVE  /\ SameOutcomes
           /\ \A j \in DOMAIN records : j \in DOMAIN records' /\ records'[j] = records[j]
           /\ \A j \in DOMAIN records' \ DOMAIN records : records'[j].by = 0
<1>1. Execution("running", 0) \in Executions /\ Execution("running", 0).by = 0
  BY DEF Execution, Executions, Fresh
<1>2. QED BY <1>1, AppendFacts DEF SameOutcomes

\* What an administrator and the zombie check write.
LEMMA AdminFacts ==
    ASSUME SchedulerTypeOK, AdminWrite \/ ZombieWrite
    PROVE  /\ DOMAIN records' = DOMAIN records
           /\ \A j \in DOMAIN records :
                /\ records'[j].by = records[j].by
                /\ records'[j].status = "running" => records[j].status = "running"
<1>1. CASE AdminWrite
  <2>1. admin.rec \in DOMAIN records /\ admin.op \in {"cancel", "mark", "delete"}
    BY <1>1 DEF AdminWrite, Nobody, SchedulerTypeOK
  <2>2. CASE records' = [records EXCEPT ![admin.rec].cancel = TRUE]
    <3>1. records \in Seq(Executions) /\ \A j \in DOMAIN records : records[j] \in Executions
      BY DEF SchedulerTypeOK
    <3>2. QED BY <2>1, <2>2, <3>1 DEF Executions
  <2>3. CASE records' = SetStatus(admin.rec, "failed")
    BY <2>1, <2>3, SetStatusFacts
  <2>4. CASE records' = SetStatus(admin.rec, "deleted")
    BY <2>1, <2>4, SetStatusFacts
  <2>5. QED BY <1>1, <2>1, <2>2, <2>3, <2>4 DEF AdminWrite
<1>2. CASE ZombieWrite
  <2>1. PICK i \in zombies : records' = SetStatus(i, "failed")
    BY <1>2 DEF ZombieWrite
  <2>2. QED BY <2>1, SetStatusFacts DEF SchedulerTypeOK
<1>3. QED BY <1>1, <1>2

-----------------------------------------------------------------------------
\* Numbers stay unique, and whoever thinks it is alone is.
LEMMA NumbersKept ==
    SchedulerTypeOK /\ NumberInv /\ [SchedulerNext]_schedulerVars => NumberInv'
<1> SUFFICES ASSUME SchedulerTypeOK, NumberInv, [SchedulerNext]_schedulerVars PROVE NumberInv'
  OBVIOUS
<1>0. records' = records => SameOutcomes BY DEF SameOutcomes
<1>1. CASE \/ CronTime \/ SkipRun \/ OpenService \/ PauseJob \/ ResumeJob
           \/ TriggerJob \/ TriggerRaises \/ ZombieFind \/ UNCHANGED schedulerVars
           \/ \E op \in {"cancel", "mark", "delete"}, i \in DOMAIN records : AdminFind(op, i)
           \/ \E t \in tasks : ListenerRaises(t)
  <2>1. UNCHANGED <<records, run, logged>> /\ tasks' \subseteq tasks
    BY <1>1 DEF CronTime, SkipRun, OpenService, PauseJob, ResumeJob, TriggerJob, TriggerRaises,
                ZombieFind, AdminFind, ListenerRaises, schedulerVars
  <2>2. QED BY <1>0, <2>1, NumberQuiet
<1>2. CASE StartRun
  <2>1. /\ run'.n = run.n + 1 /\ UNCHANGED <<records, tasks, logged>>
    BY <1>2 DEF StartRun, SchedulerTypeOK
  <2>2. /\ \A t \in tasks : t.n < run'.n
        /\ \A n \in logged : n < run'.n
        /\ \A i \in DOMAIN records : records[i].by < run'.n
        /\ 0 < run'.n /\ run'.n \in Nat
    BY <2>1, NumberTypes DEF NumberInv
  <2>3. QED BY <2>1, <2>2, NumberTypes DEF NumberInv
<1>3. ASSUME NEW outcome \in {"missed", "failed"}, StartFails(outcome) PROVE NumberInv'
  <2>1. run'.n = run.n + 1 /\ run'.pc = Idle
    BY <1>3 DEF StartFails, SchedulerTypeOK
  <2>2. QED BY <1>0, <1>3, <2>1, NumberNotify DEF StartFails, Ended
<1>4. CASE ShouldStop \/ WorkRaises \/ UpdateProgress \/ BodyMongoRaises
  <2>1. UNCHANGED <<records, logged>> /\ run.pc # Idle
    BY <1>4 DEF ShouldStop, WorkRaises, UpdateProgress, BodyMongoRaises, Idle
  <2>2. CASE EndRun \/ NextItem
    BY <1>0, <2>1, <2>2, NumberBody
  <2>3. CASE run' = [run EXCEPT !.pc = "work"] /\ UNCHANGED tasks
    <3>1. run'.n = run.n BY <2>3 DEF SchedulerTypeOK
    <3>2. QED BY <2>1, <2>3, <3>1 DEF NumberInv
  <2>4. QED BY <1>4, <2>2, <2>3 DEF ShouldStop, WorkRaises, UpdateProgress, BodyMongoRaises
<1>5. CASE UpdateJobProgress
  <2> DEFINE i == Latest({"running"} \cup Ended)
  <2>1. i # 0 => i \in DOMAIN records BY LatestFacts
  <2> HIDE DEF i
  <2>2. SameOutcomes
    <3>1. CASE i # 0 /\ records' = SetStatus(i, "running")
      BY <2>1, <3>1, SetStatusOutcomes
    <3>2. QED BY <1>0, <1>5, <3>1, InsertRunningOutcomes DEF UpdateJobProgress, i
  <2>3. QED BY <1>5, <2>2, NumberBody DEF UpdateJobProgress, Idle
<1>6. ASSUME NEW t \in tasks, ListenerFind(t) PROVE NumberInv'
  <2>1. t \in ListenerTasks BY DEF SchedulerTypeOK
  <2> DEFINE found == [t EXCEPT !.rec = FreshRunning,
                                !.stage = IF FreshRunning = 0 THEN "insert" ELSE "update"]
  <2>2. tasks' = (tasks \ {t}) \cup {found} BY <1>6 DEF ListenerFind
  <2>a. found.n = t.n /\ found.alone = t.alone BY <2>1 DEF ListenerTasks
  <2> HIDE DEF found
  <2>3. UNCHANGED <<records, run, logged>> BY <1>6 DEF ListenerFind
  <2>4. \A u \in tasks' : \E v \in tasks : u.n = v.n /\ u.alone = v.alone
    BY <2>2, <2>a
  <2>5. \A u \in tasks' : u.alone => tasks' = {u}
    BY <2>2, <2>a DEF NumberInv
  <2>6. \A u, v \in tasks' : u.n = v.n => u = v
    BY <2>2, <2>a DEF NumberInv
  <2>7. QED BY <2>3, <2>4, <2>5, <2>6 DEF NumberInv
<1>7. ASSUME NEW t \in tasks, ListenerUpdate(t) PROVE NumberInv'
  BY <1>7, UpdateFacts, NumberWritten DEF ListenerUpdate
<1>8. ASSUME NEW t \in tasks, ListenerInsert(t) PROVE NumberInv'
  <2>1. Execution(t.outcome, t.n) \in Executions /\ Execution(t.outcome, t.n).by = t.n
    BY DEF SchedulerTypeOK, Execution, Executions, ListenerTasks, Ended, Fresh
  <2>2. QED BY <1>8, <2>1, AppendFacts, NumberWritten DEF ListenerInsert
<1>9. CASE TriggerRecord
  BY <1>9, InsertRunningOutcomes, NumberQuiet DEF TriggerRecord
<1>10. CASE AdminWrite \/ ZombieWrite
  <2>1. SameOutcomes BY <1>10, AdminFacts DEF SameOutcomes
  <2>2. QED BY <1>10, <2>1, NumberQuiet DEF AdminWrite, ZombieWrite
<1>11. ASSUME NEW i \in DOMAIN records, Age(i) PROVE NumberInv'
  <2>1. SameOutcomes BY <1>11, AgeFacts DEF SameOutcomes
  <2>2. QED BY <1>11, <2>1, NumberQuiet DEF Age
<1>12. CASE Restart
  <2>1. run'.n = run.n /\ run'.pc = Idle BY <1>12 DEF Restart, SchedulerTypeOK
  <2>2. QED BY <1>12, <2>1 DEF Restart, NumberInv
<1>13. QED BY <1>1, <1>2, <1>3, <1>4, <1>5, <1>6, <1>7, <1>8, <1>9, <1>10, <1>11, <1>12
           DEF SchedulerNext

\* A step that writes no outcome and in which nobody takes hold of a document.
LEMMA ShownQuiet ==
    ASSUME SchedulerTypeOK, ShownInv, UNCHANGED <<kind, logged>>,
           \A j \in DOMAIN records :
              /\ j \in DOMAIN records' /\ records'[j].by = records[j].by
              /\ records'[j].status = "running" => records[j].status = "running",
           \A j \in DOMAIN records' \ DOMAIN records : records'[j].by = 0,
           \A t \in tasks' : t.rec = 0 \/ \E u \in tasks : u.rec = t.rec
    PROVE  ShownInv'
<1>1. \A t \in tasks : t.rec # 0 => t.rec \in DOMAIN records
  BY DEF SchedulerTypeOK
<1>2. QED BY <1>1 DEF ShownInv

\* What a lone listener wrote is never written over by another run's.
LEMMA ShownKept ==
    SchedulerTypeOK /\ NumberInv /\ ShownInv /\ [SchedulerNext]_schedulerVars => ShownInv'
<1> SUFFICES ASSUME SchedulerTypeOK, NumberInv, ShownInv, [SchedulerNext]_schedulerVars
             PROVE  ShownInv'
  OBVIOUS
<1>1. CASE \/ CronTime \/ StartRun \/ SkipRun \/ OpenService \/ PauseJob \/ ResumeJob
           \/ TriggerJob \/ TriggerRaises \/ ZombieFind \/ UNCHANGED schedulerVars
           \/ \E op \in {"cancel", "mark", "delete"}, i \in DOMAIN records : AdminFind(op, i)
           \/ \E t \in tasks : ListenerRaises(t)
           \/ Restart
  <2>1. /\ UNCHANGED <<kind, records, logged>>
        /\ tasks' \subseteq tasks \/ tasks' = {}
    BY <1>1 DEF CronTime, StartRun, SkipRun, OpenService, PauseJob, ResumeJob, TriggerJob,
                TriggerRaises, ZombieFind, AdminFind, ListenerRaises, Restart, schedulerVars
  <2>2. QED BY <2>1, ShownQuiet
<1>2. ASSUME NEW outcome \in {"missed", "failed"}, StartFails(outcome) PROVE ShownInv'
  <2>1. run'.n \in Nat BY <1>2 DEF StartFails, SchedulerTypeOK
  <2>2. QED BY <1>2, <2>1, NotifyHolds, ShownQuiet DEF StartFails, Ended
<1>3. CASE ShouldStop \/ WorkRaises \/ UpdateProgress \/ BodyMongoRaises
  <2>1. /\ UNCHANGED <<kind, records, logged>> /\ run.pc # Idle
        /\ EndRun \/ NextItem \/ tasks' = tasks
    BY <1>3 DEF ShouldStop, WorkRaises, UpdateProgress, BodyMongoRaises, Idle
  <2>2. QED BY <2>1, BodyHolds, ShownQuiet
<1>4. CASE UpdateJobProgress
  BY <1>4 DEF UpdateJobProgress, ShownInv
<1>5. ASSUME NEW t \in tasks, ListenerFind(t) PROVE ShownInv'
  <2>1. \A u \in tasks' : u \in tasks \/ u.rec = FreshRunning
    BY <1>5 DEF ListenerFind, ListenerTasks, SchedulerTypeOK
  <2>2. UNCHANGED <<kind, records, logged>> BY <1>5 DEF ListenerFind
  <2>3. kind # "reporting" /\ FreshRunning # 0 => records[FreshRunning].by \notin logged
    BY FreshRunningFacts, NumberTypes DEF ShownInv, NumberInv
  <2>4. QED BY <2>1, <2>2, <2>3 DEF ShownInv
<1>6. ASSUME NEW t \in tasks, ListenerUpdate(t), kind # "reporting" PROVE ShownInv'
  <2>1. /\ t.outcome # "running" /\ tasks' = tasks \ {t} /\ kind' = kind
        /\ \A u \in tasks : u.rec # 0 => u.rec \in DOMAIN records
        /\ t.rec # 0 /\ t.rec \in DOMAIN records
        /\ DOMAIN records' = DOMAIN records
    <3>1. t \in ListenerTasks BY DEF SchedulerTypeOK
    <3>2. t.outcome # "running" BY <3>1 DEF ListenerTasks, Ended
    <3>3. tasks' = tasks \ {t} /\ kind' = kind /\ t.stage = "update" BY <1>6 DEF ListenerUpdate
    <3>4. \A u \in tasks : u.rec # 0 => u.rec \in DOMAIN records BY DEF SchedulerTypeOK
    <3>5. t.rec # 0 BY <3>3 DEF SchedulerTypeOK
    <3>6. DOMAIN records' = DOMAIN records BY <1>6, UpdateFacts
    <3>7. QED BY <3>2, <3>3, <3>4, <3>5, <3>6
  <2>2. CASE records' = records /\ logged' = logged
    BY <2>1, <2>2 DEF ShownInv
  <2>3. CASE records[t.rec].status # "deleted"
    <3>1. /\ \A j \in DOMAIN records : j # t.rec => records'[j] = records[j]
          /\ records'[t.rec].by = t.n /\ records'[t.rec].status # "running"
      BY <1>6, <2>1, <2>3, UpdateFacts
    <3>2. \A j \in DOMAIN records' : records'[j].by # 0 => records'[j].status # "running"
      BY <1>6, <2>1, <3>1 DEF ShownInv
    <3>3. \A n \in logged' : \E i \in DOMAIN records' : records'[i].by = n
      <4>1. \A n \in logged : \E i \in DOMAIN records : records[i].by = n /\ i # t.rec
        BY <1>6, <2>1 DEF ShownInv
      <4>2. logged' = logged \/ logged' = logged \cup {t.n} BY <1>6 DEF ListenerUpdate
      <4>3. QED BY <2>1, <3>1, <4>1, <4>2
    <3>4. \A u \in tasks' : u.rec # 0 => records'[u.rec].by \notin logged'
      <4>1. CASE t.alone
        <5>1. tasks' = {} BY <2>1, <4>1 DEF NumberInv
        <5>2. QED BY <5>1
      <4>2. CASE ~t.alone
        <5>1. logged' = logged /\ t.n \notin logged
          BY <1>6, <4>2 DEF ListenerUpdate, NumberInv
        <5>2. QED BY <1>6, <2>1, <3>1, <5>1 DEF ShownInv
      <4>3. QED BY <4>1, <4>2
    <3>5. QED BY <3>2, <3>3, <3>4 DEF ShownInv
  <2>4. QED BY <1>6, <2>2, <2>3 DEF ListenerUpdate
<1>7. ASSUME NEW t \in tasks, ListenerInsert(t), kind # "reporting" PROVE ShownInv'
  <2> DEFINE e == Execution(t.outcome, t.n)
  <2>1. e \in Executions /\ e.by = t.n /\ e.status # "running"
    BY DEF SchedulerTypeOK, Execution, Executions, ListenerTasks, Ended, Fresh
  <2>2. records' = Append(records, e) /\ tasks' = tasks \ {t}
    BY <1>7 DEF ListenerInsert
  <2> HIDE DEF e
  <2>3. /\ DOMAIN records' = DOMAIN records \cup {Len(records')}
        /\ \A j \in DOMAIN records : records'[j] = records[j]
        /\ records'[Len(records')].by = t.n /\ records'[Len(records')].status # "running"
        /\ \A u \in tasks : u.rec # 0 => u.rec \in DOMAIN records
    BY <2>1, <2>2, AppendFacts DEF SchedulerTypeOK
  <2>4. \A j \in DOMAIN records' : records'[j].by # 0 => records'[j].status # "running"
    BY <1>7, <2>3 DEF ShownInv
  <2>5. \A n \in logged' : \E i \in DOMAIN records' : records'[i].by = n
    <3>1. logged' = logged \/ logged' = logged \cup {t.n} BY <1>7 DEF ListenerInsert
    <3>2. QED BY <1>7, <2>3, <3>1 DEF ShownInv
  <2>6. \A u \in tasks' : u.rec # 0 => records'[u.rec].by \notin logged'
    <3>1. CASE t.alone
      <4>1. tasks' = {} BY <2>2, <3>1 DEF NumberInv
      <4>2. QED BY <4>1
    <3>2. CASE ~t.alone
      <4>1. logged' = logged BY <1>7, <3>2 DEF ListenerInsert
      <4>2. QED BY <1>7, <2>2, <2>3, <4>1 DEF ShownInv
    <3>3. QED BY <3>1, <3>2
  <2>7. QED BY <2>4, <2>5, <2>6 DEF ShownInv
<1>8. CASE TriggerRecord
  BY <1>8, InsertRunningOutcomes, ShownQuiet DEF TriggerRecord
<1>9. CASE AdminWrite \/ ZombieWrite
  BY <1>9, AdminFacts, ShownQuiet DEF AdminWrite, ZombieWrite
<1>10. ASSUME NEW i \in DOMAIN records, Age(i) PROVE ShownInv'
  <2>1. \A j \in DOMAIN records : /\ j \in DOMAIN records' /\ records'[j].by = records[j].by
                                  /\ records'[j].status = records[j].status
    BY <1>10, AgeFacts
  <2>2. DOMAIN records' = DOMAIN records BY <1>10, AgeFacts
  <2>3. QED BY <1>10, <2>1, <2>2, ShownQuiet DEF Age
<1>11. CASE kind = "reporting" /\ \E t \in tasks : ListenerUpdate(t) \/ ListenerInsert(t)
  BY <1>11 DEF ListenerUpdate, ListenerInsert, ShownInv
<1>12. QED BY <1>1, <1>2, <1>3, <1>4, <1>5, <1>6, <1>7, <1>8, <1>9, <1>10, <1>11
           DEF SchedulerNext

\* The outcome of a run whose listener worked alone stays on a document, however
\* runs, listeners and administrators interleave afterwards.
THEOREM OutcomesAreShown == SchedulerSpec => []OutcomesShown
<1>1. SchedulerInit => NumberInv /\ ShownInv
  BY DEF SchedulerInit, NumberInv, ShownInv, Idle
<1>2. ShownInv => OutcomesShown
  BY DEF ShownInv, OutcomesShown
<1>3. QED BY <1>1, <1>2, SchedulerTypes, NumbersKept, ShownKept, PTL DEF SchedulerSpec

=============================================================================
