----------------------------- MODULE JobEngine_proofs -----------------------------
(***************************************************************************)
(* Proofs about the job engine, for any number of launches, ids, killers,  *)
(* incarnations, ticks, failed statements and failed `kill` commands.      *)
(***************************************************************************)
EXTENDS JobEngineProperties, TLAPS

(* A kill in progress names its job. *)
KillsNamed ==
  \A k \in Killer : kill[k].pc \notin {"idle", "ended"} => kill[k].id \in Id

KillsTypeOK == kill \in [Killer -> Kills] /\ KillsNamed

(* So does an eviction in progress. *)
PassNamed == reap.pc \in {"kill", "unlink"} => reap.cur \in Id

PassTypeOK == reap \in Pass /\ PassNamed

TypeInv == TypeOK /\ KillsNamed /\ PassNamed

LEMMA TypeInit == Init => TypeInv
<1> SUFFICES ASSUME Init PROVE TypeInv
  OBVIOUS
<1> USE GroupConstants, LaunchBounds, EngineConstants
<1>1. GroupsTypeOK
  BY DEF Init, LaunchInit, GroupsInit, GroupsTypeOK, LeaderStates
<1>4. RowsOwned
  BY DEF Init, LaunchInit, RowsOwned, RowExists, NoRow
<1>2. LaunchTypeOK
  <2>1. faults \in Seq(Statements)
    BY DEF Init, LaunchInit
  <2> QED BY <1>1, <1>4, <2>1 DEF Init, LaunchInit, LaunchTypeOK, NoRow, NoFile, Rows, Files, RowStates, RunPcs,
       WaiterPcs
<1>3. rec \in Reconcile /\ kill \in [Killer -> Kills] /\ reap \in Pass
  BY DEF Init, Reconcile, NoReconcile, Kills, KillPcs, NoKill, Pass, NoPass
<1>5. KillsNamed
  BY DEF Init, KillsNamed, NoKill
<1>6. PassNamed
  BY DEF Init, PassNamed, NoPass
<1> QED BY <1>2, <1>3, <1>5, <1>6 DEF TypeInv, TypeOK

-----------------------------------------------------------------------------
(* One step.  Each layer's lemma covers the steps of that layer.           *)

LEMMA GroupSteps ==
  ASSUME GroupsTypeOK, NEW l, NEW signal, NEW parented \in BOOLEAN, NEW answer \in BOOLEAN,
         \/ UNCHANGED groupVars
         \/ StartGroup(l) \/ LeaderExit(l, parented) \/ ChildExit(l) \/ Reap(l)
         \/ ParentDies(answer) \/ Probe(l, answer) \/ SignalGroup(l, signal, parented, answer)
  PROVE  GroupsTypeOK'
<1> USE GroupConstants DEF GroupsTypeOK, LeaderStates
<1>1. CASE UNCHANGED groupVars
  BY <1>1 DEF groupVars
<1>2. CASE StartGroup(l)
  BY <1>2 DEF StartGroup
<1>3. CASE LeaderExit(l, parented)
  BY <1>3 DEF LeaderExit, Dead
<1>4. CASE ChildExit(l)
  BY <1>4 DEF ChildExit
<1>5. CASE Reap(l)
  BY <1>5 DEF Reap
<1>6. CASE ParentDies(answer)
  BY <1>6 DEF ParentDies
<1>7. CASE Probe(l, answer)
  BY <1>7 DEF Probe, Miss
<1>8. CASE SignalGroup(l, signal, parented, answer)
  <2>1. CASE Signalled(l, signal, parented) /\ UNCHANGED misses
    BY <2>1 DEF Signalled, Dead
  <2>2. CASE UNCHANGED groupVars
    BY <2>2 DEF groupVars
  <2>3. CASE Miss /\ UNCHANGED <<leader, child>>
    BY <2>3 DEF Miss
  <2> QED BY <1>8, <2>1, <2>2, <2>3 DEF SignalGroup
<1> QED BY <1>1, <1>2, <1>3, <1>4, <1>5, <1>6, <1>7, <1>8

(* What the launch layer keeps, its rows apart. *)
Rest ==
  /\ up \in BOOLEAN
  /\ gen \in Nat /\ boot \in Nat /\ clock \in Nat
  /\ jobs \in [Id -> Launch \cup {None}] /\ locked \in BOOLEAN
  /\ log \in [Id -> Files] /\ freed \in SUBSET Id
  /\ pc \in [Launch -> RunPcs] /\ jid \in [Launch -> Id \cup {None}]
  /\ born \in [Launch -> Nat]
  /\ jstate \in [Launch -> {"running", "exited"}] /\ done \in [Launch -> BOOLEAN]
  /\ wpc \in [Launch -> WaiterPcs]

RowsTypeOK == faults \in Seq(Statements) /\ row \in [Id -> Rows] /\ RowsOwned

LEMMA FailsType ==
  ASSUME RowsTypeOK, NEW ids, NEW why \in {"killed", "restarted"}, FailIfRunning(ids, why)
  PROVE  RowsTypeOK'
<1> USE DEF FailIfRunning, ForEach, RowsTypeOK
<1>1. faults' \in Seq(Statements)
  BY LaunchBounds DEF Ok, Fault, Statements
<1>2. row' \in [Id -> Rows] /\ RowsOwned'
  BY DEF Rows, RowStates, RowsOwned, RowExists
<1> QED BY <1>1, <1>2

LEMMA DeletesType ==
  ASSUME RowsTypeOK, NEW ids, DeleteRows(ids)
  PROVE  RowsTypeOK'
BY LaunchBounds DEF DeleteRows, ForEach, RowsTypeOK, Rows, RowStates, RowsOwned, RowExists, Ok,
   Fault, Statements, NoRow

LEMMA RunAndFinishType ==
  ASSUME RowsTypeOK, clock \in Nat,
         NEW i, NEW l \in Launch,
         UNCHANGED <<faults, row>> \/ InsertRunning(i, l) \/ Finish(i)
  PROVE  RowsTypeOK'
<1> USE LaunchBounds DEF RowsTypeOK, Rows, RowStates, RowsOwned, RowExists, Ok, Fault, Statements, NoRow
<1>1. CASE UNCHANGED <<faults, row>>
  BY <1>1
<1>2. CASE InsertRunning(i, l)
  BY <1>2 DEF InsertRunning
<1>3. CASE Finish(i)
  <2>1. faults' \in Seq(Statements)
    BY <1>3 DEF Finish
  <2>2. row' \in [Id -> Rows] /\ RowsOwned'
    BY <1>3 DEF Finish
  <2> QED BY <2>1, <2>2
<1> QED BY <1>1, <1>2, <1>3

TasksTypeOK == rec \in Reconcile /\ KillsTypeOK /\ PassTypeOK

LEMMA Parts ==
  /\ TypeInv <=> GroupsTypeOK /\ Rest /\ RowsTypeOK /\ TasksTypeOK
  /\ TypeInv' <=> GroupsTypeOK' /\ Rest' /\ RowsTypeOK' /\ TasksTypeOK'
BY DEF TypeInv, TypeOK, LaunchTypeOK, Rest, RowsTypeOK, TasksTypeOK, KillsTypeOK, PassTypeOK

-----------------------------------------------------------------------------
(* The launch layer's steps                                                *)

LEMMA RunStepsType ==
  ASSUME TypeInv, NEW l \in Launch, RunSteps(l), UNCHANGED <<rec, kill, reap>>
  PROVE  TypeInv'
<1> USE GroupConstants, LaunchBounds DEF Rest, RunPcs, WaiterPcs, Files, NoFile, Step
<1>t. GroupsTypeOK /\ Rest /\ RowsTypeOK /\ TasksTypeOK
  BY Parts
<1>1. GroupsTypeOK'
  <2>1. StartGroup(l) \/ UNCHANGED groupVars
    BY DEF RunSteps, Reserve, Spawn, SpawnFails, Track, Persist, Return
  <2> QED BY <1>t, <2>1, GroupSteps, TRUE \in BOOLEAN
<1>2. RowsTypeOK'
  <2>1. UNCHANGED <<faults, row>> \/ InsertRunning(jid[l], l)
    BY DEF RunSteps, Reserve, Spawn, SpawnFails, Track, Persist, Return, storeVars
  <2>2. clock \in Nat
    BY <1>t
  <2> QED BY <1>t, <2>1, <2>2, RunAndFinishType
<1>3. Rest'
  <2>1. CASE Reserve(l)
    BY <1>t, <2>1 DEF Reserve, serverVars, waiterVars
  <2>2. CASE Spawn(l) \/ SpawnFails(l) \/ Return(l)
    BY <1>t, <2>2 DEF Spawn, SpawnFails, Return, serverVars, waiterVars, storeVars
  <2>3. CASE Track(l)
    BY <1>t, <2>3 DEF Track, serverVars, waiterVars
  <2>4. CASE Persist(l)
    BY <1>t, <2>4 DEF Persist, serverVars
  <2> QED BY <2>1, <2>2, <2>3, <2>4 DEF RunSteps
<1>4. TasksTypeOK'
  BY <1>t DEF TasksTypeOK, KillsTypeOK, KillsNamed, PassTypeOK, PassNamed
<1> QED BY <1>1, <1>2, <1>3, <1>4, Parts

LEMMA WaiterStepsType ==
  ASSUME TypeInv, NEW l \in Launch, WaiterSteps(l) \/ GroupRuns(l) \/ Write(l),
         UNCHANGED <<rec, kill, reap>>
  PROVE  TypeInv'
<1> USE GroupConstants, LaunchBounds DEF WaiterPcs, Files, WaiterStep
<1>t. GroupsTypeOK /\ Rest /\ RowsTypeOK /\ TasksTypeOK
  BY Parts
<1>1. GroupsTypeOK'
  <2>1. Parented(l) \in BOOLEAN
    BY <1>t DEF Parented, Rest
  <2>2. Reap(l) \/ LeaderExit(l, Parented(l)) \/ ChildExit(l) \/ UNCHANGED groupVars
    BY DEF WaiterSteps, WaiterReap, WaiterRecord, WaiterSignal, WaiterFinish, GroupRuns, Write
  <2> QED BY <1>t, <2>1, <2>2, GroupSteps
<1>2. RowsTypeOK'
  <2>1. UNCHANGED <<faults, row>> \/ Finish(jid[l])
    BY DEF WaiterSteps, WaiterReap, WaiterRecord, WaiterSignal, WaiterFinish, GroupRuns, Write,
           storeVars
  <2>2. clock \in Nat
    BY <1>t DEF Rest
  <2> QED BY <1>t, <2>1, <2>2, RunAndFinishType
<1>3. Rest'
  <2>1. CASE WaiterReap(l) \/ WaiterRecord(l) \/ WaiterSignal(l)
    BY <1>t, <2>1 DEF Rest, WaiterReap, WaiterRecord, WaiterSignal, serverVars, launchVars,
       storeVars
  <2>2. CASE WaiterFinish(l)
    BY <1>t, <2>2 DEF Rest, WaiterFinish, serverVars, launchVars
  <2>3. CASE GroupRuns(l)
    BY <1>t, <2>3 DEF Rest, GroupRuns, serverVars, launchVars, waiterVars, storeVars
  <2>4. CASE Write(l)
    <3>1. log' = [log EXCEPT ![jid[l]].mtime = clock]
      BY <2>4 DEF Write
    <3>2. log \in [Id -> Files] /\ clock \in Nat
      BY <1>t DEF Rest
    <3>3. ASSUME NEW i \in Id PROVE [log[i] EXCEPT !.mtime = clock] \in Files
      BY <3>2
    <3>4. log' \in [Id -> Files]
      BY <3>1, <3>2, <3>3 DEF Files
    <3> HIDE DEF Files
    <3> QED BY <1>t, <2>4, <3>4 DEF Rest, Write, serverVars, launchVars, waiterVars
  <2> QED BY <2>1, <2>2, <2>3, <2>4 DEF WaiterSteps
<1>4. TasksTypeOK'
  BY <1>t DEF TasksTypeOK, KillsTypeOK, KillsNamed, PassTypeOK, PassNamed
<1> QED BY <1>1, <1>2, <1>3, <1>4, Parts

-----------------------------------------------------------------------------
(* The reconcile                                                           *)

LEMMA ReconcileType ==
  ASSUME TypeInv, ReconcileNext
  PROVE  TypeInv'
<1>t. GroupsTypeOK /\ Rest /\ RowsTypeOK /\ TasksTypeOK
  BY Parts
<1>c. clock \in Nat
  BY <1>t DEF Rest
<1>1. CASE ReconcileLock
  <2>1. GroupsTypeOK' /\ RowsTypeOK'
    BY <1>t, <1>1 DEF ReconcileLock, GroupsTypeOK, groupVars, RowsTypeOK, RowsOwned, RowExists
  <2>2. Rest'
    BY <1>t, <1>1 DEF ReconcileLock, Rest, serverVars, launchVars, waiterVars
  <2>3. TasksTypeOK'
    BY <1>t, <1>1 DEF ReconcileLock, TasksTypeOK, KillsTypeOK, KillsNamed, PassTypeOK,
       PassNamed, Reconcile, LiveIds
  <2> QED BY <2>1, <2>2, <2>3, Parts
<1>2. CASE ReconcileQuery
  <2>1. GroupsTypeOK' /\ RowsTypeOK'
    BY <1>t, <1>2, LaunchBounds DEF ReconcileQuery, GroupsTypeOK, groupVars, RowsTypeOK,
       RowsOwned,
       RowExists, Ok, Fault, Statements
  <2>2. Rest'
    BY <1>t, <1>2 DEF ReconcileQuery, Rest, serverVars, launchVars, waiterVars
  <2>3. StaleRunning \in SUBSET Launch
    BY <1>t DEF StaleRunning, RowsTypeOK, RowsOwned, RowExists
  <2>4. TasksTypeOK'
    <3>1. CASE rec' = [rec EXCEPT !.pc = "probe", !.todo = StaleRunning]
      BY <1>t, <1>2, <2>3, <3>1 DEF ReconcileQuery, TasksTypeOK, KillsTypeOK, KillsNamed,
         PassTypeOK, PassNamed, Reconcile
    <3>2. CASE rec' = NoReconcile("done")
      BY <1>t, <1>2, <3>2 DEF ReconcileQuery, TasksTypeOK, KillsTypeOK, KillsNamed, PassTypeOK,
         PassNamed, Reconcile, NoReconcile
    <3> QED BY <1>2, <3>1, <3>2 DEF ReconcileQuery
  <2> QED BY <2>1, <2>2, <2>4, Parts
<1>3. ASSUME NEW l \in Launch, ReconcileProbe(l) PROVE TypeInv'
  <2>1. PICK alive \in BOOLEAN :
          /\ Probe(l, alive)
          /\ rec' = [rec EXCEPT !.todo = @ \ {l},
                                !.dead = IF alive THEN @ ELSE @ \cup {l},
                                !.alive = IF alive THEN @ \cup {l} ELSE @]
    BY <1>3 DEF ReconcileProbe, AskGroup
  <2>2. GroupsTypeOK'
    BY <1>t, <2>1, GroupSteps
  <2>3. RowsTypeOK' /\ Rest'
    BY <1>t, <1>3 DEF ReconcileProbe, RowsTypeOK, RowsOwned, RowExists, Rest, serverVars,
       launchVars, waiterVars, storeVars
  <2>4. TasksTypeOK'
    BY <1>t, <1>3, <2>1 DEF ReconcileProbe, TasksTypeOK, KillsTypeOK, KillsNamed, PassTypeOK,
       PassNamed, Reconcile
  <2> QED BY <2>2, <2>3, <2>4, Parts
<1>4. CASE ReconcileMark
  <2>1. RowsTypeOK'
    <3>1. \/ UNCHANGED <<faults, row>>
          \/ FailIfRunning({jid[l] : l \in rec.dead}, "restarted")
      BY <1>4 DEF ReconcileMark
    <3>2. CASE UNCHANGED <<faults, row>>
      BY <1>t, <3>2 DEF RowsTypeOK, RowsOwned, RowExists
    <3>3. CASE FailIfRunning({jid[l] : l \in rec.dead}, "restarted")
      <4> DEFINE ids == {jid[l] : l \in rec.dead}
      <4>1. FailIfRunning(ids, "restarted")
        BY <3>3
      <4> HIDE DEF ids
      <4> QED BY <1>t, <1>c, <4>1, FailsType
    <3> QED BY <3>1, <3>2, <3>3
  <2>2. GroupsTypeOK' /\ Rest'
    BY <1>t, <1>4 DEF ReconcileMark, GroupsTypeOK, groupVars, Rest, serverVars, launchVars,
       waiterVars
  <2>3. TasksTypeOK'
    BY <1>t, <1>4 DEF ReconcileMark, TasksTypeOK, KillsTypeOK, KillsNamed, PassTypeOK,
       PassNamed, Reconcile, NoReconcile
  <2> QED BY <2>1, <2>2, <2>3, Parts
<1> QED BY <1>1, <1>2, <1>3, <1>4 DEF ReconcileNext

-----------------------------------------------------------------------------
(* Kills                                                                   *)

LEMMA GotoType ==
  ASSUME KillsTypeOK, NEW k \in Killer, NEW to \in KillPcs, Goto(k, to),
         kill[k].pc \notin {"idle", "ended"}
  PROVE  KillsTypeOK'
BY DEF Goto, Kills, KillsTypeOK, KillsNamed

LEMMA AnswerType ==
  ASSUME KillsTypeOK, NEW k \in Killer, NEW result \in BOOLEAN, Answer(k, result)
  PROVE  KillsTypeOK'
BY SMTT(30), ZenonT(60) DEF Answer, Kills, KillPcs, KillsTypeOK, KillsNamed

LEMMA KillJobType ==
  ASSUME TypeInv, NEW k \in Killer, KillJob(k)
  PROVE  TypeInv'
<1>t. GroupsTypeOK /\ Rest /\ RowsTypeOK /\ TasksTypeOK
  BY Parts
<1>k. KillsTypeOK
  BY <1>t DEF TasksTypeOK
<1> DEFINE l == kill[k].job
<1>p. Parented(l) \in BOOLEAN
  BY <1>t DEF Parented, Rest
<1>a. /\ UNCHANGED <<serverVars, launchVars, waiterVars, storeVars, rec, reap>>
      /\ \/ UNCHANGED groupVars
         \/ \E answer \in BOOLEAN : \/ Probe(l, answer)
                                   \/ \E signal \in {"TERM", "KILL"} :
                                        SignalGroup(l, signal, Parented(l), answer)
  BY DEF KillJob, KillJobCheck, KillJobTerm, KillJobRecheck, KillJobExited, KillJobGraceOver,
     KillJobForce, KillJobFinal, launchLayer
<1>b. /\ kill[k].pc \notin {"idle", "ended"}
      /\ \/ \E to \in KillPcs : Goto(k, to)
         \/ \E result \in BOOLEAN : Answer(k, result)
  BY DEF At, KillJob, KillJobCheck, KillJobTerm, KillJobRecheck, KillJobExited, KillJobGraceOver,
     KillJobForce, KillJobFinal, KillPcs
<1>1. GroupsTypeOK'
  BY <1>t, <1>p, <1>a, GroupSteps
<1>2. RowsTypeOK' /\ Rest'
  BY <1>t, <1>a DEF RowsTypeOK, RowsOwned, RowExists, Rest, serverVars, launchVars, waiterVars,
     storeVars
<1>3. TasksTypeOK'
  <2>1. KillsTypeOK'
    BY <1>b, <1>k, GotoType, AnswerType
  <2> QED BY <1>t, <1>a, <2>1 DEF TasksTypeOK, PassTypeOK, PassNamed
<1> QED BY <1>1, <1>2, <1>3, Parts

LEMMA KillPersistedType ==
  ASSUME TypeInv, NEW k \in Killer, KillPersisted(k)
  PROVE  TypeInv'
<1>t. GroupsTypeOK /\ Rest /\ RowsTypeOK /\ TasksTypeOK
  BY Parts
<1>k. KillsTypeOK
  BY <1>t DEF TasksTypeOK
<1> DEFINE l == kill[k].job
<1>p. Parented(l) \in BOOLEAN
  BY <1>t DEF Parented, Rest
<1>1. CASE KillFind(k)
  <2>1. GroupsTypeOK' /\ RowsTypeOK' /\ Rest'
    <3>1. /\ UNCHANGED <<groupVars, serverVars, launchVars, waiterVars, jobs, locked, row, log,
                         freed>>
          /\ Ok \/ Fault("other")
      BY <1>1 DEF KillFind
    <3>2. GroupsTypeOK' /\ Rest'
      BY <1>t, <3>1 DEF GroupsTypeOK, groupVars, Rest, serverVars, launchVars, waiterVars
    <3>3. RowsTypeOK'
      BY <1>t, <3>1, LaunchBounds DEF RowsTypeOK, RowsOwned, RowExists, Ok, Fault, Statements
    <3> QED BY <3>2, <3>3
  <2>2. KillsTypeOK'
    <3>1. CASE Answer(k, FALSE)
      BY <1>k, <3>1, AnswerType
    <3>2. CASE /\ row[kill[k].id].status = "running"
               /\ kill' = [kill EXCEPT ![k].pc = "probe", ![k].job = row[kill[k].id].owner]
      <4>1. kill[k].id \in Id
        BY <1>1, <1>k DEF KillFind, At, KillsTypeOK, KillsNamed
      <4>2. row[kill[k].id].owner \in Launch \cup {None}
        BY <1>t, <4>1 DEF RowsTypeOK, Rows
      <4> DEFINE found == [kill[k] EXCEPT !.pc = "probe", !.job = row[kill[k].id].owner]
      <4>3. kill' = [kill EXCEPT ![k] = found]
        BY <1>k, <3>2 DEF KillsTypeOK
      <4>4. found \in Kills /\ found.id \in Id
        BY <1>k, <4>1, <4>2 DEF Kills, KillPcs, KillsTypeOK
      <4> HIDE DEF found
      <4> QED BY <1>k, <4>3, <4>4 DEF KillsTypeOK, KillsNamed
    <3> QED BY <1>1, <3>1, <3>2 DEF KillFind
  <2> QED BY <1>t, <1>1, <2>1, <2>2, Parts DEF KillFind, TasksTypeOK, PassTypeOK, PassNamed
<1>2. CASE KillMark(k)
  <2>1. RowsTypeOK'
    BY <1>t, <1>2, FailsType DEF KillMark
  <2>2. GroupsTypeOK' /\ Rest'
    BY <1>t, <1>2 DEF KillMark, GroupsTypeOK, groupVars, Rest, serverVars, launchVars, waiterVars
  <2>3. KillsTypeOK'
    BY <1>2, <1>k, AnswerType DEF KillMark
  <2> QED BY <1>t, <1>2, <2>1, <2>2, <2>3, Parts DEF KillMark, TasksTypeOK, PassTypeOK, PassNamed
<1>3. CASE \/ KillProbe(k) \/ KillTerm(k) \/ KillPoll(k) \/ KillLast(k)
           \/ KillForce(k) \/ KillVerify(k)
  <2>1. /\ UNCHANGED <<serverVars, launchVars, waiterVars, storeVars, rec, reap>>
        /\ \E answer \in BOOLEAN : \/ Probe(l, answer)
                                  \/ \E signal \in {"TERM", "KILL"} :
                                       SignalGroup(l, signal, Parented(l), answer)
    BY <1>3 DEF KillProbe, KillTerm, KillPoll, KillLast, KillForce, KillVerify
  <2>2. /\ kill[k].pc \notin {"idle", "ended"}
        /\ \/ \E to \in KillPcs : Goto(k, to)
           \/ \E result \in BOOLEAN : Answer(k, result)
    BY <1>3 DEF At, KillProbe, KillTerm, KillPoll, KillLast, KillForce, KillVerify, KillPcs
  <2>3. GroupsTypeOK'
    BY <1>t, <1>p, <2>1, GroupSteps
  <2>4. RowsTypeOK' /\ Rest'
    BY <1>t, <2>1 DEF RowsTypeOK, RowsOwned, RowExists, Rest, serverVars, launchVars, waiterVars,
       storeVars
  <2>5. KillsTypeOK'
    BY <1>k, <2>2, GotoType, AnswerType
  <2> QED BY <1>t, <2>1, <2>3, <2>4, <2>5, Parts DEF TasksTypeOK, PassTypeOK, PassNamed
<1> QED BY <1>1, <1>2, <1>3 DEF KillPersisted

LEMMA KillStartsType ==
  ASSUME TypeInv, NEW k \in Killer, NEW i \in Id, ToolKill(k, i) \/ CliKill(k, i)
  PROVE  TypeInv'
<1>t. GroupsTypeOK /\ Rest /\ RowsTypeOK /\ TasksTypeOK
  BY Parts
<1>1. GroupsTypeOK' /\ RowsTypeOK' /\ Rest'
  BY <1>t DEF ToolKill, CliKill, launchLayer, GroupsTypeOK, groupVars, RowsTypeOK, RowsOwned,
     RowExists, Rest, serverVars, launchVars, waiterVars, storeVars
<1>2. \E kl \in Kills : kl.id = i /\ kill' = [kill EXCEPT ![k] = kl]
  <2>1. jobs[i] \in Launch \cup {None}
    BY <1>t DEF Rest
  <2>2. NoKill \in Kills
    BY DEF NoKill, Kills, KillPcs
  <2> QED BY <2>1, <2>2 DEF ToolKill, CliKill, NoKill, Kills, KillPcs
<1> QED BY <1>t, <1>1, <1>2, Parts DEF TasksTypeOK, KillsTypeOK, KillsNamed, PassTypeOK,
   PassNamed,
       ToolKill, CliKill

-----------------------------------------------------------------------------
(* The reaper and the server                                               *)

LEMMA PassType ==
  ASSUME NEW at \in {"off", "idle", "orphans"}, reap' = NoPass(at) PROVE PassTypeOK'
BY DEF NoPass, Pass, PassTypeOK, PassNamed

LEMMA ReaperType ==
  ASSUME TypeInv, ReaperPass
  PROVE  TypeInv'
<1>t. GroupsTypeOK /\ Rest /\ RowsTypeOK /\ TasksTypeOK
  BY Parts
<1>k. KillsTypeOK /\ PassTypeOK
  BY <1>t DEF TasksTypeOK
<1>f. reaperFrame' = reaperFrame
  BY DEF ReaperPass, ReapStart, ReapKilled, ReapDelete, ReapUnlink, OrphanScan, OrphanEnd,
     ReapKill,
     ReapAsIs, ReapDrop, OrphanRemove
<1>1. GroupsTypeOK'
  BY <1>t, <1>f DEF reaperFrame, groupVars, GroupsTypeOK
<1>2. RowsTypeOK'
  <2>1. CASE UNCHANGED row /\ (UNCHANGED faults \/ Fault("other"))
    BY <1>t, <2>1, LaunchBounds DEF RowsTypeOK, RowsOwned, RowExists, Fault, Statements
  <2>2. CASE DeleteRows(reap.evict)
    BY <1>t, <2>2, DeletesType
  <2> QED BY <2>1, <2>2 DEF ReaperPass, ReapStart, ReapKilled, ReapDelete, ReapUnlink, OrphanScan,
             OrphanEnd, ReapKill, ReapAsIs, ReapDrop, OrphanRemove, storeVars, Ok
<1>3. Rest'
  <2>1. UNCHANGED <<serverVars, launchVars, waiterVars>>
    BY <1>f DEF reaperFrame
  <2>2. jobs' \in [Id -> Launch \cup {None}] /\ locked' \in BOOLEAN
    BY <1>t DEF Rest, ReaperPass, ReapStart, ReapKilled, ReapDelete, ReapUnlink, OrphanScan,
       OrphanEnd, ReapKill, ReapAsIs, ReapDrop, OrphanRemove, storeVars
  <2>3. log' \in [Id -> Files] /\ freed' \in SUBSET Id
    <3>1. UNCHANGED <<log, freed>> \/ \E j \in Id : RemoveLog(j)
      BY <1>k DEF PassTypeOK, PassNamed, ReaperPass, ReapStart, ReapKilled, ReapDelete,
         ReapUnlink, OrphanScan, OrphanEnd,
         ReapKill, ReapAsIs, ReapDrop, OrphanRemove, storeVars
    <3> QED BY <1>t, <3>1 DEF Rest, RemoveLog, NoFile, Files
  <2> QED BY <1>t, <2>1, <2>2, <2>3 DEF Rest, serverVars, launchVars, waiterVars
<1>4. PassTypeOK'
  <2> USE DEF PassTypeOK, PassNamed, Pass
  <2>1. CASE ReapStart \/ OrphanScan \/ OrphanEnd
    BY <1>k, <2>1 DEF ReapStart, OrphanScan, OrphanEnd, ToOrphans, NoPass, Aged
  <2>2. CASE ReapKilled
    <3> DEFINE kept == [reap EXCEPT !.pc = "scan", !.cur = None]
               gone == [reap EXCEPT !.pc = "scan", !.cur = None, !.evict = @ \cup {reap.cur}]
    <3>1. reap.cur \in Id
      BY <1>k, <2>2 DEF ReapKilled
    <3>2. reap' = kept \/ reap' = gone
      BY <1>k, <2>2 DEF ReapKilled
    <3>3. kept \in Pass /\ kept.pc = "scan"
      BY <1>k
    <3>4. gone \in Pass /\ gone.pc = "scan"
      BY <1>k, <3>1
    <3> HIDE DEF kept, gone
    <3> QED BY <3>2, <3>3, <3>4
  <2>3. CASE ReapDelete
    BY <1>k, <2>3, PassType DEF ReapDelete, ToOrphans
  <2>4. CASE ReapUnlink
    BY <1>k, <2>4, PassType, ZenonT(60) DEF ReapUnlink, ToOrphans
  <2>5. ASSUME NEW i \in Id, ReapKill(i) PROVE PassTypeOK'
    BY <1>k, <2>5 DEF ReapKill
  <2>6. ASSUME NEW i \in Id, ReapAsIs(i) PROVE PassTypeOK'
    BY <1>k, <2>6 DEF ReapAsIs
  <2>7. ASSUME NEW i \in Id, ReapDrop(i) PROVE PassTypeOK'
    BY <1>k, <2>7 DEF ReapDrop
  <2>8. ASSUME NEW i \in Id, OrphanRemove(i) PROVE PassTypeOK'
    BY <1>k, <2>8 DEF OrphanRemove
  <2> QED BY <2>1, <2>2, <2>3, <2>4, <2>5, <2>6, <2>7, <2>8 DEF ReaperPass
<1>5. KillsTypeOK'
  <2>1. \/ UNCHANGED kill
        \/ \E kl \in Kills : /\ kl.pc \notin {"idle", "ended"} => kl.id \in Id
                            /\ kill' = [kill EXCEPT ![Reaper] = kl]
    <3>1. ASSUME NEW i \in Id, ReapKill(i)
          PROVE  [NoKill EXCEPT !.pc = "check", !.id = i, !.job = jobs[i]] \in Kills
      BY <1>t DEF Rest, NoKill, Kills, KillPcs
    <3>2. NoKill \in Kills /\ NoKill.pc = "idle"
      BY DEF NoKill, Kills, KillPcs
    <3>3. ASSUME NEW i \in Id
          PROVE  [NoKill EXCEPT !.pc = "check", !.id = i, !.job = jobs[i]].id \in Id
      BY DEF NoKill
    <3>4. ASSUME NEW i \in Id, ReapKill(i)
          PROVE  \E kl \in Kills : kl.id \in Id /\ kill' = [kill EXCEPT ![Reaper] = kl]
      BY <3>1, <3>3, <3>4 DEF ReapKill
    <3>5. ReapKilled => kill' = [kill EXCEPT ![Reaper] = NoKill]
      BY DEF ReapKilled
    <3>6. \/ \E i \in Id : ReapKill(i)
          \/ ReapKilled
          \/ UNCHANGED kill
      BY DEF ReaperPass, ReapStart, ReapDelete, ReapUnlink, OrphanScan, OrphanEnd, ReapAsIs,
         ReapDrop, OrphanRemove
    <3> QED BY <3>2, <3>4, <3>5, <3>6
  <2> QED BY <1>k, <2>1 DEF KillsTypeOK, KillsNamed
<1>6. rec' = rec
  BY <1>f DEF reaperFrame
<1> QED BY <1>t, <1>1, <1>2, <1>3, <1>4, <1>5, <1>6, Parts DEF TasksTypeOK

LEMMA ServerType ==
  ASSUME TypeInv, Tick \/ EngineDies \/ EngineRestarts
  PROVE  TypeInv'
<1>t. GroupsTypeOK /\ Rest /\ RowsTypeOK /\ TasksTypeOK
  BY Parts
<1>1. CASE Tick
  <2>1. GroupsTypeOK' /\ RowsTypeOK' /\ Rest'
    BY <1>t, <1>1 DEF Tick, GroupsTypeOK, groupVars, RowsTypeOK, RowsOwned, RowExists, Rest,
       launchVars, waiterVars
  <2>2. TasksTypeOK'
    BY <1>t, <1>1 DEF Tick, TasksTypeOK, KillsTypeOK, KillsNamed, PassTypeOK, PassNamed
  <2> QED BY <2>1, <2>2, Parts
<1>2. CASE EngineDies
  <2>1. PICK controlGroup \in BOOLEAN : ParentDies(controlGroup)
    BY <1>2 DEF EngineDies, Die
  <2>2. GroupsTypeOK'
    BY <1>t, <2>1 DEF ParentDies, GroupsTypeOK, LeaderStates
  <2>3. RowsTypeOK'
    BY <1>t, <1>2 DEF EngineDies, Die, RowsTypeOK, RowsOwned, RowExists
  <2>4. Rest'
    BY <1>t, <1>2 DEF EngineDies, Die, Rest, RunPcs, WaiterPcs
  <2>5. KillsTypeOK'
    <3>1. NoKill \in Kills /\ [NoKill EXCEPT !.pc = "ended"] \in Kills
      BY DEF NoKill, Kills, KillPcs
    <3>2. NoKill.pc = "idle" /\ [NoKill EXCEPT !.pc = "ended"].pc = "ended"
      BY DEF NoKill
    <3>3. ASSUME NEW k \in Killer
          PROVE  kill'[k] \in {kill[k], NoKill, [NoKill EXCEPT !.pc = "ended"]}
      BY <1>2 DEF EngineDies
    <3>4. kill \in [Killer -> Kills] /\ KillsNamed
      BY <1>t DEF TasksTypeOK, KillsTypeOK
    <3>5. kill' \in [Killer -> Kills]
      <4>1. kill' = [k \in Killer |-> kill'[k]]
        BY <1>2 DEF EngineDies
      <4>2. \A k \in Killer : kill'[k] \in Kills
        BY <3>1, <3>3, <3>4
      <4> QED BY <4>1, <4>2
    <3>6. KillsNamed'
      BY <3>2, <3>3, <3>4 DEF KillsNamed
    <3> QED BY <3>5, <3>6 DEF KillsTypeOK
  <2>6. rec' \in Reconcile /\ PassTypeOK'
    BY <1>2, PassType DEF EngineDies, NoReconcile, Reconcile
  <2> QED BY <2>2, <2>3, <2>4, <2>5, <2>6, Parts DEF TasksTypeOK
<1>3. CASE EngineRestarts
  <2>1. GroupsTypeOK' /\ RowsTypeOK' /\ Rest'
    BY <1>t, <1>3 DEF EngineRestarts, Restart, GroupsTypeOK, groupVars, RowsTypeOK, RowsOwned,
       RowExists, Rest, launchVars, waiterVars, storeVars
  <2>2. rec' \in Reconcile /\ PassTypeOK'
    BY <1>3, PassType DEF EngineRestarts, NoReconcile, Reconcile
  <2>3. KillsTypeOK'
    BY <1>t, <1>3 DEF EngineRestarts, TasksTypeOK, KillsTypeOK, KillsNamed
  <2> QED BY <2>1, <2>2, <2>3, Parts DEF TasksTypeOK
<1> QED BY <1>1, <1>2, <1>3

LEMMA TypeStep == TypeInv /\ [Next]_vars => TypeInv'
<1> SUFFICES ASSUME TypeInv, [Next]_vars PROVE TypeInv'
  OBVIOUS
<1>1. ASSUME NEW l \in Launch, LaunchNext(l) PROVE TypeInv'
  BY <1>1, RunStepsType, WaiterStepsType DEF LaunchNext
<1>2. CASE ReconcileNext
  BY <1>2, ReconcileType
<1>3. ASSUME NEW k \in Killer, KillNext(k) PROVE TypeInv'
  BY <1>3, KillJobType, KillPersistedType, KillStartsType DEF KillNext
<1>4. CASE ReaperPass
  BY <1>4, ReaperType
<1>5. CASE Tick \/ EngineDies \/ EngineRestarts
  BY <1>5, ServerType
<1>6. CASE UNCHANGED vars
  BY <1>6 DEF vars, launchLayer, groupVars, serverVars, launchVars, waiterVars, storeVars,
     TypeInv, TypeOK, LaunchTypeOK, GroupsTypeOK, RowsOwned, RowExists, KillsNamed, PassNamed
<1> QED BY <1>1, <1>2, <1>3, <1>4, <1>5, <1>6 DEF Next

(* Every state the engine reaches is well typed: rows that exist name the  *)
(* launch that wrote them, and a kill or an eviction in progress the job   *)
(* it is about (src/jobs, every handler).                                  *)
THEOREM EngineIsTyped == Spec => []TypeOK
<1>1. TypeInv => TypeOK
  BY DEF TypeInv
<1> QED BY <1>1, TypeInit, TypeStep, PTL DEF Spec

-----------------------------------------------------------------------------
(* Done after state                                                        *)

(* A waiter past recording has stored the state, and only such a waiter    *)
(* has woken the others.                                                   *)
WaiterInv ==
  \A l \in Launch :
    /\ wpc[l] \in {"recorded", "signalled", "finished"} => jstate[l] = "exited"
    /\ done[l] => jstate[l] = "exited"

LEMMA WaiterInit == Init => WaiterInv
BY DEF Init, LaunchInit, WaiterInv

LEMMA WaiterInvStep == TypeInv /\ WaiterInv /\ [Next]_vars => WaiterInv'
<1> SUFFICES ASSUME TypeInv, WaiterInv, [Next]_vars PROVE WaiterInv'
  OBVIOUS
<1>t. /\ jstate \in [Launch -> {"running", "exited"}]
      /\ done \in [Launch -> BOOLEAN]
      /\ wpc \in [Launch -> WaiterPcs]
  BY Parts DEF Rest
<1>1. ASSUME NEW l \in Launch, LaunchNext(l) PROVE WaiterInv'
  <2>1. CASE WaiterSteps(l)
    BY <1>t, <2>1 DEF WaiterInv, WaiterSteps, WaiterReap, WaiterRecord, WaiterSignal,
       WaiterFinish,
       WaiterStep
  <2>2. CASE Persist(l)
    BY <1>t, <2>2 DEF WaiterInv, Persist
  <2>3. CASE UNCHANGED waiterVars
    BY <2>3 DEF WaiterInv, waiterVars
  <2> QED BY <1>1, <2>1, <2>2, <2>3 DEF LaunchNext, RunSteps, Reserve, Spawn, SpawnFails, Track,
             Return, GroupRuns, Write
<1>2. CASE EngineDies
  BY <1>2 DEF WaiterInv, EngineDies, Die
<1>3. CASE ReconcileNext \/ ReaperPass \/ Tick \/ EngineRestarts \/ UNCHANGED vars
  <2>1. UNCHANGED waiterVars
    BY <1>3 DEF ReconcileNext, ReconcileLock, ReconcileQuery, ReconcileProbe, ReconcileMark,
       ReaperPass, ReapStart, ReapKilled, ReapDelete, ReapUnlink, OrphanScan, OrphanEnd, ReapKill,
       ReapAsIs, ReapDrop, OrphanRemove, reaperFrame, Tick, EngineRestarts, Restart, vars,
          launchLayer
  <2> QED BY <2>1 DEF WaiterInv, waiterVars
<1>4. ASSUME NEW k \in Killer, KillNext(k) PROVE WaiterInv'
  <2>1. UNCHANGED waiterVars
    BY <1>4 DEF KillNext, KillJob, KillJobCheck, KillJobTerm, KillJobRecheck, KillJobExited,
       KillJobGraceOver, KillJobForce, KillJobFinal, KillPersisted, KillFind, KillProbe, KillTerm,
       KillPoll, KillLast, KillForce, KillVerify, KillMark, ToolKill, CliKill, launchLayer
  <2> QED BY <2>1 DEF WaiterInv, waiterVars
<1> QED BY <1>1, <1>2, <1>3, <1>4 DEF Next

(* Whoever is woken by a job's exit reads a state that is no longer        *)
(* Running: an inline `run`, or a kill within its grace (mod.rs, the       *)
(* waiter's two writes).                                                   *)
THEOREM WokenAfterState == Spec => []DoneAfterState
<1>1. WaiterInv => DoneAfterState
  BY DEF WaiterInv, DoneAfterState
<1> QED BY <1>1, TypeInit, TypeStep, WaiterInit, WaiterInvStep, PTL DEF Spec

=============================================================================
