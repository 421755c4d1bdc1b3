-------------------------- MODULE JobEngineSafety_proofs --------------------------
(***************************************************************************)
(* The job engine's safety properties, proved for any number of launches,  *)
(* ids, killers, incarnations and ticks, and for any number of failing     *)
(* statements.  What the code only logs when it fails is named here, and   *)
(* each theorem assumes of it what it cannot do without:                   *)
(*   - a launch whose INSERT failed has no row, so nothing tells the sweep *)
(*     or another launch that its id is taken,                             *)
(*   - a row whose DELETE failed outlives its log, so its id comes round,  *)
(*   - a waiter whose UPDATE failed leaves its job's row `running`, and so *)
(*     does the reconcile when one of its statements fails.                *)
(***************************************************************************)
EXTENDS JobEngine_proofs

InsertsStand == \A l \in Launch : Persist(l) => UNCHANGED faults
DeletesStand == ReapDelete => UNCHANGED faults
WritesStand == InsertsStand /\ DeletesStand

(* The waiter's UPDATE, and the reconcile's query and UPDATEs. *)
UpdatesStand == \A l \in Launch : WaiterFinish(l) => UNCHANGED faults
ReconcileStands == ReconcileQuery \/ ReconcileMark => UNCHANGED faults

-----------------------------------------------------------------------------
(* The inductive invariant, where no DELETE of the reaper fails            *)

Before == {"reserved", "spawned", "tracked"}

(* A call of `run` between its reservation and its INSERT, and after it. *)
Pending(l) == pc[l] \in Before
Launched(l) == pc[l] \notin Before \cup {"idle"}

(* A pending launch is the server's own: its log is the one it created in  *)
(* this tick, and its id has no row.  A waiter belongs to this incarnation,*)
(* and so does a row it may still find under its id.                       *)
LaunchOK(l) ==
  /\ born[l] <= gen
  /\ pc[l] # "idle" => jid[l] \in Id
  /\ Pending(l) =>
       /\ up /\ born[l] = gen
       /\ log[jid[l]].owner = l /\ log[jid[l]].mtime = clock
       /\ ~RowExists(jid[l])
  /\ pc[l] = "tracked" => jobs[jid[l]] = l
  /\ wpc[l] # "none" =>
       /\ up /\ born[l] = gen /\ Launched(l)
       /\ RowExists(jid[l]) => born[row[jid[l]].owner] = gen

(* A row belongs to the launch that has the log of the same id; if that is *)
(* one of this incarnation it is in the map, if not it is from before the  *)
(* boot.                                                                   *)
RowOK(i) ==
  LET l == row[i].owner IN
  /\ l \in Launch /\ jid[l] = i /\ Launched(l)
  /\ log[i].owner = l
  /\ row[i].started <= log[i].mtime /\ row[i].started <= clock
  /\ row[i].status = "restarted" => born[l] < gen
  /\ up /\ born[l] = gen => jobs[i] # None
  /\ up /\ born[l] < gen => row[i].started <= boot

(* The pass has deleted the row of i and has yet to remove its log. *)
Evicting(i) == reap.pc \in {"drop", "unlink"} /\ i \in reap.evict

MapOK(i) ==
  /\ up /\ jid[jobs[i]] = i /\ born[jobs[i]] = gen /\ pc[jobs[i]] # "idle"
  /\ RowExists(i) => born[row[i].owner] = gen

LaunchInv == \A l \in Launch : LaunchOK(l)
RowInv == \A i \in Id : RowExists(i) => RowOK(i)
MapInv == \A i \in Id : jobs[i] # None => MapOK(i)
FreedInv == \A i \in freed : log[i] = NoFile

(* The id of l is still l's, or nobody's until the next tick. *)
Holds(l) == Launched(l) /\ jid[l] \in Id /\ (log[jid[l]].owner = l \/ jid[l] \in freed)

(* The reconcile's candidates were launched by earlier incarnations. *)
RecInv ==
  /\ ~up => rec.pc = "off"
  /\ rec.pc = "locked" => locked /\ rec.live = LiveIds
  /\ \A l \in rec.todo \cup rec.dead : rec.pc = "probe" /\ born[l] < gen /\ Holds(l)

(* What a pass is about to evict has a row, then a log that keeps its id;  *)
(* rows that came after the scan are of this tick.                         *)
ReapInv ==
  /\ ~up => reap.pc = "off"
  /\ reap.pc \in {"scan", "kill"} => \A i \in reap.todo \cup reap.evict : RowExists(i)
  /\ reap.pc = "kill" => RowExists(reap.cur)
  /\ \A i \in Id : Evicting(i) =>
       ~RowExists(i) /\ log[i].owner # None /\ \A l \in Launch : Pending(l) => jid[l] # i
  /\ reap.pc = "unlink" => reap.cur \in reap.evict /\ jobs[reap.cur] = None
  /\ reap.pc = "sweep" => \A i \in Id : RowExists(i) => i \in reap.known \/ row[i].started = clock

Persisted == {"probe", "sigterm", "poll", "last", "sigkill", "verify", "mark"}

(* A kill through a row goes to the launch that holds the id. *)
KillInv ==
  \A k \in Killer : kill[k].pc \in Persisted =>
    kill[k].job \in Launch /\ Holds(kill[k].job) /\ jid[kill[k].job] = kill[k].id

Inv ==
  /\ TypeInv
  /\ LaunchInv /\ RowInv /\ MapInv /\ FreedInv /\ RecInv /\ ReapInv /\ KillInv

LEMMA InitInv == Init => Inv
<1> SUFFICES ASSUME Init PROVE Inv
  OBVIOUS
<1>1. TypeInv
  BY TypeInit
<1>2. LaunchInv
  <2> SUFFICES ASSUME NEW l \in Launch PROVE LaunchOK(l)
    BY DEF LaunchInv
  <2>1. pc[l] = "idle" /\ wpc[l] = "none" /\ born[l] = 0 /\ gen = 1
    BY DEF Init, LaunchInit
  <2> QED BY <2>1 DEF LaunchOK, Pending, Before
<1>3. RowInv /\ MapInv /\ FreedInv
  BY DEF Init, LaunchInit, RowInv, MapInv, FreedInv, RowExists, NoRow
<1>4. RecInv /\ ReapInv /\ KillInv
  BY DEF Init, LaunchInit, RecInv, ReapInv, KillInv, NoReconcile, NoPass, NoKill, Persisted, Evicting
<1> QED BY <1>1, <1>2, <1>3, <1>4 DEF Inv

-----------------------------------------------------------------------------
(* What the invariant says of the types, and of the statements.            *)

LEMMA Typed ==
  ASSUME TypeInv
  PROVE  /\ up \in BOOLEAN /\ gen \in Nat /\ boot \in Nat /\ clock \in Nat
         /\ jobs \in [Id -> Launch \cup {None}] /\ locked \in BOOLEAN
         /\ row \in [Id -> Rows] /\ log \in [Id -> Files] /\ freed \in SUBSET Id
         /\ pc \in [Launch -> RunPcs] /\ jid \in [Launch -> Id \cup {None}]
         /\ born \in [Launch -> Nat] /\ wpc \in [Launch -> WaiterPcs]
         /\ None \notin Launch /\ None \notin Id
         /\ \A i \in Id : /\ row[i].started \in Nat /\ row[i].owner \in Launch \cup {None}
                          /\ row[i].status \in RowStates
                          /\ log[i].mtime \in Nat /\ log[i].owner \in Launch \cup {None}
         /\ rec.todo \subseteq Launch /\ rec.dead \subseteq Launch
         /\ reap.todo \subseteq Id /\ reap.evict \subseteq Id /\ reap.cur \in Id \cup {None}
         /\ reap.pc \in {"kill", "unlink"} => reap.cur \in Id
BY GroupConstants, LaunchBounds
   DEF TypeInv, TypeOK, LaunchTypeOK, Rows, Files, Reconcile, Pass, PassNamed

LEMMA NoFault == TypeInv /\ UNCHANGED faults => \A kind : ~Fault(kind)
<1> SUFFICES ASSUME TypeInv, UNCHANGED faults, NEW kind, Fault(kind) PROVE FALSE
  OBVIOUS
<1>1. faults \in Seq(Statements)
  BY DEF TypeInv, TypeOK, LaunchTypeOK
<1>2. Len(faults) # Len(Append(faults, kind))
  BY <1>1
<1> QED BY <1>2 DEF Fault

LEMMA Inserts ==
  ASSUME NEW i \in Id, NEW l \in Launch, ~RowExists(i), InsertRunning(i, l)
  PROVE  \/ UNCHANGED row
         \/ row' = [row EXCEPT ![i] = [status |-> "running", owner |-> l, started |-> clock]]
BY DEF InsertRunning

LEMMA Finishes ==
  ASSUME NEW i \in Id, Finish(i)
  PROVE  \/ UNCHANGED row
         \/ row' = IF RowExists(i) THEN [row EXCEPT ![i].status = "exited"] ELSE row
BY DEF Finish

LEMMA Deletes ==
  ASSUME TypeInv, NEW ids, DeleteRows(ids), UNCHANGED faults
  PROVE  row' = [i \in Id |-> IF i \in ids THEN NoRow ELSE row[i]]
BY NoFault DEF DeleteRows, ForEach

-----------------------------------------------------------------------------
(* What a step that leaves a variable alone leaves true.                   *)

core == <<up, gen, boot, clock, jobs, row, log, freed, pc, jid, born, wpc>>

LEMMA CoreFrame ==
  ASSUME LaunchInv, RowInv, FreedInv, UNCHANGED core
  PROVE  LaunchInv' /\ RowInv' /\ FreedInv'
<1> USE DEF core, RowExists, Launched, Before
<1>1. LaunchInv'
  BY DEF LaunchInv, LaunchOK, Pending
<1>2. RowInv'
  BY DEF RowInv, RowOK
<1>3. FreedInv'
  BY DEF FreedInv
<1> QED BY <1>1, <1>2, <1>3

LEMMA RecFrame ==
  ASSUME RecInv, UNCHANGED core, UNCHANGED rec, UNCHANGED locked
  PROVE  RecInv'
BY DEF core, RecInv, LiveIds, Holds, Launched, Before

LEMMA ReapFrame ==
  ASSUME ReapInv, MapInv, UNCHANGED core, UNCHANGED reap
  PROVE  ReapInv' /\ MapInv'
<1> USE DEF core, Evicting, RowExists
<1>1. ReapInv'
  BY DEF ReapInv, Pending, Before
<1>2. MapInv'
  BY DEF MapInv, MapOK
<1> QED BY <1>1, <1>2

LEMMA KillFrame ==
  ASSUME KillInv, UNCHANGED core, UNCHANGED kill
  PROVE  KillInv'
BY DEF core, KillInv, Holds, Launched, Before

(* A step of Next is enough. *)
LEMMA Assemble ==
  ASSUME Inv, Next, LaunchInv', RowInv', MapInv', FreedInv', RecInv', ReapInv', KillInv'
  PROVE  Inv'
BY TypeStep DEF Inv

-----------------------------------------------------------------------------
(* Launches                                                                *)

LEMMA ReserveInv ==
  ASSUME Inv, NEW l \in Launch, Reserve(l), UNCHANGED <<rec, kill, reap>>
  PROVE  /\ LaunchInv' /\ RowInv' /\ MapInv' /\ FreedInv'
         /\ RecInv' /\ ReapInv' /\ KillInv'
<1>t. /\ TypeInv /\ LaunchInv /\ RowInv /\ MapInv /\ FreedInv /\ RecInv /\ ReapInv /\ KillInv
      /\ UNCHANGED <<up, gen, boot, clock, jobs, row, freed, wpc, locked>>
  BY DEF Inv, Reserve, serverVars, waiterVars
<1>1. PICK i \in Id :
        /\ log[i] = NoFile /\ i \notin freed
        /\ jid' = [jid EXCEPT ![l] = i]
        /\ log' = [log EXCEPT ![i] = [owner |-> l, mtime |-> clock]]
  BY DEF Reserve, Mintable
<1>2. /\ up /\ pc[l] = "idle" /\ pc' = [pc EXCEPT ![l] = "reserved"]
      /\ born' = [born EXCEPT ![l] = gen]
  BY DEF Reserve, Step
<1>3. log[i].owner = None
  BY <1>1 DEF NoFile
<1> USE <1>t, <1>1, <1>2, <1>3, Typed DEF RowExists, Launched, Pending, Before
<1>4. ~RowExists(i)
  BY DEF RowInv, RowOK
<1>5. \A m \in Launch : Launched(m) \/ Pending(m) => m # l
  OBVIOUS
<1>6. \A j \in Id : RowExists(j) => row[j].owner \in Launch \ {l} /\ j # i
  BY <1>4 DEF RowInv, RowOK
<1>7. LaunchInv'
  BY <1>4, <1>6 DEF LaunchInv, LaunchOK
<1>8. RowInv'
  BY <1>6 DEF RowInv, RowOK
<1>9. MapInv'
  BY DEF MapInv, MapOK, Evicting
<1>10. FreedInv'
  BY DEF FreedInv
<1>11. RecInv'
  BY <1>6 DEF RecInv, Holds, LiveIds, Reconcile, TypeInv, TypeOK
<1>12. ReapInv'
  BY DEF ReapInv, Evicting
<1>13. KillInv'
  BY DEF KillInv, Holds
<1> QED BY <1>7, <1>8, <1>9, <1>10, <1>11, <1>12, <1>13

(* A step that moves only `run` itself. *)
LEMMA RunMovesInv ==
  ASSUME Inv, NEW l \in Launch, Spawn(l) \/ SpawnFails(l) \/ Return(l),
         UNCHANGED <<rec, kill, reap>>
  PROVE  /\ LaunchInv' /\ RowInv' /\ MapInv' /\ FreedInv'
         /\ RecInv' /\ ReapInv' /\ KillInv'
<1>t. /\ TypeInv /\ LaunchInv /\ RowInv /\ MapInv /\ FreedInv /\ RecInv /\ ReapInv /\ KillInv
      /\ UNCHANGED <<up, gen, boot, clock, jobs, row, log, freed, jid, born, wpc, locked>>
  BY DEF Inv, Spawn, SpawnFails, Return, serverVars, waiterVars, storeVars
<1>1. PICK from, to \in RunPcs :
        /\ pc[l] = from /\ pc' = [pc EXCEPT ![l] = to]
        /\ \/ from = "reserved" /\ to \in {"spawned", "failed"}
           \/ from = "waiting" /\ to \in {"inline", "backgrounded"}
  BY DEF Spawn, SpawnFails, Return, Step, RunPcs
<1> USE <1>t, <1>1, Typed DEF RowExists, Launched, Pending, Before
<1>2. LaunchInv'
  BY DEF LaunchInv, LaunchOK
<1>3. RowInv'
  BY DEF RowInv, RowOK
<1>4. MapInv'
  BY DEF MapInv, MapOK, Evicting
<1>5. FreedInv'
  BY DEF FreedInv
<1>6. RecInv'
  BY DEF RecInv, Holds, LiveIds, Reconcile, TypeInv, TypeOK
<1>7. ReapInv'
  BY DEF ReapInv, Evicting
<1>8. KillInv'
  BY DEF KillInv, Holds
<1> QED BY <1>2, <1>3, <1>4, <1>5, <1>6, <1>7, <1>8

LEMMA TrackInv ==
  ASSUME Inv, NEW l \in Launch, Track(l), UNCHANGED <<rec, kill, reap>>
  PROVE  /\ LaunchInv' /\ RowInv' /\ MapInv' /\ FreedInv'
         /\ RecInv' /\ ReapInv' /\ KillInv'
<1>t. /\ TypeInv /\ LaunchInv /\ RowInv /\ MapInv /\ FreedInv /\ RecInv /\ ReapInv /\ KillInv
      /\ UNCHANGED <<up, gen, boot, clock, row, log, freed, jid, born, wpc, locked>>
      /\ up /\ ~locked /\ pc[l] = "spawned" /\ pc' = [pc EXCEPT ![l] = "tracked"]
      /\ jobs' = [jobs EXCEPT ![jid[l]] = l]
  BY DEF Inv, Track, Step, serverVars, waiterVars
<1> USE <1>t, Typed DEF RowExists, Launched, Pending, Before
<1>1. LaunchOK(l) /\ jid[l] \in Id
  BY DEF LaunchInv, LaunchOK
<1>2. \A m \in Launch : Pending(m) /\ jid[m] = jid[l] => m = l
  BY DEF LaunchInv, LaunchOK
<1>3. LaunchInv'
  BY <1>1, <1>2 DEF LaunchInv, LaunchOK
<1>4. RowInv'
  BY <1>1 DEF RowInv, RowOK
<1>5. MapInv'
  BY <1>1 DEF MapInv, MapOK, LaunchOK, Evicting
<1>6. FreedInv'
  BY DEF FreedInv
<1>7. RecInv'
  BY DEF RecInv, Holds
<1>8. ReapInv'
  BY <1>1 DEF ReapInv, Evicting
<1>9. KillInv'
  BY DEF KillInv, Holds
<1> QED BY <1>3, <1>4, <1>5, <1>6, <1>7, <1>8, <1>9

LEMMA PersistInv ==
  ASSUME Inv, NEW l \in Launch, Persist(l), UNCHANGED <<rec, kill, reap>>
  PROVE  /\ LaunchInv' /\ RowInv' /\ MapInv' /\ FreedInv'
         /\ RecInv' /\ ReapInv' /\ KillInv'
<1>t. /\ TypeInv /\ LaunchInv /\ RowInv /\ MapInv /\ FreedInv /\ RecInv /\ ReapInv /\ KillInv
      /\ UNCHANGED <<up, gen, boot, clock, jobs, log, freed, jid, born, locked>>
      /\ up /\ wpc' = [wpc EXCEPT ![l] = "waiting"]
  BY DEF Inv, Persist, serverVars
<1>1. PICK to \in {"waiting", "backgrounded"} :
        pc[l] = "tracked" /\ pc' = [pc EXCEPT ![l] = to]
  BY DEF Persist, Step
<1> USE <1>t, <1>1, Typed DEF RowExists, Launched, Pending, Before
<1>2. LaunchOK(l) /\ jid[l] \in Id /\ ~RowExists(jid[l])
  BY DEF LaunchInv, LaunchOK
<1>3. \/ UNCHANGED row
      \/ row' = [row EXCEPT ![jid[l]] = [status |-> "running", owner |-> l, started |-> clock]]
  BY <1>2, Inserts DEF Persist
<1>4. \A m \in Launch : Pending(m) /\ jid[m] = jid[l] => m = l
  BY <1>2 DEF LaunchInv, LaunchOK
<1>5. LaunchInv'
  BY <1>2, <1>3, <1>4 DEF LaunchInv, LaunchOK
<1>6. RowInv'
  BY <1>2, <1>3 DEF RowInv, RowOK, LaunchOK
<1>7. MapInv'
  <2> SUFFICES ASSUME NEW i \in Id, jobs[i] # None PROVE MapOK(i)'
    BY DEF MapInv
  <2>1. MapOK(i) /\ jobs[i] \in Launch
    BY DEF MapInv
  <2>2. row'[i] = row[i] \/ (row'[i].owner = l /\ born[l] = gen)
    BY <1>2, <1>3 DEF LaunchOK
  <2> QED BY <2>1, <2>2 DEF MapOK
<1>8. FreedInv'
  BY DEF FreedInv
<1>9. RecInv'
  BY <1>2, <1>3 DEF RecInv, Holds, LiveIds, LaunchOK
<1>10. ReapInv'
  <2>1. \A i \in Id : Evicting(i) => i # jid[l]
    BY DEF ReapInv
  <2>2. \A i \in Id : /\ RowExists(i) => RowExists(i)' /\ row'[i] = row[i]
                      /\ RowExists(i)' => RowExists(i) \/ (i = jid[l] /\ row'[i].started = clock)
    BY <1>2, <1>3
  <2> QED BY <2>1, <2>2 DEF ReapInv, Evicting
<1>11. KillInv'
  BY DEF KillInv, Holds
<1> QED BY <1>5, <1>6, <1>7, <1>8, <1>9, <1>10, <1>11

-----------------------------------------------------------------------------
(* The waiter, and the group's processes                                   *)

(* Up to its UPDATE a waiter moves only itself. *)
WaiterMoves(l) == WaiterReap(l) \/ WaiterRecord(l) \/ WaiterSignal(l)

LEMMA WaiterMovesInv ==
  ASSUME Inv, NEW l \in Launch, WaiterMoves(l), UNCHANGED <<rec, kill, reap>>
  PROVE  /\ LaunchInv' /\ RowInv' /\ MapInv' /\ FreedInv'
         /\ RecInv' /\ ReapInv' /\ KillInv'
<1>t. /\ TypeInv /\ LaunchInv /\ RowInv /\ MapInv /\ FreedInv /\ RecInv /\ ReapInv /\ KillInv
      /\ UNCHANGED <<up, gen, boot, clock, jobs, row, log, freed, pc, jid, born, locked>>
  BY DEF Inv, WaiterMoves, WaiterReap, WaiterRecord, WaiterSignal, serverVars, launchVars,
     storeVars
<1>1. PICK to \in {"reaped", "recorded", "signalled"} :
        wpc[l] # "none" /\ wpc' = [wpc EXCEPT ![l] = to]
  BY DEF WaiterMoves, WaiterReap, WaiterRecord, WaiterSignal, WaiterStep
<1> USE <1>t, <1>1, Typed DEF RowExists, Launched, Pending, Before
<1>2. LaunchInv'
  BY DEF LaunchInv, LaunchOK
<1>3. RowInv'
  BY DEF RowInv, RowOK
<1>4. MapInv'
  BY DEF MapInv, MapOK, Evicting
<1>5. FreedInv'
  BY DEF FreedInv
<1>6. RecInv'
  BY DEF RecInv, Holds, LiveIds
<1>7. ReapInv'
  BY DEF ReapInv, Evicting
<1>8. KillInv'
  BY DEF KillInv, Holds
<1> QED BY <1>2, <1>3, <1>4, <1>5, <1>6, <1>7, <1>8

(* The waiter's UPDATE turns a row of this incarnation, if any, to exited. *)
LEMMA WaiterFinishInv ==
  ASSUME Inv, NEW l \in Launch, WaiterFinish(l), UNCHANGED <<rec, kill, reap>>
  PROVE  /\ LaunchInv' /\ RowInv' /\ MapInv' /\ FreedInv'
         /\ RecInv' /\ ReapInv' /\ KillInv'
<1>t. /\ TypeInv /\ LaunchInv /\ RowInv /\ MapInv /\ FreedInv /\ RecInv /\ ReapInv /\ KillInv
      /\ UNCHANGED <<up, gen, boot, clock, jobs, log, freed, pc, jid, born, locked>>
      /\ wpc[l] = "signalled" /\ wpc' = [wpc EXCEPT ![l] = "finished"]
      /\ Finish(jid[l])
  BY DEF Inv, WaiterFinish, WaiterStep, serverVars, launchVars
<1> USE <1>t, Typed DEF RowExists, Launched, Pending, Before
<1>1. LaunchOK(l) /\ jid[l] \in Id
  BY DEF LaunchInv, LaunchOK
<1>2. \/ UNCHANGED row
      \/ row' = IF RowExists(jid[l]) THEN [row EXCEPT ![jid[l]].status = "exited"] ELSE row
  BY <1>1, Finishes
<1>3. \A i \in Id : /\ row'[i].owner = row[i].owner /\ row'[i].started = row[i].started
                    /\ RowExists(i)' <=> RowExists(i)
                    /\ row'[i].status \in {row[i].status, "exited"}
  <2> SUFFICES ASSUME NEW i \in Id
               PROVE  /\ row'[i].owner = row[i].owner /\ row'[i].started = row[i].started
                      /\ RowExists(i)' <=> RowExists(i)
                      /\ row'[i].status \in {row[i].status, "exited"}
    OBVIOUS
  <2>1. row'[i] = row[i] \/ (RowExists(i) /\ row'[i] = [row[i] EXCEPT !.status = "exited"])
    BY <1>1, <1>2
  <2>2. row[i] \in Rows
    OBVIOUS
  <2> QED BY <2>1, <2>2 DEF Rows
<1>4. LaunchInv'
  BY <1>3 DEF LaunchInv, LaunchOK
<1>5. RowInv'
  BY <1>3 DEF RowInv, RowOK
<1>6. MapInv'
  BY <1>3 DEF MapInv, MapOK, Evicting
<1>7. FreedInv'
  BY DEF FreedInv
<1>8. RecInv'
  BY <1>3 DEF RecInv, Holds, LiveIds
<1>9. ReapInv'
  BY <1>3 DEF ReapInv, Evicting
<1>10. KillInv'
  BY DEF KillInv, Holds
<1> QED BY <1>4, <1>5, <1>6, <1>7, <1>8, <1>9, <1>10

LEMMA WriteInv ==
  ASSUME Inv, NEW l \in Launch, Write(l), UNCHANGED <<rec, kill, reap>>
  PROVE  /\ LaunchInv' /\ RowInv' /\ MapInv' /\ FreedInv'
         /\ RecInv' /\ ReapInv' /\ KillInv'
<1>t. /\ TypeInv /\ LaunchInv /\ RowInv /\ MapInv /\ FreedInv /\ RecInv /\ ReapInv /\ KillInv
      /\ UNCHANGED <<up, gen, boot, clock, jobs, row, freed, pc, jid, born, wpc, locked>>
      /\ log[jid[l]].owner = l /\ log' = [log EXCEPT ![jid[l]].mtime = clock]
  BY DEF Inv, Write, serverVars, launchVars, waiterVars
<1> USE <1>t, Typed DEF RowExists, Launched, Pending, Before
<1>1. \A i \in Id : /\ log'[i].owner = log[i].owner
                    /\ log'[i].mtime = log[i].mtime \/ log'[i].mtime = clock
                    /\ log[i].owner = None => log'[i] = log[i]
  OBVIOUS
<1>2. LaunchInv'
  BY <1>1 DEF LaunchInv, LaunchOK
<1>3. RowInv'
  BY <1>1 DEF RowInv, RowOK
<1>4. MapInv'
  BY <1>1 DEF MapInv, MapOK, Evicting
<1>5. FreedInv'
  BY <1>1 DEF FreedInv, NoFile
<1>6. RecInv'
  BY <1>1 DEF RecInv, Holds, LiveIds, Reconcile, TypeInv, TypeOK, LaunchInv, LaunchOK
<1>7. ReapInv'
  BY <1>1 DEF ReapInv, Evicting
<1>8. KillInv'
  BY <1>1 DEF KillInv, Holds
<1> QED BY <1>2, <1>3, <1>4, <1>5, <1>6, <1>7, <1>8

LEMMA LaunchNextInv ==
  ASSUME Inv, NEW l \in Launch, LaunchNext(l)
  PROVE  /\ LaunchInv' /\ RowInv' /\ MapInv' /\ FreedInv'
         /\ RecInv' /\ ReapInv' /\ KillInv'
<1>t. LaunchInv /\ RowInv /\ MapInv /\ FreedInv /\ RecInv /\ ReapInv /\ KillInv
  BY DEF Inv
<1>1. CASE GroupRuns(l)
  <2>1. UNCHANGED core /\ UNCHANGED locked /\ UNCHANGED <<rec, kill, reap>>
    BY <1>1 DEF LaunchNext, GroupRuns, core, serverVars, launchVars, waiterVars, storeVars
  <2> QED BY <1>t, <2>1, CoreFrame, RecFrame, ReapFrame, KillFrame
<1>2. CASE Reserve(l) \/ Track(l) \/ Persist(l) \/ WaiterFinish(l) \/ Write(l)
  BY <1>2, ReserveInv, TrackInv, PersistInv, WaiterFinishInv, WriteInv
     DEF LaunchNext
<1>3. CASE Spawn(l) \/ SpawnFails(l) \/ Return(l) \/ WaiterMoves(l)
  BY <1>3, RunMovesInv, WaiterMovesInv DEF LaunchNext
<1> QED BY <1>1, <1>2, <1>3 DEF LaunchNext, RunSteps, WaiterSteps, WaiterMoves

-----------------------------------------------------------------------------
(* Settling: what FAIL_IF_RUNNING leaves true of rows, and the reconcile   *)

(* Rows that were running may read `why` now (all of them, unless a        *)
(* statement failed), and nothing else changed.                            *)
Settles(ids, why) ==
  \A i \in Id : /\ row'[i].owner = row[i].owner /\ row'[i].started = row[i].started
                /\ row'[i].status \in {row[i].status, why}
                /\ i \notin ids \/ row[i].status # "running" => row'[i].status = row[i].status

LEMMA FailSettles ==
  ASSUME TypeInv, NEW ids, NEW why, FailIfRunning(ids, why)
  PROVE  Settles(ids, why)
<1> SUFFICES ASSUME NEW i \in Id
             PROVE  /\ row'[i].owner = row[i].owner /\ row'[i].started = row[i].started
                    /\ row'[i].status \in {row[i].status, why}
                    /\ i \notin ids \/ row[i].status # "running" => row'[i].status = row[i].status
  BY DEF Settles
<1>0. PICK did \in SUBSET ids :
        row' = [j \in Id |-> IF j \in did /\ row[j].status = "running"
                             THEN [row[j] EXCEPT !.status = why] ELSE row[j]]
  BY DEF FailIfRunning
<1>1. row'[i] = IF i \in did /\ row[i].status = "running"
                THEN [row[i] EXCEPT !.status = why] ELSE row[i]
  BY <1>0
<1>2. row[i] \in Rows
  BY Typed
<1> QED BY <1>1, <1>2 DEF Rows

LEMMA SettleInv ==
  ASSUME Inv, NEW ids, NEW why \in {"killed", "restarted"}, Settles(ids, why),
         UNCHANGED <<up, gen, boot, clock, jobs, log, freed, pc, jid, born, wpc, reap>>,
         why = "restarted" =>
           \A i \in Id : i \in ids /\ row[i].status = "running" => born[row[i].owner] < gen
  PROVE  LaunchInv' /\ RowInv' /\ MapInv' /\ FreedInv' /\ ReapInv'
<1>t. /\ TypeInv /\ LaunchInv /\ RowInv /\ MapInv /\ FreedInv /\ ReapInv
  BY DEF Inv
<1>1. \A i \in Id : /\ row'[i].owner = row[i].owner /\ row'[i].started = row[i].started
                    /\ row'[i].status = row[i].status \/ row[i].status = "running"
                    /\ row'[i].status \in {row[i].status, why}
                    /\ row'[i].status # "absent" <=> row[i].status # "absent"
  BY DEF Settles
<1> USE <1>t, Typed DEF RowExists, Launched, Pending, Before
<1>2. LaunchInv'
  BY <1>1 DEF LaunchInv, LaunchOK
<1>3. RowInv'
  <2> SUFFICES ASSUME NEW i \in Id, RowExists(i)' PROVE RowOK(i)'
    BY DEF RowInv
  <2>1. RowOK(i)
    BY <1>1 DEF RowInv
  <2>2. row'[i].status = "restarted" => born[row[i].owner] < gen
    BY <2>1 DEF Settles, RowOK
  <2> QED BY <1>1, <2>1, <2>2 DEF RowOK
<1>4. MapInv'
  BY <1>1 DEF MapInv, MapOK, Evicting
<1>5. FreedInv'
  BY DEF FreedInv
<1>6. ReapInv'
  BY <1>1 DEF ReapInv, Evicting
<1> QED BY <1>2, <1>3, <1>4, <1>5, <1>6

(* A launch that still holds its id owns the row under it, if there is one.*)
LEMMA HolderOwnsRow ==
  ASSUME Inv, NEW l \in Launch, Holds(l), RowExists(jid[l])
  PROVE  row[jid[l]].owner = l
BY Typed DEF Inv, Holds, RowInv, RowOK, FreedInv, NoFile

LEMMA ReconcileInv ==
  ASSUME Inv, ReconcileNext
  PROVE  /\ LaunchInv' /\ RowInv' /\ MapInv' /\ FreedInv'
         /\ RecInv' /\ ReapInv' /\ KillInv'
<1>t. /\ TypeInv /\ LaunchInv /\ RowInv /\ MapInv /\ FreedInv /\ RecInv /\ ReapInv /\ KillInv
  BY DEF Inv
<1> USE <1>t, Typed
<1>r. rec \in Reconcile
  BY DEF TypeInv, TypeOK
<1>1. CASE ReconcileLock
  <2>1. /\ UNCHANGED core /\ UNCHANGED <<kill, reap>>
        /\ rec.pc = "start" /\ locked' = TRUE
        /\ rec' = [rec EXCEPT !.pc = "locked", !.live = LiveIds]
    BY <1>1 DEF ReconcileLock, core, serverVars, launchVars, waiterVars
  <2>2. RecInv'
    BY <1>r, <1>1, <2>1 DEF ReconcileLock, RecInv, LiveIds, Reconcile, core
  <2> QED BY <2>1, <2>2, CoreFrame, ReapFrame, KillFrame
<1>2. CASE ReconcileQuery
  <2>1. /\ UNCHANGED core /\ UNCHANGED <<kill, reap>>
        /\ up /\ rec.pc = "locked"
        /\ \/ rec' = [rec EXCEPT !.pc = "probe", !.todo = StaleRunning]
           \/ rec' = NoReconcile("done")
    BY <1>2 DEF ReconcileQuery, core, serverVars, launchVars, waiterVars
  <2>2. rec.todo = {} /\ rec.dead = {} /\ rec.live = LiveIds
    BY <2>1 DEF RecInv
  <2>3. \A l \in StaleRunning : born[l] < gen /\ Holds(l)
    <3> SUFFICES ASSUME NEW i \in Id \ rec.live, row[i].status = "running"
                 PROVE  born[row[i].owner] < gen /\ Holds(row[i].owner)
      BY DEF StaleRunning
    <3>1. RowOK(i)
      BY DEF RowInv, RowExists
    <3>2. jobs[i] = None /\ born[row[i].owner] <= gen
      BY <2>2, <3>1 DEF LiveIds, RowOK, LaunchInv, LaunchOK
    <3>3. born[row[i].owner] < gen
      <4>1. born[row[i].owner] # gen
        BY <2>1, <3>1, <3>2 DEF RowOK
      <4>2. born[row[i].owner] \in Nat /\ gen \in Nat
        BY <3>1 DEF RowOK
      <4>3. \A m, n \in Nat : m <= n /\ m # n => m < n
        OBVIOUS
      <4> QED BY <3>2, <4>1, <4>2, <4>3
    <3> QED BY <3>1, <3>3 DEF RowOK, Holds
  <2>4. RecInv'
    <3>1. \/ rec'.pc = "probe" /\ rec'.todo = StaleRunning /\ rec'.dead = {}
          \/ rec'.pc = "done" /\ rec'.todo = {} /\ rec'.dead = {}
      <4>1. CASE rec' = [rec EXCEPT !.pc = "probe", !.todo = StaleRunning]
        BY <1>r, <2>2, <4>1 DEF Reconcile
      <4>2. CASE rec' = NoReconcile("done")
        BY <4>2 DEF NoReconcile
      <4> QED BY <2>1, <4>1, <4>2
    <3>2. \A l \in StaleRunning : born'[l] < gen' /\ Holds(l)'
      BY <2>1, <2>3 DEF core, Holds, Launched, Before
    <3>3. up'
      BY <2>1 DEF core
    <3> QED BY <3>1, <3>2, <3>3 DEF RecInv
  <2> QED BY <2>1, <2>4, CoreFrame, ReapFrame, KillFrame
<1>3. ASSUME NEW l \in Launch, ReconcileProbe(l)
      PROVE  /\ LaunchInv' /\ RowInv' /\ MapInv' /\ FreedInv'
             /\ RecInv' /\ ReapInv' /\ KillInv'
  <2>1. /\ UNCHANGED core /\ UNCHANGED <<kill, reap>>
        /\ up /\ rec.pc = "probe" /\ l \in rec.todo
        /\ \/ rec' = [rec EXCEPT !.todo = @ \ {l}, !.alive = @ \cup {l}]
           \/ rec' = [rec EXCEPT !.todo = @ \ {l}, !.dead = @ \cup {l}]
    BY <1>3, <1>r, ZenonT(60) DEF ReconcileProbe, core, serverVars, launchVars, waiterVars, storeVars, Reconcile
  <2>2. rec'.pc = "probe" /\ rec'.todo \cup rec'.dead \subseteq rec.todo \cup rec.dead
    <3>1. /\ rec'.pc = "probe" /\ rec'.todo = rec.todo \ {l}
          /\ rec'.dead = rec.dead \/ rec'.dead = rec.dead \cup {l}
      BY <1>r, <2>1 DEF Reconcile
    <3> QED BY <2>1, <3>1
  <2>3. RecInv'
    <3>1. \A m \in rec.todo \cup rec.dead : born'[m] < gen' /\ Holds(m)'
      BY <2>1 DEF RecInv, core, Holds, Launched, Before
    <3>2. up'
      BY <2>1 DEF core
    <3> QED BY <2>1, <2>2, <3>1, <3>2 DEF RecInv
  <2> QED BY <2>1, <2>3, CoreFrame, ReapFrame, KillFrame
<1>4. CASE ReconcileMark
  <2> DEFINE ids == {jid[l] : l \in rec.dead}
  <2>1. /\ UNCHANGED <<up, gen, boot, clock, jobs, log, freed, pc, jid, born, wpc, kill, reap>>
        /\ up /\ rec.pc = "probe" /\ rec.todo = {}
        /\ rec' = [NoReconcile("done") EXCEPT !.alive = rec.alive]
        /\ (rec.dead = {} /\ UNCHANGED row) \/ FailIfRunning(ids, "restarted")
    BY <1>4 DEF ReconcileMark, serverVars, launchVars, waiterVars
  <2>2. Settles(ids, "restarted")
    <3>1. CASE rec.dead = {} /\ UNCHANGED row
      BY <3>1 DEF Settles
    <3> HIDE DEF ids
    <3>2. CASE FailIfRunning(ids, "restarted")
      BY <3>2, FailSettles
    <3> QED BY <2>1, <3>1, <3>2
  <2>3. \A i \in Id : i \in ids /\ row[i].status = "running" => born[row[i].owner] < gen
    <3> SUFFICES ASSUME NEW l \in rec.dead, jid[l] \in Id, row[jid[l]].status = "running"
                 PROVE  born[row[jid[l]].owner] < gen
      OBVIOUS
    <3>1. l \in Launch /\ Holds(l) /\ born[l] < gen
      BY DEF RecInv
    <3> QED BY <3>1, HolderOwnsRow DEF RowExists
  <2>5. RecInv'
    BY <2>1 DEF RecInv, NoReconcile
  <2>6. LaunchInv' /\ RowInv' /\ MapInv' /\ FreedInv' /\ ReapInv'
    <3> HIDE DEF ids
    <3> QED BY <2>1, <2>2, <2>3, SettleInv
  <2>7. KillInv'
    BY <2>1 DEF KillInv, Holds, Launched, Before
  <2> QED BY <2>5, <2>6, <2>7
<1> QED BY <1>1, <1>2, <1>3, <1>4 DEF ReconcileNext

-----------------------------------------------------------------------------
(* Kills                                                                   *)

KillOK(kl) == kl.pc \in Persisted => kl.job \in Launch /\ Holds(kl.job) /\ jid[kl.job] = kl.id

LEMMA KillMovesInv ==
  ASSUME Inv, NEW k \in Killer, NEW kl, KillOK(kl), kill' = [kill EXCEPT ![k] = kl],
         UNCHANGED core, UNCHANGED <<locked, rec, reap>>
  PROVE  /\ LaunchInv' /\ RowInv' /\ MapInv' /\ FreedInv'
         /\ RecInv' /\ ReapInv' /\ KillInv'
<1>t. /\ TypeInv /\ LaunchInv /\ RowInv /\ MapInv /\ FreedInv /\ RecInv /\ ReapInv /\ KillInv
  BY DEF Inv
<1>1. KillInv'
  <2> SUFFICES ASSUME NEW m \in Killer PROVE KillOK(kill[m])'
    BY DEF KillInv, KillOK
  <2>1. kill'[m] = kl \/ kill'[m] = kill[m]
    BY <1>t DEF TypeInv, TypeOK
  <2>2. KillOK(kill[m])
    BY <1>t DEF KillInv, KillOK
  <2> QED BY <2>1, <2>2 DEF KillOK, core, Holds, Launched, Before
<1> QED BY <1>t, <1>1, CoreFrame, RecFrame, ReapFrame

(* `kill_job` and the steps of `kill_persisted` between its two statements *)
(* stay with the job they began with.                                      *)
Resumes(k) ==
  \E kl \in Kills :
    /\ kl.job = kill[k].job /\ kl.id = kill[k].id
    /\ kl.pc \in Persisted => kill[k].pc \in Persisted
    /\ kill' = [kill EXCEPT ![k] = kl]

LEMMA KillResumes ==
  ASSUME Inv, NEW k \in Killer,
         \/ KillJob(k) \/ KillProbe(k) \/ KillTerm(k) \/ KillPoll(k) \/ KillLast(k)
         \/ KillForce(k) \/ KillVerify(k)
  PROVE  Resumes(k) /\ UNCHANGED core /\ UNCHANGED <<locked, rec, reap>>
<1>1. kill \in [Killer -> Kills] /\ kill[k] \in Kills
  BY DEF Inv, TypeInv, TypeOK
<1>2. UNCHANGED core /\ UNCHANGED <<locked, rec, reap>>
  BY DEF KillJob, KillJobCheck, KillJobTerm, KillJobRecheck, KillJobExited, KillJobGraceOver,
     KillJobForce, KillJobFinal, KillProbe, KillTerm, KillPoll, KillLast, KillForce, KillVerify,
     launchLayer, core, serverVars, launchVars, waiterVars, storeVars
<1>3. ASSUME NEW to \in KillPcs, Goto(k, to), to \in Persisted => kill[k].pc \in Persisted
      PROVE  Resumes(k)
  <2> DEFINE kl == [kill[k] EXCEPT !.pc = to]
  <2>1. kill' = [kill EXCEPT ![k] = kl]
    BY <1>1, <1>3 DEF Goto
  <2>2. kl \in Kills /\ kl.job = kill[k].job /\ kl.id = kill[k].id /\ kl.pc = to
    BY <1>1 DEF Kills
  <2> HIDE DEF kl
  <2> QED BY <1>3, <2>1, <2>2 DEF Resumes
<1>4. ASSUME NEW result \in BOOLEAN, Answer(k, result) PROVE Resumes(k)
  <2> DEFINE kl == [kill[k] EXCEPT !.pc = "ended", !.ok = result]
  <2>1. kill' = [kill EXCEPT ![k] = kl]
    BY <1>1, <1>4 DEF Answer
  <2>2. kl \in Kills /\ kl.job = kill[k].job /\ kl.id = kill[k].id /\ kl.pc \notin Persisted
    BY <1>1 DEF Kills, KillPcs, Persisted
  <2> HIDE DEF kl
  <2> QED BY <2>1, <2>2 DEF Resumes
<1>5. \/ \E to \in KillPcs : Goto(k, to) /\ (to \in Persisted => kill[k].pc \in Persisted)
      \/ \E result \in BOOLEAN : Answer(k, result)
  <2>1. CASE KillJob(k)
    BY <2>1 DEF KillJob, KillJobCheck, KillJobTerm, KillJobRecheck, KillJobExited,
       KillJobGraceOver, KillJobForce, KillJobFinal, KillPcs, Persisted
  <2>2. CASE \/ KillProbe(k) \/ KillTerm(k) \/ KillPoll(k) \/ KillLast(k)
             \/ KillForce(k) \/ KillVerify(k)
    BY <2>2 DEF KillProbe, KillTerm, KillPoll, KillLast, KillForce, KillVerify, At, KillPcs,
       Persisted
  <2> QED BY <2>1, <2>2
<1> QED BY <1>2, <1>3, <1>4, <1>5

LEMMA KillNextInv ==
  ASSUME Inv, NEW k \in Killer, KillNext(k)
  PROVE  /\ LaunchInv' /\ RowInv' /\ MapInv' /\ FreedInv'
         /\ RecInv' /\ ReapInv' /\ KillInv'
<1>t. /\ TypeInv /\ LaunchInv /\ RowInv /\ MapInv /\ FreedInv /\ RecInv /\ ReapInv /\ KillInv
  BY DEF Inv
<1>k. kill \in [Killer -> Kills] /\ kill[k] \in Kills
  BY <1>t DEF TypeInv, TypeOK
<1>1. CASE \/ KillJob(k) \/ KillProbe(k) \/ KillTerm(k) \/ KillPoll(k) \/ KillLast(k)
           \/ KillForce(k) \/ KillVerify(k)
  <2>1. Resumes(k) /\ UNCHANGED core /\ UNCHANGED <<locked, rec, reap>>
    BY <1>1, KillResumes
  <2>2. KillOK(kill[k])
    BY <1>t DEF KillInv, KillOK
  <2>3. PICK kl \in Kills : KillOK(kl) /\ kill' = [kill EXCEPT ![k] = kl]
    <3>1. PICK kl \in Kills :
            /\ kl.job = kill[k].job /\ kl.id = kill[k].id
            /\ kl.pc \in Persisted => kill[k].pc \in Persisted
            /\ kill' = [kill EXCEPT ![k] = kl]
      BY <2>1 DEF Resumes
    <3>2. KillOK(kl)
      BY <2>2, <3>1 DEF KillOK, Holds, Launched, Before
    <3> QED BY <3>1, <3>2
  <2> QED BY <2>1, <2>3, KillMovesInv
<1>2. ASSUME NEW i \in Id, ToolKill(k, i) \/ CliKill(k, i)
      PROVE  /\ LaunchInv' /\ RowInv' /\ MapInv' /\ FreedInv'
             /\ RecInv' /\ ReapInv' /\ KillInv'
  <2>1. UNCHANGED core /\ UNCHANGED <<locked, rec, reap>>
    BY <1>2 DEF ToolKill, CliKill, launchLayer, core, serverVars, launchVars, waiterVars,
       storeVars
  <2>2. PICK kl : kl.pc \in {"find", "check"} /\ kill' = [kill EXCEPT ![k] = kl]
    <3> DEFINE tool == [NoKill EXCEPT !.pc = IF jobs[i] = None THEN "find" ELSE "check",
                                      !.id = i, !.job = jobs[i]]
               cli == [NoKill EXCEPT !.pc = "find", !.id = i]
    <3>1. tool.pc \in {"find", "check"} /\ cli.pc \in {"find", "check"}
      BY DEF NoKill
    <3>2. kill' = [kill EXCEPT ![k] = tool] \/ kill' = [kill EXCEPT ![k] = cli]
      BY <1>2 DEF ToolKill, CliKill
    <3> HIDE DEF tool, cli
    <3> QED BY <3>1, <3>2
  <2>3. KillOK(kl)
    BY <2>2 DEF KillOK, Persisted
  <2> QED BY <2>1, <2>2, <2>3, KillMovesInv
<1>3. CASE KillFind(k)
  <2> DEFINE i == kill[k].id
             found == [kill[k] EXCEPT !.pc = "probe", !.job = row[i].owner]
             refused == [kill[k] EXCEPT !.pc = "ended", !.ok = FALSE]
  <2>1. UNCHANGED core /\ UNCHANGED <<locked, rec, reap>> /\ kill[k].pc = "find" /\ i \in Id
    BY <1>t, <1>3 DEF KillFind, At, core, serverVars, launchVars, waiterVars, TypeInv, KillsNamed
  <2>2. \/ row[i].status = "running" /\ kill' = [kill EXCEPT ![k] = found]
        \/ kill' = [kill EXCEPT ![k] = refused]
    BY <1>3, <1>k DEF KillFind, Answer
  <2>3. KillOK(refused)
    BY <1>k DEF KillOK, Persisted, Kills
  <2>4. row[i].status = "running" => KillOK(found)
    <3> SUFFICES ASSUME row[i].status = "running" PROVE KillOK(found)
      OBVIOUS
    <3>1. RowOK(i)
      BY <1>t, <2>1 DEF RowInv, RowExists
    <3>2. found.job = row[i].owner /\ found.id = i
      BY <1>k DEF Kills
    <3> HIDE DEF found
    <3>3. row[i].owner \in Launch /\ Holds(row[i].owner) /\ jid[row[i].owner] = i
      BY <3>1, <2>1 DEF RowOK, Holds
    <3> QED BY <3>2, <3>3 DEF KillOK
  <2> HIDE DEF found, refused
  <2> QED BY <2>1, <2>2, <2>3, <2>4, KillMovesInv
<1>4. CASE KillMark(k)
  <2> DEFINE ended == [kill[k] EXCEPT !.pc = "ended", !.ok = TRUE]
  <2>1. /\ UNCHANGED <<up, gen, boot, clock, jobs, log, freed, pc, jid, born, wpc>>
        /\ UNCHANGED <<locked, rec, reap>> /\ kill' = [kill EXCEPT ![k] = ended]
        /\ Settles({kill[k].id}, "killed")
    BY <1>4, <1>k, <1>t, FailSettles
       DEF KillMark, Answer, serverVars, launchVars, waiterVars
  <2>2. LaunchInv' /\ RowInv' /\ MapInv' /\ FreedInv' /\ ReapInv'
    BY <2>1, SettleInv
  <2>3. RecInv'
    <3>1. LiveIds' = LiveIds
      BY <2>1 DEF LiveIds
    <3> QED BY <1>t, <2>1, <3>1 DEF RecInv, Holds, Launched, Before
  <2>4. KillInv'
    <3> SUFFICES ASSUME NEW m \in Killer PROVE KillOK(kill[m])'
      BY DEF KillInv, KillOK
    <3>1. kill'[m] = ended \/ kill'[m] = kill[m]
      BY <1>k, <2>1
    <3>2. ended.pc = "ended"
      BY <1>k DEF Kills
    <3>3. KillOK(kill[m])
      BY <1>t DEF KillInv, KillOK
    <3> HIDE DEF ended
    <3> QED BY <2>1, <3>1, <3>2, <3>3 DEF KillOK, Persisted, Holds, Launched, Before
  <2> QED BY <2>2, <2>3, <2>4
<1> QED BY <1>1, <1>2, <1>3, <1>4 DEF KillNext, KillPersisted

-----------------------------------------------------------------------------
(* The reaper                                                              *)

ReapMoves ==
  \/ ReapStart \/ ReapKilled \/ OrphanScan \/ OrphanEnd \/ (ReapDelete /\ reap.evict = {})
  \/ \E i \in Id : ReapKill(i) \/ ReapAsIs(i)

(* Steps that move only the pass, outside an eviction. *)
LEMMA ReapMovesInv ==
  ASSUME Inv, ReapMoves
  PROVE  /\ LaunchInv' /\ RowInv' /\ MapInv' /\ FreedInv'
         /\ RecInv' /\ ReapInv' /\ KillInv'
<1>t. /\ TypeInv /\ LaunchInv /\ RowInv /\ MapInv /\ FreedInv /\ RecInv /\ ReapInv /\ KillInv
  BY DEF Inv
<1>p. reap \in Pass /\ kill \in [Killer -> Kills]
  BY <1>t DEF TypeInv, TypeOK
<1>1. UNCHANGED core /\ UNCHANGED <<locked, rec>> /\ up
  BY DEF ReapMoves, ReapStart, ReapKilled, OrphanScan, OrphanEnd, ReapDelete, ReapKill, ReapAsIs,
     reaperFrame, core, serverVars, launchVars, waiterVars, storeVars
<1>2. /\ reap.pc \in {"idle", "scan", "kill", "orphans", "sweep"}
      /\ reap'.pc \in {"idle", "scan", "kill", "orphans", "sweep"}
      /\ reap'.pc \in {"scan", "kill"} =>
           \A i \in Id : i \in reap'.todo \cup reap'.evict => RowExists(i)
      /\ reap'.pc \in {"scan", "kill"} => reap'.todo \cup reap'.evict \subseteq Id
      /\ reap'.pc = "kill" => RowExists(reap'.cur)
      /\ reap'.pc = "sweep" => \A i \in Id : RowExists(i) => i \in reap'.known
  <2> USE <1>t, <1>p DEF ReapInv, Pass, NoPass, ToOrphans
  <2>1. CASE ReapStart
    BY <2>1 DEF ReapStart, Aged
  <2>2. CASE ReapKilled
    <3>1. /\ reap.pc = "kill" /\ reap'.pc = "scan" /\ reap'.todo = reap.todo
          /\ reap'.evict \subseteq reap.evict \cup {reap.cur}
      BY <2>2 DEF ReapKilled
    <3>2. reap.cur \in Id
      BY <3>1, Typed
    <3> QED BY <3>1, <3>2
  <2>3. CASE OrphanScan
    BY <2>3 DEF OrphanScan
  <2>4. CASE OrphanEnd
    BY <2>4 DEF OrphanEnd
  <2>5. CASE ReapDelete /\ reap.evict = {}
    BY <2>5 DEF ReapDelete
  <2>6. ASSUME NEW i \in Id, ReapKill(i)
        PROVE  /\ reap.pc = "scan" /\ reap'.pc = "kill" /\ reap'.cur = i /\ RowExists(i)
               /\ reap'.todo \subseteq reap.todo /\ reap'.evict = reap.evict
    BY <2>6 DEF ReapKill
  <2>7. ASSUME NEW i \in Id, ReapAsIs(i)
        PROVE  /\ reap.pc = "scan" /\ reap'.pc = "scan"
               /\ reap'.todo \cup reap'.evict \subseteq reap.todo \cup reap.evict
    BY <2>7 DEF ReapAsIs
  <2> HIDE DEF ToOrphans
  <2> QED BY <2>1, <2>2, <2>3, <2>4, <2>5, <2>6, <2>7 DEF ReapMoves
<1>3. ReapInv'
  BY <1>1, <1>2 DEF ReapInv, Evicting, core, RowExists
<1>4. MapInv'
  BY <1>t, <1>1, <1>2 DEF MapInv, MapOK, Evicting, core, RowExists
<1>5. KillInv'
  <2>1. CASE UNCHANGED kill
    BY <1>t, <1>1, <2>1, KillFrame
  <2>2. ASSUME NEW kl \in Kills, kl.pc \in {"idle", "check"}, kill' = [kill EXCEPT ![Reaper] = kl]
        PROVE  KillInv'
    <3>1. \A m \in Killer : kill'[m].pc \in Persisted => kill'[m] = kill[m]
      BY <1>p, <2>2 DEF Persisted
    <3> QED BY <1>t, <1>1, <3>1 DEF KillInv, core, Holds, Launched, Before
  <2>3. CASE ReapKilled
    <3>1. NoKill.pc \in {"idle", "check"} /\ kill' = [kill EXCEPT ![Reaper] = NoKill]
      BY <2>3 DEF ReapKilled, NoKill
    <3>2. NoKill \in Kills
      BY DEF NoKill, Kills, KillPcs
    <3> QED BY <2>2, <3>1, <3>2
  <2>4. ASSUME NEW i \in Id, ReapKill(i) PROVE KillInv'
    <3> DEFINE kl == [NoKill EXCEPT !.pc = "check", !.id = i, !.job = jobs[i]]
    <3>1. kl.pc \in {"idle", "check"} /\ kill' = [kill EXCEPT ![Reaper] = kl]
      BY <2>4 DEF ReapKill, NoKill
    <3>2. kl \in Kills
      BY <1>t, Typed DEF NoKill, Kills, KillPcs
    <3> HIDE DEF kl
    <3> QED BY <2>2, <3>1, <3>2
  <2> QED BY <2>1, <2>3, <2>4 DEF ReapMoves, ReapStart, OrphanScan, OrphanEnd, ReapDelete,
             ReapAsIs, storeVars
<1> QED BY <1>t, <1>1, <1>3, <1>4, <1>5, CoreFrame, RecFrame

(* The rows go while the ids still have their logs, so no launch is about  *)
(* to write a row under one of them.                                       *)
LEMMA ReapDeleteInv ==
  ASSUME Inv, ReapDelete, reap.evict # {}, UNCHANGED faults
  PROVE  /\ LaunchInv' /\ RowInv' /\ MapInv' /\ FreedInv'
         /\ RecInv' /\ ReapInv' /\ KillInv'
<1>t. /\ TypeInv /\ LaunchInv /\ RowInv /\ MapInv /\ FreedInv /\ RecInv /\ ReapInv /\ KillInv
      /\ UNCHANGED <<up, gen, boot, clock, jobs, log, freed, pc, jid, born, wpc, locked, rec, kill>>
      /\ up /\ reap.pc = "scan" /\ reap.todo = {}
      /\ reap' = [reap EXCEPT !.pc = "drop"]
  BY DEF Inv, ReapDelete, reaperFrame, serverVars, launchVars, waiterVars
<1>1. reap'.pc = "drop" /\ reap'.evict = reap.evict /\ reap.evict \subseteq Id
  BY <1>t DEF TypeInv, TypeOK, Pass
<1>2. \A i \in Id : /\ i \in reap.evict => row'[i].status = "absent"
                    /\ i \notin reap.evict => row'[i] = row[i]
  <2>1. DeleteRows(reap.evict)
    BY DEF ReapDelete
  <2> QED BY <1>t, <2>1, Deletes DEF NoRow
<1> USE <1>t, <1>1, <1>2, Typed DEF RowExists, Launched, Pending, Before
<1>3. LaunchInv'
  BY DEF LaunchInv, LaunchOK
<1>4. RowInv'
  BY DEF RowInv, RowOK
<1>5. MapInv'
  BY DEF MapInv, MapOK, Evicting
<1>6. FreedInv'
  BY DEF FreedInv
<1>7. RecInv'
  BY DEF RecInv, Holds, LiveIds
<1>8. ReapInv'
  <2>1. \A i \in reap.evict : RowExists(i)
    BY DEF ReapInv
  <2>2. \A i \in reap.evict : log[i].owner # None
    BY <2>1 DEF RowInv, RowOK
  <2>3. \A i \in reap.evict : \A l \in Launch : Pending(l) => jid[l] # i
    BY <2>1 DEF LaunchInv, LaunchOK
  <2> QED BY <2>2, <2>3 DEF ReapInv, Evicting
<1>9. KillInv'
  BY DEF KillInv, Holds
<1> QED BY <1>3, <1>4, <1>5, <1>6, <1>7, <1>8, <1>9

LEMMA ReapDropInv ==
  ASSUME Inv, NEW i \in Id, ReapDrop(i)
  PROVE  /\ LaunchInv' /\ RowInv' /\ MapInv' /\ FreedInv'
         /\ RecInv' /\ ReapInv' /\ KillInv'
<1>t. /\ TypeInv /\ LaunchInv /\ RowInv /\ MapInv /\ FreedInv /\ RecInv /\ ReapInv /\ KillInv
      /\ UNCHANGED <<up, gen, boot, clock, row, log, freed, pc, jid, born, wpc, locked, rec, kill>>
      /\ up /\ ~locked /\ reap.pc = "drop" /\ i \in reap.evict
      /\ jobs' = [jobs EXCEPT ![i] = None] /\ reap' = [reap EXCEPT !.pc = "unlink", !.cur = i]
  BY DEF Inv, ReapDrop, reaperFrame, serverVars, launchVars, waiterVars
<1>1. reap'.pc = "unlink" /\ reap'.evict = reap.evict /\ reap'.cur = i
  BY <1>t DEF TypeInv, TypeOK, Pass
<1> USE <1>t, <1>1, Typed DEF RowExists, Launched, Pending, Before
<1>2. ~RowExists(i) /\ \A l \in Launch : Pending(l) => jid[l] # i
  BY DEF ReapInv, Evicting
<1>3. LaunchInv'
  BY <1>2 DEF LaunchInv, LaunchOK
<1>4. RowInv'
  BY <1>2 DEF RowInv, RowOK
<1>5. MapInv'
  BY DEF MapInv, MapOK, Evicting
<1>6. FreedInv'
  BY DEF FreedInv
<1>7. RecInv'
  BY DEF RecInv, Holds
<1>8. ReapInv'
  BY DEF ReapInv, Evicting
<1>9. KillInv'
  BY DEF KillInv, Holds
<1> QED BY <1>3, <1>4, <1>5, <1>6, <1>7, <1>8, <1>9

(* The log goes once nothing names the id any more. *)
LEMMA RemoveLogInv ==
  ASSUME Inv, NEW j \in Id, RemoveLog(j), ~RowExists(j),
         \A l \in Launch : Pending(l) => jid[l] # j,
         UNCHANGED <<up, gen, boot, clock, jobs, row, pc, jid, born, wpc, locked, rec, kill>>
  PROVE  /\ LaunchInv' /\ RowInv' /\ FreedInv' /\ RecInv' /\ KillInv'
         /\ \A i \in Id : i # j => log'[i] = log[i]
<1>t. /\ TypeInv /\ LaunchInv /\ RowInv /\ MapInv /\ FreedInv /\ RecInv /\ ReapInv /\ KillInv
  BY DEF Inv
<1> USE <1>t, Typed DEF RowExists, Launched, Pending, Before
<1>1. /\ \A i \in Id : i # j => log'[i] = log[i]
      /\ log'[j] = NoFile /\ freed' = freed \cup {j}
  BY DEF RemoveLog
<1>2. LaunchInv'
  BY <1>1 DEF LaunchInv, LaunchOK
<1>3. RowInv'
  BY <1>1 DEF RowInv, RowOK
<1>4. FreedInv'
  BY <1>1 DEF FreedInv
<1>5. \A l \in Launch : Holds(l) => Holds(l)'
  BY <1>1 DEF Holds
<1>6. RecInv'
  BY <1>5 DEF RecInv, LiveIds
<1>7. KillInv'
  BY <1>5 DEF KillInv
<1> QED BY <1>1, <1>2, <1>3, <1>4, <1>6, <1>7

LEMMA ReapUnlinkInv ==
  ASSUME Inv, ReapUnlink
  PROVE  /\ LaunchInv' /\ RowInv' /\ MapInv' /\ FreedInv'
         /\ RecInv' /\ ReapInv' /\ KillInv'
<1> DEFINE j == reap.cur
<1>t. /\ TypeInv /\ LaunchInv /\ RowInv /\ MapInv /\ FreedInv /\ RecInv /\ ReapInv /\ KillInv
      /\ UNCHANGED <<up, gen, boot, clock, jobs, row, pc, jid, born, wpc, locked, rec, kill>>
      /\ up /\ reap.pc = "unlink" /\ RemoveLog(j)
  BY DEF Inv, ReapUnlink, reaperFrame, serverVars, launchVars, waiterVars
<1>1. j \in Id /\ j \in reap.evict /\ jobs[j] = None
  BY <1>t, Typed DEF ReapInv
<1>2. ~RowExists(j) /\ \A l \in Launch : Pending(l) => jid[l] # j
  BY <1>t, <1>1 DEF ReapInv, Evicting
<1>3. /\ LaunchInv' /\ RowInv' /\ FreedInv' /\ RecInv' /\ KillInv'
      /\ \A i \in Id : i # j => log'[i] = log[i]
  BY <1>t, <1>1, <1>2, RemoveLogInv
<1>4. /\ reap'.pc \in {"orphans", "drop"}
      /\ \A i \in Id : Evicting(i)' <=> Evicting(i) /\ i # j
  <2>1. reap \in Pass
    BY <1>t DEF TypeInv, TypeOK
  <2>2. CASE reap.evict = {j}
    BY <1>t, <2>1, <2>2 DEF ReapUnlink, ToOrphans, NoPass, Evicting
  <2>3. CASE reap.evict # {j}
    <3>1. reap' = [reap EXCEPT !.pc = "drop", !.evict = @ \ {j}, !.cur = None]
      BY <2>3 DEF ReapUnlink
    <3>2. reap'.pc = "drop" /\ reap'.evict = reap.evict \ {j}
      BY <2>1, <3>1 DEF Pass
    <3> HIDE DEF j
    <3> QED BY <1>t, <3>2 DEF Evicting
  <2> QED BY <2>2, <2>3
<1> HIDE DEF j
<1>5. MapInv'
  BY <1>t, <1>1, <1>3, <1>4 DEF MapInv, MapOK, RowExists
<1>6. ReapInv'
  BY <1>t, <1>3, <1>4 DEF ReapInv, RowExists, Pending, Before
<1> QED BY <1>3, <1>5, <1>6

(* The sweep removes only logs older than retention, and a log without a   *)
(* row or a pending launch is what is left then.                           *)
LEMMA OrphanIsNobodys ==
  ASSUME Inv, NEW j \in Id, reap.pc = "sweep", Orphan(j)
  PROVE  ~RowExists(j) /\ \A l \in Launch : Pending(l) => jid[l] # j
<1>t. TypeInv /\ LaunchInv /\ RowInv /\ ReapInv
  BY DEF Inv
<1>1. log[j].mtime < clock /\ j \notin reap.known
  BY <1>t, Typed, EngineConstants DEF Orphan
<1>2. ~RowExists(j)
  BY <1>t, <1>1, Typed DEF ReapInv, RowInv, RowOK
<1>3. \A l \in Launch : Pending(l) => jid[l] # j
  BY <1>t, <1>1, Typed DEF LaunchInv, LaunchOK
<1> QED BY <1>2, <1>3

LEMMA OrphanRemoveInv ==
  ASSUME Inv, NEW j \in Id, OrphanRemove(j)
  PROVE  /\ LaunchInv' /\ RowInv' /\ MapInv' /\ FreedInv'
         /\ RecInv' /\ ReapInv' /\ KillInv'
<1>t. /\ TypeInv /\ LaunchInv /\ RowInv /\ MapInv /\ FreedInv /\ RecInv /\ ReapInv /\ KillInv
      /\ UNCHANGED <<up, gen, boot, clock, jobs, row, pc, jid, born, wpc, locked, rec, kill, reap>>
      /\ up /\ reap.pc = "sweep" /\ Orphan(j) /\ RemoveLog(j)
  BY DEF Inv, OrphanRemove, reaperFrame, serverVars, launchVars, waiterVars
<1>1. ~RowExists(j) /\ \A l \in Launch : Pending(l) => jid[l] # j
  BY <1>t, OrphanIsNobodys
<1>2. /\ LaunchInv' /\ RowInv' /\ FreedInv' /\ RecInv' /\ KillInv'
      /\ \A i \in Id : i # j => log'[i] = log[i]
  BY <1>t, <1>1, RemoveLogInv
<1>3. MapInv'
  BY <1>t, <1>1, <1>2 DEF MapInv, MapOK, RowExists, Evicting
<1>4. ReapInv'
  BY <1>t, <1>2 DEF ReapInv, RowExists, Evicting
<1> QED BY <1>2, <1>3, <1>4

LEMMA ReaperInv ==
  ASSUME Inv, ReaperPass, DeletesStand
  PROVE  /\ LaunchInv' /\ RowInv' /\ MapInv' /\ FreedInv'
         /\ RecInv' /\ ReapInv' /\ KillInv'
BY ReapMovesInv, ReapDeleteInv, ReapDropInv, ReapUnlinkInv, OrphanRemoveInv
   DEF ReaperPass, ReapMoves, DeletesStand

-----------------------------------------------------------------------------
(* The server                                                              *)

LEMMA TickInv ==
  ASSUME Inv, Tick
  PROVE  /\ LaunchInv' /\ RowInv' /\ MapInv' /\ FreedInv'
         /\ RecInv' /\ ReapInv' /\ KillInv'
<1>t. /\ TypeInv /\ LaunchInv /\ RowInv /\ MapInv /\ FreedInv /\ RecInv /\ ReapInv /\ KillInv
      /\ UNCHANGED <<up, gen, boot, jobs, locked, row, log, pc, jid, born, wpc, rec, kill, reap>>
      /\ clock' = clock + 1 /\ freed' = {}
      /\ rec.pc \in {"off", "done"} /\ reap.pc \in {"off", "idle"}
      /\ \A k \in Killer : kill[k].pc \in {"idle", "ended"}
  BY DEF Inv, Tick, launchVars, waiterVars
<1>1. \A l \in Launch : ~Pending(l)
  BY DEF Tick, LaunchQuiet, Settling, Pending, Before
<1> USE <1>t, <1>1, Typed DEF RowExists, Launched, Pending, Before
<1>2. LaunchInv'
  BY DEF LaunchInv, LaunchOK
<1>3. RowInv'
  BY DEF RowInv, RowOK
<1>4. MapInv'
  BY DEF MapInv, MapOK, Evicting
<1>5. FreedInv'
  BY DEF FreedInv
<1>6. RecInv'
  BY DEF RecInv
<1>7. ReapInv'
  BY DEF ReapInv, Evicting
<1>8. KillInv'
  BY DEF KillInv, Persisted
<1> QED BY <1>2, <1>3, <1>4, <1>5, <1>6, <1>7, <1>8

LEMMA DiesInv ==
  ASSUME Inv, EngineDies
  PROVE  /\ LaunchInv' /\ RowInv' /\ MapInv' /\ FreedInv'
         /\ RecInv' /\ ReapInv' /\ KillInv'
<1>t. /\ TypeInv /\ LaunchInv /\ RowInv /\ MapInv /\ FreedInv /\ RecInv /\ ReapInv /\ KillInv
      /\ UNCHANGED <<gen, boot, clock, row, log, freed, jid, born>>
      /\ up' = FALSE /\ jobs' = [i \in Id |-> None] /\ wpc' = [l \in Launch |-> "none"]
      /\ pc' = [l \in Launch |->
                  IF pc[l] \in {"reserved", "spawned", "tracked", "waiting"}
                  THEN "lost" ELSE pc[l]]
      /\ rec' = NoReconcile("off") /\ reap' = NoPass("off")
      /\ \A k \in Killer : kill'[k] = kill[k] \/ kill'[k].pc \in {"idle", "ended"}
  <2>1. \A k \in Killer : kill'[k] = kill[k] \/ kill'[k].pc \in {"idle", "ended"}
    <3> SUFFICES ASSUME NEW k \in Killer
                 PROVE  kill'[k] = kill[k] \/ kill'[k].pc \in {"idle", "ended"}
      OBVIOUS
    <3>1. kill'[k] \in {kill[k], NoKill, [NoKill EXCEPT !.pc = "ended"]}
      BY DEF EngineDies
    <3>2. NoKill.pc = "idle" /\ [NoKill EXCEPT !.pc = "ended"].pc = "ended"
      BY DEF NoKill
    <3> QED BY <3>1, <3>2
  <2> QED BY <2>1 DEF Inv, EngineDies, Die
<1> USE <1>t, Typed DEF RowExists, Launched, Pending, Before
<1>1. \A l \in Launch : ~Pending(l)' /\ (Launched(l) => Launched(l)') /\ (pc'[l] = "idle" => pc[l] = "idle")
  OBVIOUS
<1>2. LaunchInv'
  BY <1>1 DEF LaunchInv, LaunchOK
<1>3. RowInv'
  BY <1>1 DEF RowInv, RowOK
<1>4. MapInv'
  BY DEF MapInv
<1>5. FreedInv'
  BY DEF FreedInv
<1>6. RecInv'
  BY DEF RecInv, NoReconcile
<1>7. ReapInv'
  BY DEF ReapInv, Evicting, NoPass
<1>8. KillInv'
  BY <1>1 DEF KillInv, Persisted, Holds
<1> QED BY <1>2, <1>3, <1>4, <1>5, <1>6, <1>7, <1>8

LEMMA RestartsInv ==
  ASSUME Inv, EngineRestarts
  PROVE  /\ LaunchInv' /\ RowInv' /\ MapInv' /\ FreedInv'
         /\ RecInv' /\ ReapInv' /\ KillInv'
<1>t. /\ TypeInv /\ LaunchInv /\ RowInv /\ MapInv /\ FreedInv /\ RecInv /\ ReapInv /\ KillInv
      /\ UNCHANGED <<clock, jobs, row, log, freed, pc, jid, born, wpc, kill>>
      /\ ~up /\ up' = TRUE /\ gen' = gen + 1 /\ boot' = clock
      /\ rec' = NoReconcile("start") /\ reap' = NoPass("idle")
  BY DEF Inv, EngineRestarts, Restart, launchVars, waiterVars, storeVars
<1> USE <1>t, Typed DEF RowExists, Launched, Pending, Before
<1>1. LaunchInv'
  BY DEF LaunchInv, LaunchOK
<1>2. RowInv'
  BY DEF RowInv, RowOK, LaunchInv, LaunchOK
<1>3. MapInv'
  BY DEF MapInv, MapOK
<1>4. FreedInv'
  BY DEF FreedInv
<1>5. RecInv'
  BY DEF RecInv, NoReconcile
<1>6. ReapInv'
  BY DEF ReapInv, Evicting, NoPass
<1>7. KillInv'
  BY DEF KillInv, Holds
<1> QED BY <1>1, <1>2, <1>3, <1>4, <1>5, <1>6, <1>7

LEMMA StepInv == Inv /\ [Next]_vars /\ [DeletesStand]_vars => Inv'
<1> SUFFICES ASSUME Inv, [Next]_vars, [DeletesStand]_vars PROVE Inv'
  OBVIOUS
<1>1. CASE Next /\ DeletesStand
  BY <1>1, LaunchNextInv, ReconcileInv, KillNextInv, ReaperInv, TickInv, DiesInv, RestartsInv,
     Assemble DEF Next
<1>2. CASE UNCHANGED vars
  <2>1. UNCHANGED core /\ UNCHANGED <<locked, rec, kill, reap>>
    BY <1>2 DEF vars, launchLayer, serverVars, launchVars, waiterVars, storeVars, core
  <2>2. TypeInv'
    BY TypeStep DEF Inv
  <2> QED BY <2>1, <2>2, CoreFrame, RecFrame, ReapFrame, KillFrame DEF Inv
<1> QED BY <1>1, <1>2

-----------------------------------------------------------------------------
(* The steps that write rows, and what they write, whichever statements    *)
(* fail.                                                                   *)

Starts(i) ==
  /\ ~RowExists(i)
  /\ \E l \in Launch :
       /\ Persist(l) /\ jid[l] = i
       /\ row' = [row EXCEPT ![i] = [status |-> "running", owner |-> l, started |-> clock]]
Exits(i) ==
  /\ RowExists(i) /\ \E l \in Launch : WaiterFinish(l) /\ jid[l] = i
  /\ row' = [row EXCEPT ![i].status = "exited"]
Evicts(ids) == row' = [i \in Id |-> IF i \in ids THEN NoRow ELSE row[i]]

(* A launch keeps the id it has reserved, and so does the row of that id.  *)
NamesInv ==
  /\ \A l \in Launch : /\ pc[l] # "idle" => jid[l] \in Id
                       /\ wpc[l] # "none" => Launched(l)
  /\ \A i \in Id : RowExists(i) => jid[row[i].owner] = i /\ Launched(row[i].owner)

LEMMA InvNames == Inv => TypeInv /\ NamesInv
BY DEF Inv, NamesInv, LaunchInv, LaunchOK, RowInv, RowOK

LEMMA RowSteps ==
  ASSUME TypeInv, NamesInv, [Next]_vars
  PROVE  \/ UNCHANGED row
         \/ \E i \in Id : Starts(i) \/ Exits(i)
         \/ ReconcileMark /\ Settles({jid[l] : l \in rec.dead}, "restarted")
         \/ \E k \in Killer : KillMark(k) /\ Settles({kill[k].id}, "killed")
         \/ \E ids \in SUBSET Id : Evicts(ids)
<1> DEFINE Goal == \/ UNCHANGED row
                   \/ \E i \in Id : Starts(i) \/ Exits(i)
                   \/ ReconcileMark /\ Settles({jid[l] : l \in rec.dead}, "restarted")
                   \/ \E k \in Killer : KillMark(k) /\ Settles({kill[k].id}, "killed")
                   \/ \E ids \in SUBSET Id : Evicts(ids)
<1> SUFFICES ASSUME Next PROVE Goal
  <2>1. UNCHANGED vars => UNCHANGED row
    BY DEF vars, launchLayer, storeVars
  <2> QED BY <2>1
<1>1. ASSUME NEW l \in Launch, LaunchNext(l) PROVE Goal
  <2>1. CASE Persist(l)
    <3>1. jid[l] \in Id
      BY <2>1 DEF NamesInv, Persist, Step
    <3>2. UNCHANGED row \/ Starts(jid[l])
      BY <2>1 DEF Starts, Persist, InsertRunning
    <3> QED BY <3>1, <3>2
  <2>2. CASE WaiterFinish(l)
    <3>1. jid[l] \in Id
      BY <2>2 DEF NamesInv, WaiterFinish, WaiterStep, Launched
    <3>2. UNCHANGED row \/ Exits(jid[l])
      BY <2>2, <3>1, Finishes DEF WaiterFinish, Exits
    <3> QED BY <3>1, <3>2
  <2>3. CASE UNCHANGED row
    BY <2>3
  <2> QED BY <1>1, <2>1, <2>2, <2>3
          DEF LaunchNext, RunSteps, Reserve, Spawn, SpawnFails, Track, Return, WaiterSteps,
              WaiterReap, WaiterRecord, WaiterSignal, GroupRuns, Write, storeVars
<1>2. CASE ReconcileNext
  <2>1. CASE ReconcileMark
    <3> DEFINE ids == {jid[l] : l \in rec.dead}
    <3>1. UNCHANGED row \/ FailIfRunning(ids, "restarted")
      BY <2>1 DEF ReconcileMark
    <3> HIDE DEF ids
    <3>2. UNCHANGED row \/ Settles(ids, "restarted")
      BY <3>1, FailSettles
    <3> QED BY <2>1, <3>2 DEF ids
  <2>2. CASE UNCHANGED row
    BY <2>2
  <2> QED BY <1>2, <2>1, <2>2
          DEF ReconcileNext, ReconcileLock, ReconcileQuery, ReconcileProbe, storeVars
<1>3. ASSUME NEW k \in Killer, KillNext(k) PROVE Goal
  <2>1. CASE KillMark(k)
    BY <2>1, FailSettles DEF KillMark
  <2>2. CASE UNCHANGED row
    BY <2>2
  <2> QED BY <1>3, <2>1, <2>2
          DEF KillNext, KillJob, KillJobCheck, KillJobTerm, KillJobRecheck, KillJobExited,
              KillJobGraceOver, KillJobForce, KillJobFinal, KillPersisted, KillFind, KillProbe,
              KillTerm, KillPoll, KillLast, KillForce, KillVerify, ToolKill, CliKill,
              launchLayer, storeVars
<1>4. CASE ReaperPass
  <2>1. CASE ReapDelete /\ DeleteRows(reap.evict)
    <3>1. PICK did \in SUBSET reap.evict : Evicts(did)
      BY <2>1 DEF DeleteRows, Evicts
    <3> QED BY <3>1, Typed
  <2>2. CASE UNCHANGED row
    BY <2>2
  <2> QED BY <1>4, <2>1, <2>2
          DEF ReaperPass, ReapStart, ReapKilled, ReapDelete, ReapUnlink, OrphanScan, OrphanEnd,
              ReapKill, ReapAsIs, ReapDrop, OrphanRemove, storeVars
<1>5. CASE Tick \/ EngineDies \/ EngineRestarts
  <2>1. UNCHANGED row
    BY <1>5 DEF Tick, EngineDies, Die, EngineRestarts, Restart, storeVars
  <2> QED BY <2>1
<1> QED BY <1>1, <1>2, <1>3, <1>4, <1>5 DEF Next

(* A launch whose row was written, or refused, does not go back. *)
LEMMA LaunchMoves ==
  ASSUME TypeInv, [Next]_vars, NEW l \in Launch
  PROVE  /\ Launched(l) => Launched(l)'
         /\ pc[l] # "idle" => pc'[l] # "idle" /\ jid'[l] = jid[l]
         /\ pc[l] = "idle" /\ pc'[l] # "idle" => jid'[l] \in Id
         /\ wpc[l] = "none" /\ wpc'[l] # "none" => Launched(l)'
<1> DEFINE Goal == /\ Launched(l) => Launched(l)'
                   /\ pc[l] # "idle" => pc'[l] # "idle" /\ jid'[l] = jid[l]
                   /\ pc[l] = "idle" /\ pc'[l] # "idle" => jid'[l] \in Id
                   /\ wpc[l] = "none" /\ wpc'[l] # "none" => Launched(l)'
<1> SUFFICES Goal
  OBVIOUS
<1> USE Typed DEF Launched, Before
<1>1. ASSUME UNCHANGED <<pc, jid, wpc>> PROVE Goal
  BY <1>1
<1>2. ASSUME NEW m \in Launch, Reserve(m) PROVE Goal
  BY <1>2 DEF Reserve, Step, waiterVars
<1>3. ASSUME NEW m \in Launch, Spawn(m) \/ SpawnFails(m) \/ Track(m) \/ Return(m) PROVE Goal
  <2>1. /\ UNCHANGED <<jid, wpc>>
        /\ \E from, to \in RunPcs :
             /\ pc[m] = from /\ pc' = [pc EXCEPT ![m] = to]
             /\ \/ from \in {"reserved", "spawned"} /\ to # "idle"
                \/ from = "waiting" /\ to \in {"inline", "backgrounded"}
    BY <1>3 DEF Spawn, SpawnFails, Track, Return, Step, RunPcs, waiterVars
  <2> QED BY <2>1
<1>4. ASSUME NEW m \in Launch, Persist(m) PROVE Goal
  <2>1. /\ UNCHANGED jid /\ pc[m] = "tracked" /\ wpc' = [wpc EXCEPT ![m] = "waiting"]
        /\ \E to \in {"waiting", "backgrounded"} : pc' = [pc EXCEPT ![m] = to]
    BY <1>4 DEF Persist, Step
  <2> QED BY <2>1
<1>5. ASSUME NEW m \in Launch, WaiterSteps(m) PROVE Goal
  <2>1. UNCHANGED <<pc, jid>> /\ wpc[m] # "none" /\ \E to : wpc' = [wpc EXCEPT ![m] = to]
    BY <1>5 DEF WaiterSteps, WaiterReap, WaiterRecord, WaiterSignal, WaiterFinish, WaiterStep,
       launchVars
  <2> QED BY <2>1
<1>6. ASSUME NEW m \in Launch, GroupRuns(m) \/ Write(m) PROVE Goal
  BY <1>1, <1>6 DEF GroupRuns, Write, launchVars, waiterVars
<1>7. CASE EngineDies
  BY <1>7 DEF EngineDies, Die
<1>8. ASSUME NEW k \in Killer, KillNext(k) PROVE Goal
  <2>1. UNCHANGED <<pc, jid, wpc>>
    BY <1>8 DEF KillNext, KillJob, KillJobCheck, KillJobTerm, KillJobRecheck, KillJobExited,
       KillJobGraceOver, KillJobForce, KillJobFinal, KillPersisted, KillFind, KillProbe,
       KillTerm, KillPoll, KillLast, KillForce, KillVerify, KillMark, ToolKill, CliKill,
       launchLayer, launchVars, waiterVars
  <2> QED BY <1>1, <2>1
<1>9. CASE ReconcileNext \/ ReaperPass \/ Tick \/ EngineRestarts \/ UNCHANGED vars
  <2>1. UNCHANGED <<pc, jid, wpc>>
    BY <1>9 DEF ReconcileNext, ReconcileLock, ReconcileQuery, ReconcileProbe, ReconcileMark,
       ReaperPass, ReapStart, ReapKilled, ReapDelete, ReapUnlink, OrphanScan, OrphanEnd,
       ReapKill, ReapAsIs, ReapDrop, OrphanRemove, reaperFrame, Tick, EngineRestarts, Restart,
       vars, launchLayer, launchVars, waiterVars
  <2> QED BY <1>1, <2>1
<1>10. ASSUME NEW m \in Launch, LaunchNext(m) PROVE Goal
  BY <1>2, <1>3, <1>4, <1>5, <1>6, <1>10 DEF LaunchNext, RunSteps
<1> HIDE DEF Goal
<1> QED BY <1>7, <1>8, <1>9, <1>10 DEF Next

LEMMA NamesInit == Init => NamesInv
BY DEF Init, LaunchInit, NamesInv, RowExists, NoRow

LEMMA NamesStep == TypeInv /\ NamesInv /\ [Next]_vars => NamesInv'
<1> SUFFICES ASSUME TypeInv, NamesInv, [Next]_vars PROVE NamesInv'
  OBVIOUS
<1>1. ASSUME NEW l \in Launch
      PROVE  (pc'[l] # "idle" => jid'[l] \in Id) /\ (wpc'[l] # "none" => Launched(l)')
  BY LaunchMoves DEF NamesInv
<1>2. ASSUME NEW i \in Id, RowExists(i)' PROVE (jid[row[i].owner] = i /\ Launched(row[i].owner))'
  <2> USE Typed
  <2>1. ASSUME NEW l \in Launch, jid[l] = i, Launched(l) PROVE jid'[l] = i /\ Launched(l)'
    BY <2>1, LaunchMoves DEF Launched
  <2>2. CASE RowExists(i) /\ row'[i].owner = row[i].owner
    <3>1. PICK l \in Launch : l = row[i].owner
      BY <2>2 DEF TypeInv, TypeOK, LaunchTypeOK, RowsOwned
    <3>2. jid[l] = i /\ Launched(l)
      BY <2>2, <3>1 DEF NamesInv
    <3>3. jid'[l] = i /\ Launched(l)'
      BY <2>1, <3>2
    <3> QED BY <2>2, <3>1, <3>3 DEF Launched
  <2>3. CASE UNCHANGED row
    BY <1>2, <2>2, <2>3 DEF RowExists
  <2>4. ASSUME NEW j \in Id, Starts(j)
        PROVE  (jid[row[i].owner] = i /\ Launched(row[i].owner))'
    <3>1. PICK l \in Launch :
            /\ Persist(l) /\ jid[l] = j
            /\ row' = [row EXCEPT ![j] = [status |-> "running", owner |-> l, started |-> clock]]
      BY <2>4 DEF Starts
    <3>2. jid'[l] = j /\ Launched(l)'
      BY <3>1 DEF Persist, Step, Launched, Before
    <3>3. CASE i = j
      <4>1. row'[i].owner = l
        BY <3>1, <3>3
      <4> QED BY <3>2, <3>3, <4>1 DEF Launched
    <3>4. CASE i # j
      <4>1. row'[i] = row[i]
        BY <3>1, <3>4
      <4> QED BY <1>2, <2>2, <4>1 DEF RowExists
    <3> QED BY <3>3, <3>4
  <2>5. ASSUME NEW j \in Id, Exits(j) PROVE RowExists(i) /\ row'[i].owner = row[i].owner
    BY <1>2, <2>5 DEF Exits, RowExists, Rows
  <2>6. ASSUME NEW ids, NEW why, Settles(ids, why), why # "absent"
        PROVE  RowExists(i) /\ row'[i].owner = row[i].owner
    BY <1>2, <2>6 DEF Settles, RowExists
  <2>7. ASSUME NEW ids \in SUBSET Id, Evicts(ids)
        PROVE  RowExists(i) /\ row'[i].owner = row[i].owner
    BY <1>2, <2>7 DEF Evicts, RowExists, NoRow
  <2>8. CASE \/ ReconcileMark /\ Settles({jid[l] : l \in rec.dead}, "restarted")
             \/ \E k \in Killer : KillMark(k) /\ Settles({kill[k].id}, "killed")
    <3>1. \E ids : Settles(ids, "restarted") \/ Settles(ids, "killed")
      BY <2>8
    <3> QED BY <2>2, <2>6, <3>1
  <2>9. CASE \/ \E j \in Id : Starts(j) \/ Exits(j)
             \/ \E ids \in SUBSET Id : Evicts(ids)
    BY <2>2, <2>4, <2>5, <2>7, <2>9
  <2> QED BY <2>3, <2>8, <2>9, RowSteps
<1> QED BY <1>1, <1>2 DEF NamesInv

-----------------------------------------------------------------------------
(* The map entries, where no INSERT of a launch fails either               *)

(* A tracked job keeps its log, and has its row but for the moments before *)
(* the INSERT and those of its eviction.                                   *)
EntryOK(i) ==
  log[i].owner = jobs[i] /\ (RowExists(i) \/ pc[jobs[i]] = "tracked" \/ Evicting(i))
EntriesInv == \A i \in Id : jobs[i] # None => EntryOK(i)

LEMMA LaunchEntries ==
  ASSUME Inv, EntriesInv, NEW l \in Launch, LaunchNext(l), InsertsStand
  PROVE  EntriesInv'
<1>t. /\ TypeInv /\ LaunchInv /\ MapInv /\ UNCHANGED reap
      /\ \A i \in Id : jobs[i] # None => jobs[i] \in Launch
  BY Typed DEF Inv, LaunchNext
<1> USE <1>t, Typed DEF EntriesInv, EntryOK, Evicting, RowExists
<1>1. CASE Reserve(l)
  <2>1. PICK i \in Id : log[i] = NoFile /\ log' = [log EXCEPT ![i] = [owner |-> l, mtime |-> clock]]
    BY <1>1 DEF Reserve
  <2>2. /\ UNCHANGED <<jobs, row>> /\ pc[l] = "idle" /\ pc' = [pc EXCEPT ![l] = "reserved"]
    BY <1>1 DEF Reserve, Step
  <2>3. jobs[i] = None
    BY <2>1 DEF NoFile
  <2> QED BY <2>1, <2>2, <2>3
<1>2. CASE Spawn(l) \/ SpawnFails(l) \/ Return(l)
  <2>1. /\ UNCHANGED <<jobs, row, log>> /\ pc[l] \in {"reserved", "waiting"}
        /\ \E to \in RunPcs : pc' = [pc EXCEPT ![l] = to]
    BY <1>2 DEF Spawn, SpawnFails, Return, Step, RunPcs, storeVars
  <2> QED BY <2>1
<1>3. CASE Track(l)
  <2>1. /\ UNCHANGED <<row, log>> /\ pc[l] = "spawned" /\ pc' = [pc EXCEPT ![l] = "tracked"]
        /\ jobs' = [jobs EXCEPT ![jid[l]] = l]
    BY <1>3 DEF Track, Step
  <2>2. jid[l] \in Id /\ log[jid[l]].owner = l
    BY <2>1 DEF LaunchInv, LaunchOK, Pending, Before
  <2> QED BY <2>1, <2>2
<1>4. CASE Persist(l)
  <2>1. /\ UNCHANGED <<jobs, log>> /\ pc[l] = "tracked"
        /\ \E to \in RunPcs : pc' = [pc EXCEPT ![l] = to]
    BY <1>4 DEF Persist, Step, RunPcs
  <2>2. jid[l] \in Id /\ ~RowExists(jid[l])
    BY <2>1 DEF LaunchInv, LaunchOK, Pending, Before
  <2>3. row' = [row EXCEPT ![jid[l]] = [status |-> "running", owner |-> l, started |-> clock]]
    BY <1>4, <2>2, NoFault DEF Persist, InsertRunning, InsertsStand
  <2>4. \A i \in Id : RowExists(i) \/ i = jid[l] => RowExists(i)'
    BY <2>2, <2>3
  <2>5. \A i \in Id : jobs[i] = l => i = jid[l]
    BY DEF MapInv, MapOK
  <2> QED BY <2>1, <2>4, <2>5
<1>5. CASE WaiterFinish(l)
  <2>1. UNCHANGED <<jobs, log, pc>> /\ jid[l] \in Id /\ Finish(jid[l])
    BY <1>5 DEF WaiterFinish, WaiterStep, launchVars, LaunchInv, LaunchOK, Launched
  <2>2. \A i \in Id : RowExists(i) => RowExists(i)'
    <3>1. \/ UNCHANGED row
          \/ row' = IF RowExists(jid[l]) THEN [row EXCEPT ![jid[l]].status = "exited"] ELSE row
      BY <2>1, Finishes
    <3>2. row[jid[l]] \in Rows
      BY <2>1
    <3> QED BY <3>1, <3>2 DEF Rows
  <2> QED BY <2>1, <2>2
<1>6. CASE Write(l)
  <2>1. UNCHANGED <<jobs, row, pc>> /\ log' = [log EXCEPT ![jid[l]].mtime = clock]
    BY <1>6 DEF Write, launchVars
  <2>2. \A i \in Id : log'[i].owner = log[i].owner
    BY <2>1
  <2> QED BY <2>1, <2>2
<1>7. CASE WaiterMoves(l) \/ GroupRuns(l)
  <2>1. UNCHANGED <<jobs, row, log, pc>>
    BY <1>7 DEF WaiterMoves, WaiterReap, WaiterRecord, WaiterSignal, GroupRuns, launchVars,
       storeVars
  <2> QED BY <2>1
<1> QED BY <1>1, <1>2, <1>3, <1>4, <1>5, <1>6, <1>7
        DEF LaunchNext, RunSteps, WaiterSteps, WaiterMoves

LEMMA ReaperEntries ==
  ASSUME Inv, EntriesInv, ReaperPass, DeletesStand
  PROVE  EntriesInv'
<1>t. /\ TypeInv /\ ReapInv /\ reap \in Pass /\ UNCHANGED pc
      /\ \A i \in Id : jobs[i] # None => jobs[i] \in Launch
  BY Typed DEF Inv, TypeInv, TypeOK, ReaperPass, ReapStart, ReapKilled, ReapDelete, ReapUnlink,
     OrphanScan, OrphanEnd, ReapKill, ReapAsIs, ReapDrop, OrphanRemove, reaperFrame, launchVars
<1> USE <1>t, Typed DEF EntriesInv, EntryOK, Evicting, RowExists
<1>1. CASE ReapDelete /\ reap.evict # {}
  <2>1. /\ UNCHANGED <<jobs, log>> /\ DeleteRows(reap.evict)
        /\ reap'.pc = "drop" /\ reap'.evict = reap.evict
    BY <1>1 DEF ReapDelete, Pass
  <2>2. row' = [i \in Id |-> IF i \in reap.evict THEN NoRow ELSE row[i]]
    BY <1>1, <2>1, Deletes DEF DeletesStand
  <2>3. reap.pc = "scan"
    BY <1>1 DEF ReapDelete
  <2> QED BY <2>1, <2>2, <2>3
<1>2. ASSUME NEW i \in Id, ReapDrop(i) PROVE EntriesInv'
  <2>1. /\ UNCHANGED <<row, log>> /\ jobs' = [jobs EXCEPT ![i] = None]
        /\ reap'.pc = "unlink" /\ reap'.evict = reap.evict
    BY <1>2 DEF ReapDrop, Pass
  <2> QED BY <2>1
<1>3. CASE ReapUnlink
  <2>1. UNCHANGED <<row, jobs>> /\ RemoveLog(reap.cur) /\ jobs[reap.cur] = None /\ reap.cur \in Id
    BY <1>3 DEF ReapUnlink, ReapInv
  <2>2. \A i \in Id : i # reap.cur /\ Evicting(i) => Evicting(i)'
    <3>1. CASE reap.evict = {reap.cur}
      BY <3>1
    <3>2. CASE reap.evict # {reap.cur}
      <4>1. reap' = [reap EXCEPT !.pc = "drop", !.evict = @ \ {reap.cur}, !.cur = None]
        BY <1>3, <3>2 DEF ReapUnlink
      <4>2. reap'.pc = "drop" /\ reap'.evict = reap.evict \ {reap.cur}
        BY <4>1 DEF Pass
      <4> QED BY <4>2
    <3> QED BY <3>1, <3>2
  <2>3. \A i \in Id : i # reap.cur => log'[i] = log[i]
    BY <2>1 DEF RemoveLog
  <2> QED BY <2>1, <2>2, <2>3
<1>4. ASSUME NEW j \in Id, OrphanRemove(j) PROVE EntriesInv'
  <2>1. UNCHANGED <<row, jobs, reap>> /\ RemoveLog(j) /\ reap.pc = "sweep" /\ Orphan(j)
    BY <1>4 DEF OrphanRemove
  <2>2. ~RowExists(j) /\ \A l \in Launch : Pending(l) => jid[l] # j
    BY <2>1, OrphanIsNobodys
  <2>3. jobs[j] = None
    <3> SUFFICES ASSUME jobs[j] # None PROVE FALSE
      OBVIOUS
    <3>1. pc[jobs[j]] = "tracked" /\ jid[jobs[j]] = j
      BY <2>1, <2>2 DEF Inv, MapInv, MapOK
    <3> QED BY <2>2, <3>1 DEF Pending, Before
  <2>4. \A i \in Id : i # j => log'[i] = log[i]
    BY <2>1 DEF RemoveLog
  <2> QED BY <2>1, <2>3, <2>4
<1>5. CASE ReapMoves
  <2>1. UNCHANGED <<row, jobs, log>> /\ reap.pc \notin {"drop", "unlink"}
    BY <1>5 DEF ReapMoves, ReapStart, ReapKilled, OrphanScan, OrphanEnd, ReapDelete, ReapKill,
       ReapAsIs, storeVars
  <2> QED BY <2>1
<1> QED BY <1>1, <1>2, <1>3, <1>4, <1>5 DEF ReaperPass, ReapMoves

LEMMA EntriesStep ==
  ASSUME Inv, EntriesInv, [Next]_vars, [WritesStand]_vars
  PROVE  EntriesInv'
<1>t. TypeInv /\ MapInv
  BY DEF Inv
<1>1. CASE WritesStand /\ \E l \in Launch : LaunchNext(l)
  BY <1>1, LaunchEntries DEF WritesStand
<1>2. CASE WritesStand /\ ReaperPass
  BY <1>2, ReaperEntries DEF WritesStand
<1>3. CASE EngineDies
  BY <1>3 DEF EngineDies, Die, EntriesInv
<1>4. CASE EngineRestarts
  BY <1>t, <1>4 DEF EngineRestarts, Restart, storeVars, EntriesInv, MapInv, MapOK
<1> SUFFICES ASSUME UNCHANGED <<jobs, log, pc, reap>>, \A i \in Id : RowExists(i) => RowExists(i)'
             PROVE  EntriesInv'
  <2> DEFINE Goal == UNCHANGED <<jobs, log, pc, reap>> /\ \A i \in Id : RowExists(i) => RowExists(i)'
  <2>1. ASSUME NEW ids, NEW why \in {"killed", "restarted"}, Settles(ids, why)
        PROVE  \A i \in Id : RowExists(i) => RowExists(i)'
    BY <2>1 DEF Settles, RowExists
  <2>2. UNCHANGED row => \A i \in Id : RowExists(i) => RowExists(i)'
    BY DEF RowExists
  <2>3. CASE ReconcileNext
    <3>1. UNCHANGED <<jobs, log, pc, reap>>
      BY <2>3 DEF ReconcileNext, ReconcileLock, ReconcileQuery, ReconcileProbe, ReconcileMark,
         launchVars, storeVars
    <3>2. UNCHANGED row \/ \E ids : FailIfRunning(ids, "restarted")
      BY <2>3 DEF ReconcileNext, ReconcileLock, ReconcileQuery, ReconcileProbe, ReconcileMark,
         storeVars
    <3> QED BY <1>t, <2>1, <2>2, <3>1, <3>2, FailSettles
  <2>4. ASSUME NEW k \in Killer, KillNext(k) PROVE Goal
    <3>1. UNCHANGED <<jobs, log, pc, reap>>
      BY <2>4 DEF KillNext, KillJob, KillJobCheck, KillJobTerm, KillJobRecheck, KillJobExited,
         KillJobGraceOver, KillJobForce, KillJobFinal, KillPersisted, KillFind, KillProbe,
         KillTerm, KillPoll, KillLast, KillForce, KillVerify, KillMark, ToolKill, CliKill,
         launchLayer, launchVars, storeVars
    <3>2. UNCHANGED row \/ \E ids : FailIfRunning(ids, "killed")
      BY <2>4 DEF KillNext, KillJob, KillJobCheck, KillJobTerm, KillJobRecheck, KillJobExited,
         KillJobGraceOver, KillJobForce, KillJobFinal, KillPersisted, KillFind, KillProbe,
         KillTerm, KillPoll, KillLast, KillForce, KillVerify, KillMark, ToolKill, CliKill,
         launchLayer, storeVars
    <3> QED BY <1>t, <2>1, <2>2, <3>1, <3>2, FailSettles
  <2>5. CASE Tick \/ UNCHANGED vars
    <3>1. UNCHANGED <<jobs, log, pc, reap, row>>
      BY <2>5 DEF Tick, launchVars, vars, launchLayer, storeVars
    <3> QED BY <2>2, <3>1
  <2> QED BY <1>1, <1>2, <1>3, <1>4, <2>3, <2>4, <2>5 DEF Next
<1> QED BY DEF EntriesInv, EntryOK, Evicting

-----------------------------------------------------------------------------
(* The theorems                                                            *)

(* An id names one job: the row, the log and the map entry under it belong *)
(* to one launch, also across restarts (reserve_log's create_new, and the  *)
(* order of eviction: row, map entry, log), if neither a launch's INSERT   *)
(* nor the reaper's DELETE fails.                                          *)
THEOREM IdsNameOneJob == Spec /\ [][WritesStand]_vars => []IdNamesOneJob
<1>1. Init => Inv /\ EntriesInv
  BY InitInv DEF Init, LaunchInit, EntriesInv
<1>2. Inv /\ EntriesInv /\ [Next]_vars /\ [WritesStand]_vars => Inv' /\ EntriesInv'
  BY StepInv, EntriesStep DEF WritesStand
<1>3. Inv /\ EntriesInv => IdNamesOneJob
  BY Typed DEF Inv, IdNamesOneJob, RowInv, RowOK, EntriesInv, EntryOK
<1> QED BY <1>1, <1>2, <1>3, PTL DEF Spec

(* The reconcile settles no job of its own incarnation, whichever          *)
(* statements fail but the reaper's DELETEs.                               *)
THEOREM ReconcileSparesItsOwn == Spec /\ [][DeletesStand]_vars => ReconcileSparesOwn
<1>1. Init => Inv
  BY InitInv
<1>2. ASSUME Inv, [Next]_vars, NEW i \in Id, row[i].status = "running",
             row'[i].status = "restarted"
      PROVE  born[row[i].owner] < gen
  <2>t. RowInv /\ RecInv /\ row \in [Id -> Rows]
    BY <1>2, Typed DEF Inv
  <2>1. ReconcileMark /\ i \in {jid[l] : l \in rec.dead}
    <3>1. ~UNCHANGED row
      BY <1>2
    <3>2. ASSUME NEW j \in Id PROVE ~Starts(j) /\ ~Exits(j)
      BY <1>2, <2>t DEF Starts, Exits, Rows, RowExists
    <3>3. ASSUME NEW k \in Killer PROVE ~Settles({kill[k].id}, "killed")
      BY <1>2 DEF Settles
    <3>4. ASSUME NEW ids \in SUBSET Id PROVE ~Evicts(ids)
      BY <1>2 DEF Evicts, NoRow
    <3>5. ReconcileMark /\ Settles({jid[l] : l \in rec.dead}, "restarted")
      BY <1>2, <3>1, <3>2, <3>3, <3>4, InvNames, RowSteps
    <3> QED BY <1>2, <3>5 DEF Settles
  <2>2. PICK l \in rec.dead : jid[l] = i
    BY <2>1
  <2>3. l \in Launch /\ Holds(l) /\ born[l] < gen
    BY <1>2, <2>t, Typed DEF RecInv, Inv
  <2> QED BY <1>2, <2>2, <2>3, HolderOwnsRow DEF RowExists
<1>3. Inv /\ [Next]_vars =>
        [\A i \in Id : row[i].status = "running" /\ row'[i].status = "restarted"
                         => born[row[i].owner] < gen]_vars
  BY <1>2
<1> QED BY <1>1, <1>3, StepInv, PTL DEF Spec, ReconcileSparesOwn

-----------------------------------------------------------------------------
(* The orphan sweep, where no INSERT of a launch fails                     *)

(* Too young a log for the sweep, or none. *)
Fresh(i) == log[i] = NoFile \/ log[i].mtime = clock

(* A tracked job has a row, or its launch has yet to write it; an eviction *)
(* is under way otherwise, and has not come to its map entry yet.          *)
Kept(i) == jobs[i] # None => RowExists(i) \/ (pc[jobs[i]] = "tracked" /\ jid[jobs[i]] = i)

SpareInv ==
  /\ ~up => \A i \in Id : jobs[i] = None
  /\ \A l \in Launch : Pending(l) => Fresh(jid[l])
  /\ \A i \in Id : Kept(i) \/ (Evicting(i) /\ ~(reap.pc = "unlink" /\ i = reap.cur))
  /\ reap.pc = "sweep" => \A i \in Id : RowExists(i) => i \in reap.known \/ Fresh(i)

LEMMA LaunchSpares ==
  ASSUME TypeInv, NamesInv, SpareInv, NEW l \in Launch, LaunchNext(l), InsertsStand
  PROVE  SpareInv'
<1>t. UNCHANGED <<clock, reap, up>> /\ \A m \in Launch : Pending(m) => jid[m] \in Id
  BY DEF LaunchNext, RunSteps, Reserve, Spawn, SpawnFails, Track, Persist, Return, WaiterSteps,
     WaiterReap, WaiterRecord, WaiterSignal, WaiterFinish, GroupRuns, Write, serverVars,
     NamesInv, Pending, Before
<1> USE <1>t, Typed DEF SpareInv, Pending, Before, Fresh, Kept, Evicting, RowExists
<1>1. CASE Reserve(l)
  <2>1. PICK i \in Id : /\ log' = [log EXCEPT ![i] = [owner |-> l, mtime |-> clock]]
                        /\ jid' = [jid EXCEPT ![l] = i]
    BY <1>1 DEF Reserve
  <2>2. UNCHANGED <<jobs, row>> /\ pc[l] = "idle" /\ pc' = [pc EXCEPT ![l] = "reserved"]
    BY <1>1 DEF Reserve, Step
  <2>3. \A j \in Id : (Fresh(j) => Fresh(j)') /\ Fresh(i)'
    BY <2>1
  <2>4. \A m \in Launch : Pending(m)' => Fresh(jid[m])'
    BY <2>1, <2>2, <2>3
  <2>5. \A j \in Id : Kept(j) => Kept(j)'
    BY <2>1, <2>2
  <2> QED BY <2>2, <2>3, <2>4, <2>5
<1>2. CASE Spawn(l) \/ SpawnFails(l) \/ Return(l)
  <2>1. /\ UNCHANGED <<jobs, row, log, jid>>
        /\ \E from \in {"reserved", "waiting"}, to \in RunPcs :
             /\ pc[l] = from /\ pc' = [pc EXCEPT ![l] = to]
             /\ from = "waiting" => to \notin Before
    BY <1>2 DEF Spawn, SpawnFails, Return, Step, RunPcs, storeVars
  <2> QED BY <2>1
<1>3. CASE Track(l)
  <2>1. /\ UNCHANGED <<row, log, jid>> /\ up
        /\ pc[l] = "spawned" /\ pc' = [pc EXCEPT ![l] = "tracked"]
        /\ jobs' = [jobs EXCEPT ![jid[l]] = l]
    BY <1>3 DEF Track, Step
  <2> QED BY <2>1
<1>4. CASE Persist(l)
  <2>1. /\ UNCHANGED <<jobs, log, jid>> /\ pc[l] = "tracked"
        /\ \E to \in {"waiting", "backgrounded"} : pc' = [pc EXCEPT ![l] = to]
    BY <1>4 DEF Persist, Step
  <2>2. \/ RowExists(jid[l]) /\ UNCHANGED row
        \/ row' = [row EXCEPT ![jid[l]] = [status |-> "running", owner |-> l, started |-> clock]]
    BY <1>4, NoFault DEF Persist, InsertRunning, InsertsStand
  <2>3. \A i \in Id : RowExists(i)' <=> RowExists(i) \/ i = jid[l]
    BY <2>2
  <2>4. \A i \in Id : Kept(i) => Kept(i)'
    BY <2>1, <2>3
  <2>5. Fresh(jid[l])
    BY <2>1
  <2> QED BY <2>1, <2>3, <2>4, <2>5
<1>5. CASE WaiterFinish(l)
  <2>1. UNCHANGED <<jobs, log, pc, jid>> /\ jid[l] \in Id /\ Finish(jid[l])
    BY <1>5 DEF WaiterFinish, WaiterStep, launchVars, NamesInv, Launched
  <2>2. \A i \in Id : RowExists(i)' <=> RowExists(i)
    <3>1. \/ UNCHANGED row
          \/ row' = IF RowExists(jid[l]) THEN [row EXCEPT ![jid[l]].status = "exited"] ELSE row
      BY <2>1, Finishes
    <3>2. row[jid[l]] \in Rows
      BY <2>1
    <3> QED BY <3>1, <3>2 DEF Rows
  <2> QED BY <2>1, <2>2
<1>6. CASE Write(l)
  <2>1. UNCHANGED <<jobs, row, pc, jid>> /\ log' = [log EXCEPT ![jid[l]].mtime = clock]
    BY <1>6 DEF Write, launchVars
  <2>2. log[jid[l]].owner = l
    BY <1>6 DEF Write
  <2>3. \A i \in Id : Fresh(i) => Fresh(i)'
    BY <2>1
  <2> QED BY <2>1, <2>3
<1>7. CASE WaiterMoves(l) \/ GroupRuns(l)
  <2>1. UNCHANGED <<jobs, row, log, pc, jid>>
    BY <1>7 DEF WaiterMoves, WaiterReap, WaiterRecord, WaiterSignal, GroupRuns, launchVars,
       storeVars
  <2> QED BY <2>1
<1> QED BY <1>1, <1>2, <1>3, <1>4, <1>5, <1>6, <1>7
        DEF LaunchNext, RunSteps, WaiterSteps, WaiterMoves

LEMMA ReaperSpares ==
  ASSUME TypeInv, NamesInv, SpareInv, ReaperPass
  PROVE  SpareInv'
<1>t. /\ reap \in Pass /\ UNCHANGED <<pc, jid, clock, up>>
      /\ \A m \in Launch : Pending(m) => jid[m] \in Id
  BY DEF TypeInv, TypeOK, ReaperPass, ReapStart, ReapKilled, ReapDelete, ReapUnlink,
     OrphanScan, OrphanEnd, ReapKill, ReapAsIs, ReapDrop, OrphanRemove, reaperFrame, launchVars,
     serverVars, NamesInv, Pending, Before
<1> USE <1>t, Typed DEF SpareInv, Pending, Before, Fresh, Kept, Evicting, RowExists
<1>1. CASE ReapDelete /\ reap.evict # {}
  <2>1. /\ UNCHANGED <<jobs, log>> /\ reap.pc = "scan"
        /\ reap'.pc = "drop" /\ reap'.evict = reap.evict
    BY <1>1 DEF ReapDelete, Pass
  <2>2. PICK did \in SUBSET reap.evict : row' = [i \in Id |-> IF i \in did THEN NoRow ELSE row[i]]
    BY <1>1 DEF ReapDelete, DeleteRows
  <2> QED BY <2>1, <2>2
<1>2. ASSUME NEW i \in Id, ReapDrop(i) PROVE SpareInv'
  <2>1. /\ UNCHANGED <<row, log>> /\ jobs' = [jobs EXCEPT ![i] = None] /\ reap.pc = "drop"
        /\ reap'.pc = "unlink" /\ reap'.evict = reap.evict /\ reap'.cur = i
    BY <1>2 DEF ReapDrop, Pass
  <2> QED BY <2>1
<1>3. CASE ReapUnlink
  <2>1. UNCHANGED <<row, jobs>> /\ RemoveLog(reap.cur) /\ reap.pc = "unlink"
    BY <1>3 DEF ReapUnlink
  <2>2. reap'.pc # "sweep" /\ \A i \in Id : i # reap.cur /\ Evicting(i) => Evicting(i)' /\ reap'.pc = "drop"
    <3>1. CASE reap.evict = {reap.cur}
      BY <1>3, <3>1 DEF ReapUnlink, ToOrphans, NoPass
    <3>2. CASE reap.evict # {reap.cur}
      <4>1. reap' = [reap EXCEPT !.pc = "drop", !.evict = @ \ {reap.cur}, !.cur = None]
        BY <1>3, <3>2 DEF ReapUnlink
      <4>2. reap'.pc = "drop" /\ reap'.evict = reap.evict \ {reap.cur}
        BY <4>1 DEF Pass
      <4> QED BY <4>2
    <3> QED BY <3>1, <3>2
  <2>3. \A i \in Id : Fresh(i) => Fresh(i)'
    BY <2>1 DEF RemoveLog
  <2>4. \A i \in Id : Kept(i)' <=> Kept(i)
    BY <2>1
  <2> QED BY <2>1, <2>2, <2>3, <2>4
<1>4. ASSUME NEW j \in Id, OrphanRemove(j) PROVE SpareInv'
  <2>1. UNCHANGED <<row, jobs, reap>> /\ RemoveLog(j)
    BY <1>4 DEF OrphanRemove
  <2>2. \A i \in Id : Fresh(i) => Fresh(i)'
    BY <2>1 DEF RemoveLog
  <2> QED BY <2>1, <2>2
<1>5. CASE ReapMoves
  <2>1. UNCHANGED <<row, jobs, log>> /\ reap.pc \notin {"drop", "unlink"}
    BY <1>5 DEF ReapMoves, ReapStart, ReapKilled, OrphanScan, OrphanEnd, ReapDelete, ReapKill,
       ReapAsIs, storeVars
  <2>2. reap'.pc = "sweep" => \A i \in Id : RowExists(i) => i \in reap'.known
    <3>1. CASE OrphanScan
      BY <3>1 DEF OrphanScan, NoPass
    <3>2. CASE ReapStart \/ OrphanEnd \/ (ReapDelete /\ reap.evict = {})
      BY <3>2 DEF ReapStart, OrphanEnd, ReapDelete, ToOrphans, NoPass
    <3>3. ASSUME NEW i \in Id, ReapKilled \/ ReapKill(i) \/ ReapAsIs(i) PROVE reap'.pc # "sweep"
      BY <3>3 DEF ReapKilled, ReapKill, ReapAsIs, Pass
    <3>4. ReapKilled => reap'.pc # "sweep"
      BY DEF ReapKilled, Pass
    <3> QED BY <1>5, <3>1, <3>2, <3>3, <3>4 DEF ReapMoves
  <2> QED BY <2>1, <2>2
<1> QED BY <1>1, <1>2, <1>3, <1>4, <1>5 DEF ReaperPass, ReapMoves

LEMMA SpareStep ==
  ASSUME TypeInv, NamesInv, SpareInv, [Next]_vars, [InsertsStand]_vars
  PROVE  SpareInv'
<1>1. CASE InsertsStand /\ \E l \in Launch : LaunchNext(l)
  BY <1>1, LaunchSpares
<1>2. CASE ReaperPass
  BY <1>2, ReaperSpares
<1>3. CASE Tick
  <2>1. /\ \A l \in Launch : ~Pending(l) /\ pc[l] # "tracked"
        /\ UNCHANGED <<up, jobs, row, pc, jid, reap>> /\ reap.pc \in {"off", "idle"}
    BY <1>3 DEF Tick, LaunchQuiet, Settling, Pending, Before, launchVars
  <2> QED BY <2>1 DEF SpareInv, Kept, Evicting, Pending, RowExists
<1>4. CASE EngineDies
  <2>1. /\ jobs' = [i \in Id |-> None] /\ reap' = NoPass("off")
        /\ \A l \in Launch : ~Pending(l)'
    BY <1>4, Typed DEF EngineDies, Die, Pending, Before
  <2> QED BY <2>1 DEF SpareInv, Kept, NoPass
<1>5. CASE EngineRestarts
  <2>1. ~up /\ UNCHANGED <<jobs, log, clock, pc, jid>> /\ up' /\ reap' = NoPass("idle")
    BY <1>5 DEF EngineRestarts, Restart, storeVars, launchVars
  <2> QED BY <2>1 DEF SpareInv, Kept, Pending, Fresh, NoPass
<1> SUFFICES ASSUME UNCHANGED <<up, clock, jobs, log, pc, jid, reap>>,
                    \A i \in Id : RowExists(i)' <=> RowExists(i)
             PROVE  SpareInv'
  <2> DEFINE Goal == UNCHANGED <<up, clock, jobs, log, pc, jid, reap>>
                     /\ \A i \in Id : RowExists(i)' <=> RowExists(i)
  <2>1. ASSUME NEW ids, NEW why \in {"killed", "restarted"}, FailIfRunning(ids, why)
        PROVE  \A i \in Id : RowExists(i)' <=> RowExists(i)
    <3>1. Settles(ids, why)
      BY <2>1, FailSettles
    <3> QED BY <3>1 DEF Settles, RowExists
  <2>2. UNCHANGED row => \A i \in Id : RowExists(i)' <=> RowExists(i)
    BY DEF RowExists
  <2>3. CASE ReconcileNext
    <3>1. UNCHANGED <<up, clock, jobs, log, pc, jid, reap>>
      BY <2>3 DEF ReconcileNext, ReconcileLock, ReconcileQuery, ReconcileProbe, ReconcileMark,
         serverVars, launchVars, storeVars
    <3>2. UNCHANGED row \/ \E ids : FailIfRunning(ids, "restarted")
      BY <2>3 DEF ReconcileNext, ReconcileLock, ReconcileQuery, ReconcileProbe, ReconcileMark,
         storeVars
    <3> QED BY <2>1, <2>2, <3>1, <3>2
  <2>4. ASSUME NEW k \in Killer, KillNext(k) PROVE Goal
    <3>1. UNCHANGED <<up, clock, jobs, log, pc, jid, reap>>
      BY <2>4 DEF KillNext, KillJob, KillJobCheck, KillJobTerm, KillJobRecheck, KillJobExited,
         KillJobGraceOver, KillJobForce, KillJobFinal, KillPersisted, KillFind, KillProbe,
         KillTerm, KillPoll, KillLast, KillForce, KillVerify, KillMark, ToolKill, CliKill,
         launchLayer, serverVars, launchVars, storeVars
    <3>2. UNCHANGED row \/ \E ids : FailIfRunning(ids, "killed")
      BY <2>4 DEF KillNext, KillJob, KillJobCheck, KillJobTerm, KillJobRecheck, KillJobExited,
         KillJobGraceOver, KillJobForce, KillJobFinal, KillPersisted, KillFind, KillProbe,
         KillTerm, KillPoll, KillLast, KillForce, KillVerify, KillMark, ToolKill, CliKill,
         launchLayer, storeVars
    <3> QED BY <2>1, <2>2, <3>1, <3>2
  <2>5. CASE UNCHANGED vars
    <3>1. UNCHANGED <<up, clock, jobs, log, pc, jid, reap, row>>
      BY <2>5 DEF vars, launchLayer, serverVars, launchVars, storeVars
    <3> QED BY <2>2, <3>1
  <2> HIDE DEF Goal
  <2>6. CASE Goal
    BY <2>6 DEF Goal
  <2> QED BY <1>1, <1>2, <1>3, <1>4, <1>5, <2>3, <2>4, <2>5, <2>6 DEF Next
<1> QED BY DEF SpareInv, Kept, Fresh, Evicting, Pending

(* The orphan sweep removes the log of no job with a row or a map entry    *)
(* (reap_orphans: the rows are read before the directory, and a log is an  *)
(* orphan only when it is older than any pending launch), whichever        *)
(* statements fail but the INSERTs of the launches.                        *)
THEOREM SweepSparesEveryJob == Spec /\ [][InsertsStand]_vars => SweepSparesJobs
<1>1. Init => TypeInv /\ NamesInv /\ SpareInv
  BY TypeInit, NamesInit DEF Init, LaunchInit, SpareInv, Kept, NoPass, Pending, Before
<1>2. TypeInv /\ NamesInv /\ [Next]_vars => TypeInv' /\ NamesInv'
  BY TypeStep, NamesStep
<1>3. TypeInv /\ NamesInv /\ SpareInv /\ [Next]_vars /\ [InsertsStand]_vars => SpareInv'
  BY SpareStep
<1>4. ASSUME TypeInv, NamesInv, SpareInv, [Next]_vars, NEW i \in Id, reap.pc = "sweep",
             log[i] # NoFile, log'[i] = NoFile
      PROVE  ~RowExists(i) /\ jobs[i] = None
  <2>t. log \in [Id -> Files] /\ None \notin Launch
    BY <1>4, Typed
  <2>1. ASSUME NEW l \in Launch PROVE ~Reserve(l) /\ ~Write(l)
    <3>1. ~Reserve(l)
      BY <1>4, <2>t DEF Reserve, NoFile
    <3>2. ~Write(l)
      <4> SUFFICES ASSUME Write(l) PROVE FALSE
        OBVIOUS
      <4>1. log'[i].owner = log[i].owner /\ (i # jid[l] => log'[i] = log[i])
        BY <2>t DEF Write, Files
      <4>2. log[jid[l]].owner = l
        BY DEF Write
      <4> QED BY <1>4, <2>t, <4>1, <4>2 DEF NoFile
    <3> QED BY <3>1, <3>2
  <2>2. ~UNCHANGED log
    BY <1>4
  <2>3. PICK j \in Id : OrphanRemove(j)
    <3>1. ASSUME NEW l \in Launch PROVE ~LaunchNext(l)
      BY <2>1, <2>2
         DEF LaunchNext, RunSteps, Spawn, SpawnFails, Track, Persist, Return, WaiterSteps,
             WaiterReap, WaiterRecord, WaiterSignal, WaiterFinish, GroupRuns, storeVars
    <3>2. ~ReconcileNext
      BY <2>2 DEF ReconcileNext, ReconcileLock, ReconcileQuery, ReconcileProbe, ReconcileMark,
         storeVars
    <3>3. ASSUME NEW k \in Killer PROVE ~KillNext(k)
      BY <2>2 DEF KillNext, KillJob, KillJobCheck, KillJobTerm, KillJobRecheck, KillJobExited,
         KillJobGraceOver, KillJobForce, KillJobFinal, KillPersisted, KillFind, KillProbe,
         KillTerm, KillPoll, KillLast, KillForce, KillVerify, KillMark, ToolKill, CliKill,
         launchLayer, storeVars
    <3>4. ~(Tick \/ EngineDies \/ EngineRestarts \/ UNCHANGED vars)
      BY <2>2 DEF Tick, EngineDies, Die, EngineRestarts, Restart, vars, launchLayer, storeVars
    <3>5. ReaperPass
      BY <1>4, <3>1, <3>2, <3>3, <3>4 DEF Next
    <3> QED BY <1>4, <2>2, <3>5
            DEF ReaperPass, ReapStart, ReapKilled, ReapDelete, ReapUnlink, OrphanScan,
                OrphanEnd, ReapKill, ReapAsIs, ReapDrop, storeVars
  <2>4. i = j /\ Orphan(j)
    BY <1>4, <2>t, <2>3 DEF OrphanRemove, RemoveLog
  <2>5. i \notin reap.known /\ ~Fresh(i)
    BY <1>4, <2>4, Typed, EngineConstants DEF Orphan, Fresh
  <2>6. ~RowExists(i) /\ Kept(i)
    BY <1>4, <2>5 DEF SpareInv, Evicting
  <2>7. jobs[i] # None => jobs[i] \in Launch
    BY <1>4, Typed
  <2> QED BY <1>4, <2>5, <2>6, <2>7 DEF SpareInv, Kept, Pending, Before
<1>5. TypeInv /\ NamesInv /\ SpareInv /\ [Next]_vars =>
        [\A i \in Id : reap.pc = "sweep" /\ log[i] # NoFile /\ log'[i] = NoFile
                         => ~RowExists(i) /\ jobs[i] = None]_vars
  BY <1>4
<1> QED BY <1>1, <1>2, <1>3, <1>5, PTL DEF Spec, SweepSparesJobs

-----------------------------------------------------------------------------
(* The rows an earlier incarnation left `running`, where the reconcile's   *)
(* statements do not fail                                                  *)

LeftRunning(i) == row[i].status = "running" /\ born[row[i].owner] < gen

(* The reconcile knows all of them from its query on. *)
SettledInv ==
  /\ rec.pc = "probe" =>
       \A i \in Id : LeftRunning(i) => row[i].owner \in rec.todo \cup rec.dead \cup rec.alive
  /\ rec.pc = "done" => \A i \in Id : LeftRunning(i) => row[i].owner \in rec.alive

(* No step of a running server leaves one more. *)
LEMMA NoneMoreLeft ==
  ASSUME Inv, [Next]_vars, ~EngineRestarts, NEW i \in Id, LeftRunning(i)'
  PROVE  LeftRunning(i) /\ row'[i].owner = row[i].owner
<1>t. /\ TypeInv /\ RowInv /\ LaunchInv
      /\ row \in [Id -> Rows] /\ born \in [Launch -> Nat] /\ gen \in Nat
  BY Typed DEF Inv
<1>1. gen' = gen
  BY DEF Next, LaunchNext, RunSteps, Reserve, Spawn, SpawnFails, Track, Persist, Return,
     WaiterSteps, WaiterReap, WaiterRecord, WaiterSignal, WaiterFinish, GroupRuns, Write,
     ReconcileNext, ReconcileLock, ReconcileQuery, ReconcileProbe, ReconcileMark,
     KillNext, KillJob, KillJobCheck, KillJobTerm, KillJobRecheck, KillJobExited,
     KillJobGraceOver, KillJobForce, KillJobFinal, KillPersisted, KillFind, KillProbe,
     KillTerm, KillPoll, KillLast, KillForce, KillVerify, KillMark, ToolKill, CliKill,
     ReaperPass, ReapStart, ReapKilled, ReapDelete, ReapUnlink, OrphanScan, OrphanEnd,
     ReapKill, ReapAsIs, ReapDrop, OrphanRemove, reaperFrame,
     Tick, EngineDies, Die, vars, launchLayer, serverVars
<1>2. ASSUME NEW l \in Launch, pc[l] # "idle" PROVE born'[l] = born[l]
  <2>1. ASSUME NEW m \in Launch, Reserve(m) PROVE born'[l] = born[l]
    BY <1>t, <1>2, <2>1 DEF Reserve, Step
  <2>2. (\A m \in Launch : ~Reserve(m)) => UNCHANGED born
    BY DEF Next, LaunchNext, RunSteps, Spawn, SpawnFails, Track, Persist, Return,
       WaiterSteps, WaiterReap, WaiterRecord, WaiterSignal, WaiterFinish, GroupRuns, Write,
       ReconcileNext, ReconcileLock, ReconcileQuery, ReconcileProbe, ReconcileMark,
       KillNext, KillJob, KillJobCheck, KillJobTerm, KillJobRecheck, KillJobExited,
       KillJobGraceOver, KillJobForce, KillJobFinal, KillPersisted, KillFind, KillProbe,
       KillTerm, KillPoll, KillLast, KillForce, KillVerify, KillMark, ToolKill, CliKill,
       ReaperPass, ReapStart, ReapKilled, ReapDelete, ReapUnlink, OrphanScan, OrphanEnd,
       ReapKill, ReapAsIs, ReapDrop, OrphanRemove, reaperFrame,
       Tick, EngineDies, Die, vars, launchLayer, launchVars
  <2> QED BY <2>1, <2>2
<1>3. row'[i].status = "running"
  BY DEF LeftRunning
<1>4. ASSUME NEW j \in Id, Starts(j) PROVE i # j
  <2> SUFFICES ASSUME i = j PROVE FALSE
    OBVIOUS
  <2>1. PICK l \in Launch :
          /\ pc[l] = "tracked"
          /\ row' = [row EXCEPT ![i] = [status |-> "running", owner |-> l, started |-> clock]]
    BY <1>4 DEF Starts, Persist, Step
  <2>2. row'[i].owner = l
    BY <1>t, <2>1
  <2>3. born[l] = gen
    BY <1>t, <2>1 DEF LaunchInv, LaunchOK, Pending, Before
  <2>4. born'[l] = born[l]
    BY <1>2, <2>1
  <2> QED BY <1>1, <1>t, <2>2, <2>3, <2>4 DEF LeftRunning
<1>5. row[i].status = "running" /\ row'[i].owner = row[i].owner
  <2>1. ASSUME NEW j \in Id, Starts(j) PROVE row'[i] = row[i]
    BY <1>4, <1>t, <2>1 DEF Starts
  <2>2. ASSUME NEW j \in Id, Exits(j) PROVE row'[i] = row[i]
    <3>1. row' = [row EXCEPT ![j].status = "exited"]
      BY <2>2 DEF Exits
    <3>2. i # j
      BY <1>3, <1>t, <3>1 DEF Rows
    <3> QED BY <1>t, <3>1, <3>2
  <2>3. ASSUME NEW ids, NEW why \in {"killed", "restarted"}, Settles(ids, why)
        PROVE  row[i].status = "running" /\ row'[i].owner = row[i].owner
    BY <1>3, <2>3 DEF Settles
  <2>4. ASSUME NEW ids \in SUBSET Id, Evicts(ids) PROVE row'[i] = row[i]
    BY <1>3, <2>4 DEF Evicts, NoRow
  <2> QED BY <1>3, <2>1, <2>2, <2>3, <2>4, InvNames, RowSteps
<1>6. row[i].owner \in Launch /\ pc[row[i].owner] # "idle"
  BY <1>t, <1>5 DEF RowInv, RowOK, RowExists, Launched
<1> QED BY <1>1, <1>2, <1>5, <1>6 DEF LeftRunning

LEMMA SettledStep ==
  ASSUME Inv, SettledInv, [Next]_vars, [ReconcileStands]_vars
  PROVE  SettledInv'
<1>t. /\ TypeInv /\ LaunchInv /\ RowInv /\ MapInv /\ RecInv /\ rec \in Reconcile
  BY DEF Inv, TypeInv, TypeOK
<1>1. CASE EngineRestarts
  BY <1>1 DEF EngineRestarts, NoReconcile, SettledInv
<1>2. CASE EngineDies
  BY <1>2 DEF EngineDies, NoReconcile, SettledInv
<1>3. CASE ReconcileLock
  <2>1. rec'.pc = "locked"
    BY <1>t, <1>3 DEF ReconcileLock, Reconcile
  <2> QED BY <2>1 DEF SettledInv
<1> SUFFICES ASSUME ~EngineRestarts PROVE SettledInv'
  BY <1>1
<1>4. CASE ReconcileQuery /\ UNCHANGED faults
  <2>1. /\ rec' = [rec EXCEPT !.pc = "probe", !.todo = StaleRunning]
        /\ rec.live = LiveIds /\ up
    BY <1>4, <1>t, NoFault DEF ReconcileQuery, RecInv
  <2>2. \A i \in Id : LeftRunning(i) => row[i].owner \in StaleRunning
    <3> SUFFICES ASSUME NEW i \in Id, LeftRunning(i) PROVE row[i].owner \in StaleRunning
      OBVIOUS
    <3>1. RowOK(i)
      BY <1>t DEF RowInv, RowExists, LeftRunning
    <3>2. jobs[i] = None
      BY <1>t, <3>1, Typed DEF MapInv, MapOK, LeftRunning, RowExists
    <3>3. row[i].started <= boot
      BY <2>1, <3>1 DEF RowOK, LeftRunning
    <3> QED BY <2>1, <3>2, <3>3 DEF StaleRunning, LiveIds, LeftRunning
  <2>3. rec'.pc = "probe" /\ rec'.todo = StaleRunning
    BY <1>t, <2>1 DEF Reconcile
  <2> QED BY <2>2, <2>3, NoneMoreLeft DEF SettledInv
<1>5. ASSUME NEW l \in Launch, ReconcileProbe(l) PROVE SettledInv'
  <2>1. PICK alive \in BOOLEAN :
          rec' = [rec EXCEPT !.todo = @ \ {l},
                             !.dead = IF alive THEN @ ELSE @ \cup {l},
                             !.alive = IF alive THEN @ \cup {l} ELSE @]
    BY <1>5 DEF ReconcileProbe
  <2>2. /\ rec'.pc = rec.pc /\ rec'.todo = rec.todo \ {l}
        /\ rec'.dead = (IF alive THEN rec.dead ELSE rec.dead \cup {l})
        /\ rec'.alive = (IF alive THEN rec.alive \cup {l} ELSE rec.alive)
    BY <1>t, <2>1 DEF Reconcile
  <2>3. rec.todo \cup rec.dead \cup rec.alive \subseteq rec'.todo \cup rec'.dead \cup rec'.alive
    BY <2>2
  <2>4. rec.pc = "probe"
    BY <1>5 DEF ReconcileProbe
  <2> QED BY <2>2, <2>3, <2>4, NoneMoreLeft DEF SettledInv
<1>6. CASE ReconcileMark /\ UNCHANGED faults
  <2> DEFINE ids == {jid[l] : l \in rec.dead}
  <2>1. /\ rec.pc = "probe" /\ rec.todo = {} /\ rec'.pc = "done" /\ rec'.alive = rec.alive
        /\ rec.dead = {} \/ FailIfRunning(ids, "restarted")
    BY <1>6 DEF ReconcileMark, NoReconcile
  <2> SUFFICES ASSUME NEW i \in Id, LeftRunning(i)' PROVE row'[i].owner \in rec.alive
    BY <2>1 DEF SettledInv
  <2>2. LeftRunning(i) /\ row'[i].owner = row[i].owner
    BY NoneMoreLeft
  <2>3. jid[row[i].owner] = i
    BY <1>t, <2>2 DEF RowInv, RowOK, RowExists, LeftRunning
  <2>4. CASE rec.dead = {}
    BY <2>1, <2>2, <2>4 DEF SettledInv
  <2>5. CASE FailIfRunning(ids, "restarted")
    <3>1. i \in ids => row'[i].status = "restarted"
      <4> HIDE DEF ids
      <4>1. row' = [j \in Id |-> IF j \in ids /\ row[j].status = "running"
                                THEN [row[j] EXCEPT !.status = "restarted"] ELSE row[j]]
        BY <1>6, <1>t, <2>5, NoFault DEF FailIfRunning, ForEach
      <4>2. row[i] \in Rows /\ row[i].status = "running"
        BY <1>t, <2>2, Typed DEF LeftRunning
      <4> QED BY <4>1, <4>2 DEF Rows
    <3>2. row[i].owner \notin rec.dead
      BY <2>3, <3>1 DEF LeftRunning
    <3> QED BY <2>1, <2>2, <3>2 DEF SettledInv
  <2> QED BY <2>1, <2>4, <2>5
<1>7. CASE UNCHANGED rec
  BY <1>7, NoneMoreLeft DEF SettledInv
<1>8. CASE UNCHANGED vars
  BY <1>7, <1>8 DEF vars
<1> QED BY <1>2, <1>3, <1>4, <1>5, <1>6, <1>7, <1>8
        DEF Next, LaunchNext, ReconcileNext, ReconcileStands, KillNext, KillJob, KillJobCheck,
            KillJobTerm, KillJobRecheck, KillJobExited, KillJobGraceOver, KillJobForce,
            KillJobFinal, KillPersisted, KillFind, KillProbe, KillTerm, KillPoll, KillLast,
            KillForce, KillVerify, KillMark, ToolKill, CliKill, ReaperPass, ReapStart,
            ReapKilled, ReapDelete, ReapUnlink, OrphanScan, OrphanEnd, ReapKill, ReapAsIs,
            ReapDrop, OrphanRemove, reaperFrame, Tick

(* After the startup reconcile a `running` row of an earlier incarnation   *)
(* is one whose group answered (reconcile_stale_running), if none of the   *)
(* reconcile's own statements fails, nor a DELETE of the reaper.           *)
THEOREM BootSettles ==
  Spec /\ [][DeletesStand]_vars /\ [][ReconcileStands]_vars => []BootSettlesRows
<1>1. Init => Inv /\ SettledInv
  BY InitInv DEF Init, NoReconcile, SettledInv
<1>2. Inv /\ SettledInv /\ [Next]_vars /\ [ReconcileStands]_vars => SettledInv'
  BY SettledStep
<1>3. SettledInv => BootSettlesRows
  BY DEF SettledInv, BootSettlesRows, LeftRunning
<1> QED BY <1>1, <1>2, <1>3, StepInv, PTL DEF Spec

-----------------------------------------------------------------------------
(* The exits on record, where the waiters' UPDATEs do not fail             *)

LEMMA FinishedStep ==
  ASSUME TypeInv, NamesInv, FinishedRowIsTerminal, [Next]_vars, [UpdatesStand]_vars
  PROVE  FinishedRowIsTerminal'
<1>t. /\ row \in [Id -> Rows] /\ wpc \in [Launch -> WaiterPcs] /\ pc \in [Launch -> RunPcs]
      /\ None \notin Launch
  BY Typed
<1> SUFFICES ASSUME NEW l \in Launch, wpc'[l] = "finished",
                    NEW i \in Id, row'[i].owner = l, row'[i].status = "running"
             PROVE  FALSE
  BY DEF FinishedRowIsTerminal
<1>1. CASE wpc[l] = "finished"
  <2>1. ASSUME NEW j \in Id, Starts(j) PROVE FALSE
    <3>1. PICK m \in Launch :
            /\ pc[m] = "tracked"
            /\ row' = [row EXCEPT ![j] = [status |-> "running", owner |-> m, started |-> clock]]
      BY <2>1 DEF Starts, Persist, Step
    <3>2. m # l
      BY <1>1, <3>1 DEF NamesInv, Launched, Before
    <3>3. row'[i] = row[i]
      BY <1>t, <3>1, <3>2
    <3> QED BY <1>1, <3>3 DEF FinishedRowIsTerminal
  <2>2. ASSUME NEW j \in Id, Exits(j) PROVE FALSE
    <3>1. row' = [row EXCEPT ![j].status = "exited"]
      BY <2>2 DEF Exits
    <3>2. row'[i] = row[i]
      BY <1>t, <3>1 DEF Rows
    <3> QED BY <1>1, <3>2 DEF FinishedRowIsTerminal
  <2>3. ASSUME NEW ids, NEW why \in {"killed", "restarted"}, Settles(ids, why) PROVE FALSE
    BY <1>1, <2>3 DEF Settles, FinishedRowIsTerminal
  <2>4. ASSUME NEW ids \in SUBSET Id, Evicts(ids) PROVE FALSE
    BY <1>1, <2>4 DEF Evicts, NoRow, FinishedRowIsTerminal
  <2>5. CASE UNCHANGED row
    BY <1>1, <2>5 DEF FinishedRowIsTerminal
  <2> QED BY <2>1, <2>2, <2>3, <2>4, <2>5, RowSteps
<1>2. CASE wpc[l] # "finished"
  <2>1. WaiterFinish(l) /\ UNCHANGED faults
    <3>1. ASSUME NEW m \in Launch, WaiterSteps(m) PROVE WaiterFinish(l)
      BY <1>2, <1>t, <3>1 DEF WaiterSteps, WaiterReap, WaiterRecord, WaiterSignal, WaiterFinish,
         WaiterStep
    <3>2. ASSUME NEW m \in Launch, Persist(m) PROVE FALSE
      BY <1>2, <1>t, <3>2 DEF Persist
    <3>3. wpc' # wpc /\ ~EngineDies
      BY <1>2 DEF EngineDies, Die
    <3>4. ~UNCHANGED vars
      BY <3>3 DEF vars, launchLayer, waiterVars
    <3>5. WaiterFinish(l)
      BY <3>1, <3>2, <3>3, <3>4
         DEF Next, LaunchNext, RunSteps, Reserve, Spawn, SpawnFails, Track, Return, GroupRuns,
             Write, ReconcileNext, ReconcileLock, ReconcileQuery, ReconcileProbe, ReconcileMark,
             KillNext, KillJob, KillJobCheck, KillJobTerm, KillJobRecheck, KillJobExited,
             KillJobGraceOver, KillJobForce, KillJobFinal, KillPersisted, KillFind, KillProbe,
             KillTerm, KillPoll, KillLast, KillForce, KillVerify, KillMark, ToolKill, CliKill,
             ReaperPass, ReapStart, ReapKilled, ReapDelete, ReapUnlink, OrphanScan, OrphanEnd,
             ReapKill, ReapAsIs, ReapDrop, OrphanRemove, reaperFrame,
             Tick, EngineRestarts, Restart, launchLayer, waiterVars
    <3> QED BY <3>4, <3>5 DEF UpdatesStand
  <2>2. row' = IF RowExists(jid[l]) THEN [row EXCEPT ![jid[l]].status = "exited"] ELSE row
    BY <1>t, <2>1, NoFault DEF WaiterFinish, Finish
  <2>3. RowExists(i) /\ row[i].owner = l
    BY <1>t, <2>2 DEF RowExists, Rows
  <2>4. jid[l] = i
    BY <2>3 DEF NamesInv
  <2> QED BY <1>t, <2>2, <2>3, <2>4 DEF Rows
<1> QED BY <1>1, <1>2

(* A waiter that is through has left no `running` row of its job behind    *)
(* (mod.rs: the waiter is spawned after the INSERT), whichever statements  *)
(* fail but the waiters' UPDATEs.                                          *)
THEOREM FinishedIsTerminal ==
  Spec /\ [][UpdatesStand]_vars => []FinishedRowIsTerminal
<1>1. Init => TypeInv /\ NamesInv /\ FinishedRowIsTerminal
  BY TypeInit, NamesInit DEF Init, LaunchInit, NoRow, FinishedRowIsTerminal
<1>2. TypeInv /\ NamesInv /\ [Next]_vars => TypeInv' /\ NamesInv'
  BY TypeStep, NamesStep
<1>3. TypeInv /\ NamesInv /\ FinishedRowIsTerminal /\ [Next]_vars /\ [UpdatesStand]_vars
        => FinishedRowIsTerminal'
  BY FinishedStep
<1> QED BY <1>1, <1>2, <1>3, PTL DEF Spec

(* Where the database never fails (MaxFaults = 0, as in the run `engine`), *)
(* every hypothesis on the statements holds.                               *)
THEOREM NothingFails ==
  MaxFaults = 0 =>
    (Spec => [][WritesStand /\ UpdatesStand /\ ReconcileStands]_vars)
<1> SUFFICES ASSUME MaxFaults = 0
             PROVE  Spec => [][WritesStand /\ UpdatesStand /\ ReconcileStands]_vars
  OBVIOUS
<1>1. ASSUME TypeInv PROVE WritesStand /\ UpdatesStand /\ ReconcileStands
  <2>1. ASSUME NEW kind PROVE ~Fault(kind)
    BY <1>1 DEF Fault, TypeInv, TypeOK, LaunchTypeOK
  <2> QED BY <2>1 DEF WritesStand, InsertsStand, DeletesStand, UpdatesStand, ReconcileStands, Ok,
             Persist, InsertRunning, ReapDelete, DeleteRows, ForEach, WaiterFinish, Finish,
             ReconcileQuery, ReconcileMark, FailIfRunning
<1>2. Init => TypeInv
  BY TypeInit
<1>3. TypeInv /\ [Next]_vars => TypeInv'
  BY TypeStep
<1> QED BY <1>1, <1>2, <1>3, PTL DEF Spec

-----------------------------------------------------------------------------
(* The job table implements JobHistory                                     *)

Statuses == [i \in Id |-> row[i].status]

LEMMA StepsAreMoves ==
  ASSUME Inv, [Next]_vars
  PROVE  [History!HistoryNext]_Statuses
<1> DEFINE Goal == History!HistoryNext \/ UNCHANGED Statuses
<1>t. row \in [Id -> Rows] /\ \A i \in Id : row[i].status \in RowStates
  BY Typed DEF Inv
<1>1. CASE UNCHANGED row
  BY <1>1 DEF Statuses
<1>2. ASSUME NEW i \in Id, Starts(i) PROVE Goal
  <2>1. \A j \in Id : row'[j].status = IF j = i THEN "running" ELSE row[j].status
    <3>1. PICK new : new.status = "running" /\ row' = [row EXCEPT ![i] = new]
      BY <1>2 DEF Starts
    <3> QED BY <1>t, <3>1
  <2>2. History!Start(i)
    BY <1>2, <2>1 DEF Starts, RowExists, History!Start, History!Move
  <2> QED BY <2>2 DEF History!HistoryNext
<1>3. ASSUME NEW i \in Id, Exits(i) PROVE Goal
  <2>1. \A j \in Id : row'[j].status = IF j = i THEN "exited" ELSE row[j].status
    <3> SUFFICES ASSUME NEW j \in Id
                 PROVE  row'[j].status = IF j = i THEN "exited" ELSE row[j].status
      OBVIOUS
    <3>1. row'[j] = IF j = i THEN [row[j] EXCEPT !.status = "exited"] ELSE row[j]
      BY <1>t, <1>3 DEF Exits
    <3> QED BY <1>t, <3>1 DEF Rows
  <2>2. CASE row[i].status \in {"running", "killed"}
    <3>1. History!Exit(i)
      BY <2>1, <2>2 DEF History!Exit, History!Move
    <3> QED BY <3>1 DEF History!HistoryNext
  <2>3. CASE row[i].status = "exited"
    BY <2>1, <2>3 DEF Statuses
  <2>4. row[i].status # "restarted"
    <3>1. PICK l \in Launch : WaiterFinish(l) /\ jid[l] = i
      BY <1>3 DEF Exits
    <3>2. RowExists(i) /\ RowOK(i) /\ born[row[i].owner] = gen
      BY <1>3, <3>1 DEF Exits, Inv, RowInv, LaunchInv, LaunchOK, WaiterFinish, WaiterStep
    <3> QED BY <3>2, Typed DEF RowOK, Inv
  <2> QED BY <1>t, <1>3, <2>2, <2>3, <2>4 DEF Exits, RowExists, RowStates
<1>5. CASE ReconcileMark /\ Settles({jid[l] : l \in rec.dead}, "restarted")
  <2> DEFINE settled == {j \in Id : row'[j].status # row[j].status}
  <2>1. \A j \in settled : row[j].status = "running" /\ row'[j].status = "restarted"
    BY <1>5 DEF Settles
  <2>2. PICK ids \in SUBSET Id : ids = settled
    OBVIOUS
  <2>3. History!Settle(ids)
    BY <2>1, <2>2 DEF History!Settle, History!Move
  <2> QED BY <2>3 DEF History!HistoryNext
<1>6. ASSUME NEW k \in Killer, KillMark(k), Settles({kill[k].id}, "killed") PROVE Goal
  <2>1. PICK i \in Id : i = kill[k].id
    BY <1>6 DEF KillMark, At, Inv, TypeInv, KillsNamed
  <2>2. \A j \in Id : j # i => row'[j].status = row[j].status
    BY <1>6, <2>1 DEF Settles
  <2>3. CASE row'[i].status = row[i].status
    BY <2>2, <2>3 DEF Statuses
  <2>4. CASE row'[i].status # row[i].status
    <3>1. row[i].status = "running" /\ row'[i].status = "killed"
      BY <1>6, <2>1, <2>4 DEF Settles
    <3>2. History!Kill(i)
      BY <2>2, <3>1 DEF History!Kill, History!Move
    <3> QED BY <3>2 DEF History!HistoryNext
  <2> QED BY <2>3, <2>4
<1>7. ASSUME NEW ids \in SUBSET Id, Evicts(ids) PROVE Goal
  <2>1. \A j \in Id : row'[j].status = IF j \in ids THEN "absent" ELSE row[j].status
    BY <1>7 DEF Evicts, NoRow
  <2>2. History!Evict(ids)
    BY <1>t, <2>1 DEF History!Evict, History!Move, History!Statuses, RowStates
  <2> QED BY <2>2 DEF History!HistoryNext
<1> HIDE DEF Goal
<1>8. Goal
  BY <1>1, <1>2, <1>3, <1>5, <1>6, <1>7, InvNames, RowSteps DEF Goal
<1> QED BY <1>8 DEF Goal

(* What every reader of the job table may rely on: absent, running, one    *)
(* way of having ended, absent again; only the owner's own exit replaces a *)
(* recorded kill (store.rs: insert_running, finish, FAIL_IF_RUNNING and    *)
(* delete, whoever calls them and in whatever order), whichever statements *)
(* fail but the reaper's DELETEs.                                          *)
THEOREM TableImplementsHistory == Spec /\ [][DeletesStand]_vars => ImplementsHistory
<1>1. Init => Inv
  BY InitInv
<1>2. Init => History!HistoryInit
  BY DEF Init, LaunchInit, NoRow, History!HistoryInit
<1>3. Inv /\ [Next]_vars => [History!HistoryNext]_[i \in Id |-> row[i].status]
  BY StepsAreMoves DEF Statuses
<1> QED BY <1>1, <1>2, <1>3, StepInv, PTL DEF Spec, ImplementsHistory, History!HistorySpec

(* What follows for one row: once a job has ended its row says so until it *)
(* is evicted, and only a recorded kill may still become the exit the      *)
(* server saw itself (store.rs, FAIL_IF_RUNNING; `finish` alone has no     *)
(* guard on the status).                                                   *)
EndsStand ==
  \A i \in Id :
    /\ row[i].status \in {"exited", "restarted"} => row'[i].status \in {row[i].status, "absent"}
    /\ row[i].status = "killed" => row'[i].status \in {"killed", "exited", "absent"}

LEMMA MovesKeepEnds ==
  ASSUME History!HistoryNext
  PROVE  \A i \in Id :
           /\ row[i].status \in {"exited", "restarted"} =>
                row'[i].status \in {row[i].status, "absent"}
           /\ row[i].status = "killed" => row'[i].status \in {"killed", "exited", "absent"}
BY DEF History!HistoryNext, History!Start, History!Exit, History!Kill, History!Settle,
       History!Evict, History!Move, History!Statuses

(* The status a row has ended with stands until the row is evicted, for    *)
(* whoever reads the table (`job list`, `poll`, `mcp-ssh job`), whichever  *)
(* statements fail but the reaper's DELETEs.                               *)
THEOREM RecordedEndsStand == Spec /\ [][DeletesStand]_vars => [][EndsStand]_vars
<1>1. Init => Inv
  BY InitInv
<1>2. ASSUME Inv, [Next]_vars, \E i \in Id : row'[i].status # row[i].status
      PROVE  EndsStand
  <2>1. History!HistoryNext
    BY <1>2, StepsAreMoves DEF Statuses
  <2> QED BY <2>1, MovesKeepEnds DEF EndsStand
<1>3. ASSUME Inv, [Next]_vars PROVE EndsStand
  <2>1. CASE \A i \in Id : row'[i].status = row[i].status
    BY <2>1 DEF EndsStand
  <2> QED BY <1>2, <1>3, <2>1
<1> QED BY <1>1, <1>3, StepInv, PTL DEF Spec

-----------------------------------------------------------------------------
(* Dead groups, where every `kill` command can be started                  *)

(* Whom the reconcile or a kill takes for dead has no process left. *)
DeadInv ==
  /\ \A l \in rec.dead : ~GroupAlive(l)
  /\ \A k \in Killer : kill[k].pc = "mark" => ~GroupAlive(kill[k].job)

LEMMA DeadGroups ==
  ASSUME GroupsTypeOK, NEW l \in Launch, NEW m, NEW signal,
         NEW parented \in BOOLEAN, NEW answer \in BOOLEAN,
         \/ UNCHANGED groupVars
         \/ StartGroup(m) /\ m # l
         \/ LeaderExit(m, parented) \/ ChildExit(m) \/ Reap(m)
         \/ ParentDies(answer) \/ Probe(m, answer) \/ SignalGroup(m, signal, parented, answer)
  PROVE  /\ ~GroupAlive(l) => ~GroupAlive(l)'
         /\ leader[l] # "alive" => leader'[l] # "alive"
         /\ leader[l] = "gone" => leader'[l] = "gone"
<1> USE DEF GroupsTypeOK, LeaderStates, GroupAlive
<1>1. CASE UNCHANGED groupVars
  BY <1>1 DEF groupVars
<1>2. CASE StartGroup(m) /\ m # l
  BY <1>2 DEF StartGroup
<1>3. CASE LeaderExit(m, parented)
  BY <1>3 DEF LeaderExit, Dead
<1>4. CASE ChildExit(m)
  BY <1>4 DEF ChildExit
<1>5. CASE Reap(m)
  BY <1>5 DEF Reap
<1>6. CASE ParentDies(answer)
  BY <1>6 DEF ParentDies
<1>7. CASE Probe(m, answer)
  BY <1>7 DEF Probe
<1>8. CASE SignalGroup(m, signal, parented, answer)
  <2>1. CASE GroupAlive(m) /\ Signalled(m, signal, parented)
    BY <2>1 DEF Signalled, Dead
  <2>2. CASE UNCHANGED <<leader, child>>
    BY <2>2
  <2> QED BY <1>8, <2>1, <2>2 DEF SignalGroup, groupVars
<1> QED BY <1>1, <1>2, <1>3, <1>4, <1>5, <1>6, <1>7, <1>8

(* What a step of the engine is for the groups. *)
LEMMA GroupEffects ==
  ASSUME Inv, [Next]_vars
  PROVE  \/ UNCHANGED groupVars
         \/ \E m \in Launch : StartGroup(m) /\ pc[m] = "reserved"
         \/ \E m \in Launch \cup {None}, parented, answer \in BOOLEAN, signal \in {"TERM", "KILL"} :
              \/ LeaderExit(m, parented) \/ ChildExit(m) \/ Reap(m)
              \/ ParentDies(answer) \/ Probe(m, answer)
              \/ SignalGroup(m, signal, parented, answer)
<1> DEFINE Other ==
      \E m \in Launch \cup {None}, parented, answer \in BOOLEAN, signal \in {"TERM", "KILL"} :
        \/ LeaderExit(m, parented) \/ ChildExit(m) \/ Reap(m)
        \/ ParentDies(answer) \/ Probe(m, answer)
        \/ SignalGroup(m, signal, parented, answer)
<1>t. TypeInv /\ up \in BOOLEAN /\ gen \in Nat
  BY Typed DEF Inv
<1>p. \A m \in Launch \cup {None} : Parented(m) \in BOOLEAN
  BY <1>t DEF Parented
<1>1. ASSUME NEW m \in Launch, LaunchNext(m)
      PROVE  UNCHANGED groupVars \/ (StartGroup(m) /\ pc[m] = "reserved") \/ Other
  <2>1. \/ StartGroup(m) /\ pc[m] = "reserved"
        \/ UNCHANGED groupVars \/ LeaderExit(m, Parented(m)) \/ ChildExit(m) \/ Reap(m)
    BY <1>1 DEF LaunchNext, RunSteps, Reserve, Spawn, SpawnFails, Track, Persist, Return,
       WaiterSteps, WaiterReap, WaiterRecord, WaiterSignal, WaiterFinish, GroupRuns, Write, Step
  <2> QED BY <1>p, <2>1
<1>2. CASE ReconcileNext
  <2>1. UNCHANGED groupVars \/ \E m \in Launch, answer \in BOOLEAN : Probe(m, answer)
    BY <1>2 DEF ReconcileNext, ReconcileLock, ReconcileQuery, ReconcileProbe, ReconcileMark,
       AskGroup
  <2> QED BY <2>1
<1>3. ASSUME NEW k \in Killer, KillNext(k) PROVE UNCHANGED groupVars \/ Other
  <2>1. PICK m \in Launch \cup {None} : m = kill[k].job
    BY <1>t DEF TypeInv, TypeOK, Kills
  <2>2. \/ UNCHANGED groupVars
        \/ \E answer \in BOOLEAN :
             \/ Probe(kill[k].job, answer)
             \/ \E signal \in {"TERM", "KILL"} :
                  SignalGroup(kill[k].job, signal, Parented(kill[k].job), answer)
    <3>1. CASE KillJob(k)
      BY <3>1 DEF KillJob, KillJobCheck, KillJobTerm, KillJobRecheck, KillJobExited,
         KillJobGraceOver, KillJobForce, KillJobFinal, launchLayer
    <3>2. CASE KillPersisted(k)
      BY <3>2 DEF KillPersisted, KillFind, KillProbe, KillTerm, KillPoll, KillLast, KillForce,
         KillVerify, KillMark
    <3>3. CASE \E i \in Id : ToolKill(k, i) \/ CliKill(k, i)
      BY <3>3 DEF ToolKill, CliKill, launchLayer
    <3> QED BY <1>3, <3>1, <3>2, <3>3 DEF KillNext
  <2> QED BY <1>p, <2>1, <2>2
<1>4. CASE ReaperPass
  <2>1. UNCHANGED groupVars
    BY <1>4 DEF ReaperPass, ReapStart, ReapKilled, ReapDelete, ReapUnlink, OrphanScan, OrphanEnd,
       ReapKill, ReapAsIs, ReapDrop, OrphanRemove, reaperFrame
  <2> QED BY <2>1
<1>5. CASE Tick \/ EngineDies \/ EngineRestarts \/ UNCHANGED vars
  <2>1. UNCHANGED groupVars \/ \E answer \in BOOLEAN : ParentDies(answer)
    BY <1>5 DEF Tick, EngineDies, Die, EngineRestarts, Restart, vars, launchLayer
  <2> QED BY <2>1
<1> QED BY <1>1, <1>2, <1>3, <1>4, <1>5 DEF Next

(* A group starts before its launch has a row, so whoever has died by then *)
(* stays dead.                                                             *)
LEMMA DeadStays ==
  ASSUME Inv, [Next]_vars, NEW l \in Launch, pc[l] # "reserved"
  PROVE  /\ ~GroupAlive(l) => ~GroupAlive(l)'
         /\ leader[l] # "alive" => leader'[l] # "alive"
         /\ leader[l] = "gone" => leader'[l] = "gone"
<1>1. GroupsTypeOK
  BY DEF Inv, TypeInv, TypeOK, LaunchTypeOK
<1> QED BY <1>1, GroupEffects, DeadGroups, ZenonT(60)

(* No probe misses. *)
LEMMA NoMiss == MaxMisses = 0 /\ GroupsTypeOK => ~Miss
BY DEF Miss, GroupsTypeOK

LEMMA MissesGrow ==
  ASSUME Inv, [Next]_vars
  PROVE  misses >= 1 => misses' >= 1
<1>1. misses \in Nat
  BY DEF Inv, TypeInv, TypeOK, LaunchTypeOK, GroupsTypeOK
<1>2. UNCHANGED misses \/ Miss
  BY GroupEffects DEF StartGroup, LeaderExit, ChildExit, Reap, ParentDies, Probe, SignalGroup,
     groupVars
<1> QED BY <1>1, <1>2 DEF Miss

(* A candidate newly found dead, by the reconcile or by a kill, has been   *)
(* probed in this step.                                                    *)
LEMMA FoundDead ==
  ASSUME Inv, [Next]_vars, MaxMisses = 0
  PROVE  /\ \A l \in rec'.dead : l \in rec.dead \/ ~GroupAlive(l)'
         /\ \A k \in Killer : kill'[k].pc = "mark" =>
              /\ kill'[k].job = kill[k].job
              /\ kill[k].pc = "mark" \/ ~GroupAlive(kill[k].job)'
<1>t. /\ TypeInv /\ rec \in Reconcile /\ kill \in [Killer -> Kills] /\ reap \in Pass
      /\ GroupsTypeOK
  BY DEF Inv, TypeInv, TypeOK, LaunchTypeOK
<1>m. ~Miss
  BY <1>t, NoMiss
<1>1. \A l \in rec'.dead : l \in rec.dead \/ ~GroupAlive(l)'
  <2>1. CASE UNCHANGED rec
    BY <2>1
  <2>2. CASE ReconcileLock \/ ReconcileQuery \/ ReconcileMark \/ EngineDies \/ EngineRestarts
    <3>1. NoReconcile("off").dead = {} /\ NoReconcile("start").dead = {}
          /\ NoReconcile("done").dead = {}
      BY DEF NoReconcile
    <3>2. [NoReconcile("done") EXCEPT !.alive = rec.alive].dead = {}
      BY DEF NoReconcile
    <3>3. [rec EXCEPT !.pc = "locked", !.live = LiveIds].dead = rec.dead
          /\ [rec EXCEPT !.pc = "probe", !.todo = StaleRunning].dead = rec.dead
      BY <1>t DEF Reconcile
    <3> QED BY <2>2, <3>1, <3>2, <3>3
            DEF ReconcileLock, ReconcileQuery, ReconcileMark, EngineDies, EngineRestarts
  <2>3. ASSUME NEW l \in Launch, ReconcileProbe(l)
        PROVE  \A m \in rec'.dead : m \in rec.dead \/ ~GroupAlive(m)'
    <3>1. PICK alive \in BOOLEAN :
            /\ Probe(l, alive)
            /\ rec' = [rec EXCEPT !.todo = @ \ {l},
                                  !.dead = IF alive THEN @ ELSE @ \cup {l},
                                  !.alive = IF alive THEN @ \cup {l} ELSE @]
      BY <2>3 DEF ReconcileProbe, AskGroup
    <3>2. alive = GroupAlive(l) /\ GroupAlive(l)' = GroupAlive(l)
      BY <1>m, <3>1 DEF Probe, GroupAlive
    <3>3. rec'.dead = IF alive THEN rec.dead ELSE rec.dead \cup {l}
      BY <1>t, <3>1 DEF Reconcile
    <3> QED BY <3>2, <3>3
  <2> QED BY <2>1, <2>2, <2>3
          DEF Next, LaunchNext, ReconcileNext, KillNext, KillJob, KillJobCheck, KillJobTerm,
              KillJobRecheck, KillJobExited, KillJobGraceOver, KillJobForce, KillJobFinal,
              KillPersisted, KillFind, KillProbe, KillTerm, KillPoll, KillLast, KillForce,
              KillVerify, KillMark, ToolKill, CliKill, ReaperPass, ReapStart, ReapKilled,
              ReapDelete, ReapUnlink, OrphanScan, OrphanEnd, ReapKill, ReapAsIs, ReapDrop,
              OrphanRemove, reaperFrame, Tick, vars
<1>2. ASSUME NEW k \in Killer, kill'[k].pc = "mark"
      PROVE  /\ kill'[k].job = kill[k].job
             /\ kill[k].pc = "mark" \/ ~GroupAlive(kill[k].job)'
  <2> DEFINE Goal == /\ kill'[k].job = kill[k].job
                     /\ kill[k].pc = "mark" \/ ~GroupAlive(kill[k].job)'
  <2>1. CASE kill'[k] = kill[k]
    BY <1>2, <2>1
  <2>2. CASE EngineDies
    <3>1. kill'[k] \in {kill[k], NoKill, [NoKill EXCEPT !.pc = "ended"]}
      BY <2>2 DEF EngineDies
    <3>2. NoKill.pc # "mark" /\ [NoKill EXCEPT !.pc = "ended"].pc # "mark"
      BY DEF NoKill
    <3> QED BY <1>2, <3>1, <3>2
  <2>3. ASSUME NEW m \in Killer, KillNext(m), kill'[k] # kill[k] PROVE Goal
    <3>1. m = k
      BY <1>t, <2>3
         DEF KillNext, KillJob, KillJobCheck, KillJobTerm, KillJobRecheck, KillJobExited,
             KillJobGraceOver, KillJobForce, KillJobFinal, KillPersisted, KillFind, KillProbe,
             KillTerm, KillPoll, KillLast, KillForce, KillVerify, KillMark, ToolKill, CliKill,
             Goto, Answer
    <3>2. ASSUME NEW to \in KillPcs, Goto(k, to)
          PROVE  kill'[k].pc = to /\ kill'[k].job = kill[k].job
      BY <1>t, <3>2 DEF Goto, Kills
    <3>3. ~ \E result \in BOOLEAN : Answer(k, result)
      BY <1>2, <1>t DEF Answer, Kills
    <3>4. CASE KillProbe(k) \/ KillPoll(k) \/ KillVerify(k)
      <4>1. PICK alive \in BOOLEAN :
              /\ Probe(kill[k].job, alive)
              /\ IF alive THEN \E to \in {"sigterm", "last"} : Goto(k, to) ELSE Goto(k, "mark")
        BY <3>3, <3>4 DEF KillProbe, KillPoll, KillVerify
      <4>2. ~alive /\ kill'[k].job = kill[k].job
        BY <1>2, <3>2, <4>1 DEF KillPcs
      <4>3. ~GroupAlive(kill[k].job)'
        <5>1. alive = GroupAlive(kill[k].job) /\ UNCHANGED <<leader, child>>
          BY <1>m, <4>1 DEF Probe
        <5> QED BY <4>2, <5>1 DEF GroupAlive
      <4> QED BY <4>2, <4>3
    <3>5. CASE KillTerm(k) \/ KillLast(k) \/ KillForce(k)
      <4>1. \E to \in {"poll", "sigkill", "verify"} : Goto(k, to)
        BY <3>5 DEF KillTerm, KillLast, KillForce
      <4> QED BY <1>2, <3>2, <4>1 DEF KillPcs
    <3>6. CASE KillJob(k)
      <4>1. \E to \in {"term", "recheck", "grace", "kill", "final"} : Goto(k, to)
        BY <3>3, <3>6 DEF KillJob, KillJobCheck, KillJobTerm, KillJobRecheck, KillJobExited,
           KillJobGraceOver, KillJobForce, KillJobFinal
      <4> QED BY <1>2, <3>2, <4>1 DEF KillPcs
    <3>7. ~KillMark(k)
      BY <3>3 DEF KillMark
    <3>8. CASE KillFind(k)
      <4>1. kill' = [kill EXCEPT ![k].pc = "probe", ![k].job = row[kill[k].id].owner]
        BY <3>3, <3>8 DEF KillFind
      <4> QED BY <1>2, <1>t, <4>1 DEF Kills
    <3>9. ASSUME NEW i \in Id, ToolKill(k, i) \/ CliKill(k, i) PROVE FALSE
      <4> DEFINE tool == [NoKill EXCEPT !.pc = IF jobs[i] = None THEN "find" ELSE "check",
                                        !.id = i, !.job = jobs[i]]
                 cli == [NoKill EXCEPT !.pc = "find", !.id = i]
      <4>1. tool.pc # "mark" /\ cli.pc # "mark"
        BY DEF NoKill
      <4>2. kill' = [kill EXCEPT ![k] = tool] \/ kill' = [kill EXCEPT ![k] = cli]
        BY <3>9 DEF ToolKill, CliKill
      <4> HIDE DEF tool, cli
      <4> QED BY <1>2, <1>t, <4>1, <4>2
    <3> QED BY <2>3, <3>1, <3>4, <3>5, <3>6, <3>7, <3>8, <3>9 DEF KillNext, KillPersisted
  <2>4. CASE ReaperPass
    <3>1. ASSUME NEW i \in Id, ReapKill(i) PROVE kill'[k] = kill[k]
      <4> DEFINE kl == [NoKill EXCEPT !.pc = "check", !.id = i, !.job = jobs[i]]
      <4>1. kl.pc # "mark" /\ kill' = [kill EXCEPT ![Reaper] = kl]
        BY <3>1 DEF ReapKill, NoKill
      <4> HIDE DEF kl
      <4> QED BY <1>2, <1>t, <4>1
    <3>2. ReapKilled => kill'[k] = kill[k]
      <4>1. NoKill.pc # "mark"
        BY DEF NoKill
      <4> QED BY <1>2, <1>t, <4>1 DEF ReapKilled
    <3>3. kill'[k] = kill[k]
      BY <2>4, <3>1, <3>2 DEF ReaperPass, ReapStart, ReapDelete, ReapUnlink, OrphanScan,
         OrphanEnd, ReapAsIs, ReapDrop, OrphanRemove
    <3> QED BY <2>1, <3>3
  <2>5. CASE (\E l \in Launch : LaunchNext(l)) \/ ReconcileNext \/ Tick \/ EngineRestarts
               \/ UNCHANGED vars
    <3>1. UNCHANGED kill
      BY <2>5 DEF LaunchNext, ReconcileNext, ReconcileLock, ReconcileQuery, ReconcileProbe,
         ReconcileMark, Tick, EngineRestarts, vars
    <3> QED BY <2>1, <3>1
  <2> QED BY <2>1, <2>2, <2>3, <2>4, <2>5 DEF Next
<1> QED BY <1>1, <1>2

LEMMA DeadStep == MaxMisses = 0 /\ Inv /\ DeadInv /\ [Next]_vars => DeadInv'
<1> SUFFICES ASSUME MaxMisses = 0, Inv, DeadInv, [Next]_vars PROVE DeadInv'
  OBVIOUS
<1>1. ASSUME NEW l \in rec'.dead PROVE ~GroupAlive(l)'
  <2>1. l \in rec.dead => l \in Launch /\ Launched(l) /\ ~GroupAlive(l)
    BY Typed DEF Inv, RecInv, Holds, DeadInv
  <2> QED BY <2>1, FoundDead, DeadStays DEF Launched, Before
<1>2. ASSUME NEW k \in Killer, kill'[k].pc = "mark" PROVE ~GroupAlive(kill[k].job)'
  <2>1. kill'[k].job = kill[k].job
    BY <1>2, FoundDead
  <2>2. CASE kill[k].pc = "mark"
    <3>1. PICK l \in Launch : l = kill[k].job /\ Launched(l) /\ ~GroupAlive(l)
      BY <2>2 DEF Inv, KillInv, Persisted, Holds, DeadInv
    <3>2. ~GroupAlive(l)'
      BY <3>1, DeadStays DEF Launched, Before
    <3> QED BY <2>1, <3>1, <3>2 DEF GroupAlive
  <2>3. CASE kill[k].pc # "mark"
    BY <1>2, <2>3, FoundDead
  <2> QED BY <2>2, <2>3
<1> QED BY <1>1, <1>2 DEF DeadInv

(* A row is turned to `failed`, by a kill or by the reconcile, only when   *)
(* its whole process group is gone, provided every `kill` command can be   *)
(* started and no DELETE of the reaper fails (signal.rs: group_alive,      *)
(* kill_group).                                                            *)
THEOREM DeclaredDeadAreDead ==
  MaxMisses = 0 => (Spec /\ [][DeletesStand]_vars => DeclaredDeadIsDead)
<1> SUFFICES ASSUME MaxMisses = 0 PROVE Spec /\ [][DeletesStand]_vars => DeclaredDeadIsDead
  OBVIOUS
<1>1. Init => Inv /\ DeadInv
  BY InitInv DEF Init, DeadInv, NoReconcile, NoKill
<1>2. Inv /\ DeadInv /\ [Next]_vars => DeadInv'
  BY DeadStep
<1>3. ASSUME Inv, DeadInv, [Next]_vars, NEW i \in Id, row[i].status = "running",
             row'[i].status \in {"killed", "restarted"}
      PROVE  ~GroupAlive(row[i].owner)
  <2>t. row \in [Id -> Rows]
    BY <1>3, Typed DEF Inv
  <2>1. ~UNCHANGED row
    BY <1>3
  <2>2. ASSUME NEW j \in Id PROVE ~Starts(j) /\ ~Exits(j)
    BY <1>3, <2>t DEF Starts, Exits, Rows, RowExists
  <2>3. ASSUME NEW ids \in SUBSET Id PROVE ~Evicts(ids)
    BY <1>3 DEF Evicts, NoRow
  <2>4. CASE ReconcileMark /\ Settles({jid[l] : l \in rec.dead}, "restarted")
    <3>1. PICK l \in rec.dead : jid[l] = i
      BY <1>3, <2>4 DEF Settles
    <3>2. l \in Launch /\ Holds(l) /\ ~GroupAlive(l)
      BY <1>3, Typed DEF RecInv, Inv, DeadInv
    <3>3. row[i].owner = l
      BY <1>3, <3>1, <3>2, HolderOwnsRow DEF RowExists
    <3> QED BY <3>2, <3>3
  <2>5. ASSUME NEW k \in Killer, KillMark(k), Settles({kill[k].id}, "killed")
        PROVE  ~GroupAlive(row[i].owner)
    <3> DEFINE l == kill[k].job
    <3>1. kill[k].pc = "mark" /\ i = kill[k].id
      BY <1>3, <2>5 DEF KillMark, At, Settles
    <3>2. l \in Launch /\ Holds(l) /\ jid[l] = i /\ ~GroupAlive(l)
      BY <1>3, <3>1 DEF Inv, KillInv, Persisted, DeadInv
    <3> HIDE DEF l
    <3>3. row[i].owner = l
      BY <1>3, <3>2, HolderOwnsRow DEF RowExists
    <3> QED BY <3>2, <3>3
  <2> QED BY <1>3, <2>1, <2>2, <2>3, <2>4, <2>5, InvNames, RowSteps
<1>4. Inv /\ DeadInv /\ [Next]_vars =>
        [\A i \in Id : row[i].status = "running" /\ row'[i].status \in {"killed", "restarted"}
                         => ~GroupAlive(row[i].owner)]_vars
  BY <1>3
<1> QED BY <1>1, <1>2, <1>4, StepInv, PTL DEF Spec, DeclaredDeadIsDead

-----------------------------------------------------------------------------
(* What the server forgets, where at most one `kill` command is missing    *)

(* An exit that was recorded is one the waiter collected. *)
GoneInv ==
  \A l \in Launch :
    /\ wpc[l] \in {"reaped", "recorded", "signalled", "finished"} => leader[l] = "gone"
    /\ jstate[l] = "exited" => leader[l] = "gone" /\ Launched(l)

(* The reaper's kill is one of the tracked job it is about to evict, and   *)
(* TRUE means that its leader is dead.  A TERM that was not delivered found*)
(* nobody, or has used up the one miss.                                    *)
ReaperKillInv ==
  reap.pc = "kill" =>
    /\ jobs[reap.cur] # None /\ kill[Reaper].job = jobs[reap.cur]
    /\ kill[Reaper].pc \in {"check", "term", "recheck", "grace", "kill", "final", "ended"}
    /\ kill[Reaper].ok => leader[kill[Reaper].job] # "alive"
    /\ kill[Reaper].pc = "recheck" => leader[kill[Reaper].job] # "alive" \/ misses >= 1

EvictInv ==
  reap.pc \in {"scan", "kill", "drop", "unlink"} =>
    \A i \in reap.evict : jobs[i] # None => leader[jobs[i]] # "alive"

LEMMA GoneStep == Inv /\ GoneInv /\ [Next]_vars => GoneInv'
<1> SUFFICES ASSUME Inv, GoneInv, [Next]_vars, NEW l \in Launch
             PROVE  /\ wpc'[l] \in {"reaped", "recorded", "signalled", "finished"} =>
                         leader'[l] = "gone"
                    /\ jstate'[l] = "exited" => leader'[l] = "gone" /\ Launched(l)'
  BY DEF GoneInv
<1>t. /\ TypeInv /\ leader \in [Launch -> LeaderStates] /\ wpc \in [Launch -> WaiterPcs]
      /\ jstate \in [Launch -> {"running", "exited"}]
  BY DEF Inv, TypeInv, TypeOK, LaunchTypeOK, GroupsTypeOK
<1>l. wpc[l] # "none" => Launched(l)
  BY DEF Inv, LaunchInv, LaunchOK
<1>1. Launched(l) => /\ Launched(l)'
                     /\ leader[l] = "gone" => leader'[l] = "gone"
  BY InvNames, LaunchMoves, DeadStays DEF Launched, Before
<1>2. \/ wpc'[l] \in {wpc[l], "none", "waiting"} /\ jstate'[l] = jstate[l]
      \/ WaiterReap(l)
      \/ /\ wpc[l] \in {"reaped", "recorded", "signalled"}
         /\ wpc'[l] \in {"recorded", "signalled", "finished"}
  <2>1. CASE UNCHANGED waiterVars
    BY <2>1 DEF waiterVars
  <2>2. CASE EngineDies
    BY <2>2 DEF EngineDies, Die
  <2>3. ASSUME NEW m \in Launch, Persist(m) \/ WaiterSteps(m)
        PROVE  \/ wpc'[l] \in {wpc[l], "none", "waiting"} /\ jstate'[l] = jstate[l]
               \/ WaiterReap(l)
               \/ /\ wpc[l] \in {"reaped", "recorded", "signalled"}
                  /\ wpc'[l] \in {"recorded", "signalled", "finished"}
    BY <1>t, <2>3 DEF Persist, WaiterSteps, WaiterReap, WaiterRecord, WaiterSignal,
       WaiterFinish, WaiterStep
  <2>4. ASSUME NEW m \in Launch, LaunchNext(m), ~Persist(m), ~WaiterSteps(m)
        PROVE  UNCHANGED waiterVars
    BY <2>4 DEF LaunchNext, RunSteps, Reserve, Spawn, SpawnFails, Track, Return, GroupRuns, Write
  <2>5. ASSUME NEW k \in Killer, KillNext(k) PROVE UNCHANGED waiterVars
    BY <2>5 DEF KillNext, KillJob, KillJobCheck, KillJobTerm, KillJobRecheck, KillJobExited,
       KillJobGraceOver, KillJobForce, KillJobFinal, KillPersisted, KillFind, KillProbe,
       KillTerm, KillPoll, KillLast, KillForce, KillVerify, KillMark, ToolKill, CliKill,
       launchLayer
  <2>6. CASE ReconcileNext \/ ReaperPass \/ Tick \/ EngineRestarts \/ UNCHANGED vars
    <3>1. UNCHANGED waiterVars
      BY <2>6 DEF ReconcileNext, ReconcileLock, ReconcileQuery, ReconcileProbe, ReconcileMark,
         ReaperPass, ReapStart, ReapKilled, ReapDelete, ReapUnlink, OrphanScan, OrphanEnd,
         ReapKill, ReapAsIs, ReapDrop, OrphanRemove, reaperFrame, Tick, EngineRestarts, Restart,
         vars, launchLayer
    <3> QED BY <2>1, <3>1
  <2> QED BY <2>1, <2>2, <2>3, <2>4, <2>5, <2>6 DEF Next
<1>3. CASE WaiterReap(l)
  <2>1. leader'[l] = "gone" /\ Launched(l)'
    BY <1>t, <1>l, <1>1, <1>3 DEF WaiterReap, WaiterStep, Reap
  <2> QED BY <2>1
<1>4. CASE wpc'[l] \in {wpc[l], "none", "waiting"} /\ jstate'[l] = jstate[l]
  BY <1>l, <1>1, <1>4 DEF GoneInv
<1>5. CASE wpc[l] \in {"reaped", "recorded", "signalled"}
  BY <1>l, <1>1, <1>5 DEF GoneInv
<1> QED BY <1>2, <1>3, <1>4, <1>5

(* A tracked launch has left its reservation behind. *)
LEMMA TrackedNotReserved ==
  ASSUME Inv, NEW i \in Id, jobs[i] # None, RowExists(i) \/ Evicting(i)
  PROVE  jobs[i] \in Launch /\ pc[jobs[i]] # "reserved"
<1>1. MapOK(i) /\ jobs[i] \in Launch /\ (RowExists(i) => RowOK(i))
  BY Typed DEF Inv, MapInv, RowInv
<1>2. CASE RowExists(i)
  BY <1>1, <1>2 DEF MapOK, Inv, LaunchInv, LaunchOK, Pending, Before
<1>3. CASE Evicting(i)
  BY <1>1, <1>3 DEF MapOK, Inv, ReapInv, Pending, Before
<1> QED BY <1>2, <1>3

(* A launch that is about to be tracked has no row yet, so the ids a pass  *)
(* is about to evict keep their map entry until it drops it.               *)
LEMMA EntriesStay ==
  ASSUME Inv, [Next]_vars, ~ReaperPass, NEW i \in Id, RowExists(i) \/ Evicting(i)
  PROVE  jobs'[i] = jobs[i] \/ (jobs'[i] = None /\ EngineDies)
<1>t. jobs \in [Id -> Launch \cup {None}]
  BY Typed DEF Inv
<1>1. ASSUME NEW l \in Launch, LaunchNext(l) PROVE jobs'[i] = jobs[i]
  <2>1. CASE Track(l)
    <3>1. jid[l] # i
      BY <2>1 DEF Track, Step, Inv, LaunchInv, LaunchOK, ReapInv, Pending, Before
    <3> QED BY <1>t, <2>1, <3>1 DEF Track
  <2>2. CASE ~Track(l)
    BY <1>1, <2>2 DEF LaunchNext, RunSteps, Reserve, Spawn, SpawnFails, Persist, Return,
       WaiterSteps, WaiterReap, WaiterRecord, WaiterSignal, WaiterFinish, GroupRuns, Write,
       storeVars
  <2> QED BY <2>1, <2>2
<1>2. ASSUME NEW k \in Killer, KillNext(k) PROVE jobs'[i] = jobs[i]
  BY <1>2 DEF KillNext, KillJob, KillJobCheck, KillJobTerm, KillJobRecheck, KillJobExited,
     KillJobGraceOver, KillJobForce, KillJobFinal, KillPersisted, KillFind, KillProbe,
     KillTerm, KillPoll, KillLast, KillForce, KillVerify, KillMark, ToolKill, CliKill,
     launchLayer, storeVars
<1>3. CASE ReconcileNext \/ Tick \/ EngineRestarts \/ UNCHANGED vars
  BY <1>3 DEF ReconcileNext, ReconcileLock, ReconcileQuery, ReconcileProbe, ReconcileMark,
     Tick, EngineRestarts, Restart, vars, launchLayer, storeVars
<1>4. CASE EngineDies
  BY <1>4 DEF EngineDies, Die
<1> QED BY <1>1, <1>2, <1>3, <1>4 DEF Next

(* The pass moves with the reaper, or ends with the server. *)
LEMMA PassStays ==
  ASSUME [Next]_vars, ~ReaperPass
  PROVE  UNCHANGED reap \/ reap'.pc \in {"off", "idle"}
<1>1. NoPass("off").pc = "off" /\ NoPass("idle").pc = "idle"
  BY DEF NoPass
<1>2. ASSUME NEW k \in Killer, KillNext(k) PROVE UNCHANGED reap
  BY <1>2 DEF KillNext, KillJob, KillJobCheck, KillJobTerm, KillJobRecheck, KillJobExited,
     KillJobGraceOver, KillJobForce, KillJobFinal, KillPersisted, KillFind, KillProbe,
     KillTerm, KillPoll, KillLast, KillForce, KillVerify, KillMark, ToolKill, CliKill
<1> QED BY <1>1, <1>2 DEF Next, LaunchNext, ReconcileNext, ReconcileLock, ReconcileQuery,
           ReconcileProbe, ReconcileMark, Tick, EngineDies, EngineRestarts, vars

ForgetInv == WaiterInv /\ GoneInv /\ ReaperKillInv /\ EvictInv

LEMMA EvictStep ==
  ASSUME Inv, ForgetInv, [Next]_vars
  PROVE  EvictInv'
<1>t. /\ TypeInv /\ reap \in Pass /\ jobs \in [Id -> Launch \cup {None}]
      /\ jstate \in [Launch -> {"running", "exited"}] /\ reap.evict \subseteq Id
  BY Typed DEF Inv, TypeInv, TypeOK, LaunchTypeOK
<1>1. CASE ~ReaperPass
  <2> SUFFICES ASSUME reap'.pc \in {"scan", "kill", "drop", "unlink"},
                      NEW i \in reap'.evict, jobs'[i] # None
               PROVE  leader'[jobs'[i]] # "alive"
    BY DEF EvictInv
  <2>1. reap' = reap
    BY <1>1, PassStays
  <2>2. i \in Id /\ (RowExists(i) \/ Evicting(i))
    BY <1>t, <2>1 DEF Inv, ReapInv, Evicting
  <2>3. jobs'[i] = jobs[i]
    BY <1>1, <2>2, EntriesStay
  <2>4. PICK l \in Launch : l = jobs[i] /\ pc[l] # "reserved" /\ leader[l] # "alive"
    BY <2>1, <2>2, <2>3, TrackedNotReserved DEF ForgetInv, EvictInv
  <2>5. leader'[l] # "alive"
    BY <2>4, DeadStays
  <2> QED BY <2>3, <2>4, <2>5
<1>2. CASE ReaperPass
  <2>1. UNCHANGED leader /\ \A i \in Id : jobs'[i] \in {jobs[i], None}
    BY <1>t, <1>2 DEF ReaperPass, ReapStart, ReapKilled, ReapDelete, ReapUnlink, OrphanScan,
       OrphanEnd, ReapKill, ReapAsIs, ReapDrop, OrphanRemove, reaperFrame, groupVars, storeVars
  <2>2. ASSUME NEW i \in Id, i \in reap'.evict, i \notin reap.evict, jobs[i] # None
        PROVE  leader[jobs[i]] # "alive"
    <3>1. CASE ReapKilled
      <4>1. reap.pc = "kill" /\ i = reap.cur /\ MayEvict(Reaper)
        BY <1>t, <2>2, <3>1 DEF ReapKilled, Pass
      <4>2. kill[Reaper].job = jobs[i] /\ (kill[Reaper].ok => leader[jobs[i]] # "alive")
        BY <4>1 DEF ForgetInv, ReaperKillInv
      <4> QED BY <1>t, <2>2, <4>1, <4>2 DEF MayEvict, ForgetInv, GoneInv
    <3>2. CASE ReapAsIs(i)
      BY <1>t, <2>2, <3>2 DEF ReapAsIs, TrackedRunning, ForgetInv, GoneInv
    <3>3. ASSUME NEW j \in Id, j # i, ReapAsIs(j) PROVE FALSE
      BY <1>t, <2>2, <3>3 DEF ReapAsIs, Pass
    <3>4. ASSUME NEW j \in Id, ReapKill(j) \/ ReapDrop(j) \/ OrphanRemove(j) PROVE FALSE
      BY <1>t, <2>2, <3>4 DEF ReapKill, ReapDrop, OrphanRemove, Pass
    <3>5. ~(ReapStart \/ ReapDelete \/ OrphanScan \/ OrphanEnd)
      BY <1>t, <2>2 DEF ReapStart, ReapDelete, OrphanScan, OrphanEnd, ToOrphans, NoPass, Pass
    <3>6. ~ReapUnlink
      <4> SUFFICES ASSUME ReapUnlink PROVE FALSE
        OBVIOUS
      <4>1. NoPass("orphans").evict = {}
        BY DEF NoPass
      <4>2. [reap EXCEPT !.pc = "drop", !.evict = @ \ {reap.cur}, !.cur = None].evict
              = reap.evict \ {reap.cur}
        BY <1>t DEF Pass
      <4> QED BY <2>2, <4>1, <4>2 DEF ReapUnlink, ToOrphans
    <3> QED BY <1>2, <3>1, <3>2, <3>3, <3>4, <3>5, <3>6 DEF ReaperPass
  <2>3. reap'.pc \in {"scan", "kill", "drop", "unlink"} =>
          reap.pc \in {"scan", "kill", "drop", "unlink"} \/ reap'.evict = {}
    <3>1. CASE ReapStart \/ OrphanScan \/ OrphanEnd
      BY <3>1 DEF ReapStart, OrphanScan, OrphanEnd, ToOrphans, NoPass
    <3>2. CASE ReapKilled \/ ReapDelete \/ ReapUnlink
      BY <3>2 DEF ReapKilled, ReapDelete, ReapUnlink
    <3>3. ASSUME NEW i \in Id, ReapKill(i) \/ ReapAsIs(i) \/ ReapDrop(i)
          PROVE  reap.pc \in {"scan", "kill", "drop", "unlink"}
      BY <3>3 DEF ReapKill, ReapAsIs, ReapDrop
    <3>4. ASSUME NEW i \in Id, OrphanRemove(i) PROVE reap' = reap
      BY <3>4 DEF OrphanRemove
    <3> QED BY <1>2, <3>1, <3>2, <3>3, <3>4 DEF ReaperPass
  <2>4. reap' \in Pass
    BY TypeStep DEF Inv, TypeInv, TypeOK
  <2>5. reap'.evict \subseteq Id
    BY <2>4 DEF Pass
  <2> QED BY <2>1, <2>2, <2>3, <2>5 DEF ForgetInv, EvictInv
<1> QED BY <1>1, <1>2

(* kill_job's answers: TRUE when a delivered KILL, a probe or the waiter   *)
(* says that the leader is dead.                                           *)
LEMMA KillJobAnswers ==
  ASSUME Inv, ForgetInv, MaxMisses <= 1, KillJob(Reaper), reap.pc = "kill",
         kill'[Reaper].ok
  PROVE  kill[Reaper].ok \/ leader'[kill[Reaper].job] # "alive"
<1>t. /\ TypeInv /\ kill \in [Killer -> Kills] /\ GroupsTypeOK
      /\ leader \in [Launch -> LeaderStates] /\ jstate \in [Launch -> {"running", "exited"}]
      /\ Reaper \in Killer
  BY DEF Inv, TypeInv, TypeOK, LaunchTypeOK, GroupsTypeOK, Killer
<1>1. PICK l \in Launch : l = kill[Reaper].job
  <2>1. reap.cur \in Id
    BY <1>t, Typed
  <2> QED BY <1>t, <2>1, Typed DEF ForgetInv, ReaperKillInv
<1>2. ASSUME NEW to \in KillPcs, Goto(Reaper, to) PROVE kill'[Reaper].ok = kill[Reaper].ok
  BY <1>t, <1>2 DEF Goto, Kills
<1>3. ASSUME NEW result \in BOOLEAN, Answer(Reaper, result) PROVE result
  BY <1>3, <1>t DEF Answer, Kills
<1>4. CASE KillJobCheck(Reaper)
  BY <1>2, <1>3, <1>4 DEF KillJobCheck, KillPcs
<1>5. CASE KillJobTerm(Reaper)
  BY <1>2, <1>5 DEF KillJobTerm, KillPcs
<1>6. CASE KillJobRecheck(Reaper)
  <2>1. PICK alive \in BOOLEAN : Probe(l, alive) /\ Answer(Reaper, ~alive)
    BY <1>1, <1>6 DEF KillJobRecheck
  <2>2. ~alive
    BY <1>3, <2>1
  <2>3. CASE leader[l] # "alive"
    BY <1>1, <2>1, <2>3 DEF Probe
  <2>4. CASE misses >= 1
    <3>1. ~Miss
      BY <1>t, <2>4, GroupConstants DEF Miss, GroupsTypeOK
    <3> QED BY <1>1, <2>1, <2>2, <3>1 DEF Probe, GroupAlive
  <2>5. kill[Reaper].pc = "recheck"
    BY <1>6 DEF KillJobRecheck, At
  <2> QED BY <1>1, <2>3, <2>4, <2>5 DEF ForgetInv, ReaperKillInv
<1>7. CASE KillJobExited(Reaper)
  <2>1. leader[l] = "gone" /\ UNCHANGED leader
    BY <1>1, <1>7 DEF KillJobExited, ForgetInv, WaiterInv, GoneInv, launchLayer, groupVars
  <2> QED BY <1>1, <2>1
<1>8. CASE KillJobGraceOver(Reaper)
  BY <1>2, <1>8 DEF KillJobGraceOver, KillPcs
<1>9. CASE KillJobForce(Reaper)
  <2>1. PICK delivered \in BOOLEAN :
          /\ SignalGroup(l, "KILL", Parented(l), delivered)
          /\ IF delivered THEN Answer(Reaper, TRUE) ELSE Goto(Reaper, "final")
    BY <1>1, <1>9 DEF KillJobForce
  <2>2. CASE ~delivered
    BY <1>2, <2>1, <2>2 DEF KillPcs
  <2>3. CASE delivered
    <3>1. Signalled(l, "KILL", Parented(l))
      BY <2>1, <2>3 DEF SignalGroup
    <3>2. leader'[l] # "alive"
      BY <1>t, <3>1 DEF Signalled, Dead, LeaderStates
    <3> QED BY <1>1, <3>2
  <2> QED BY <2>2, <2>3
<1>10. CASE KillJobFinal(Reaper)
  <2>1. jstate[l] # "running" /\ UNCHANGED leader
    BY <1>1, <1>3, <1>10 DEF KillJobFinal, launchLayer, groupVars
  <2>2. leader[l] = "gone"
    BY <1>t, <2>1 DEF ForgetInv, GoneInv
  <2> QED BY <1>1, <2>1, <2>2
<1> QED BY <1>4, <1>5, <1>6, <1>7, <1>8, <1>9, <1>10 DEF KillJob

LEMMA ReaperKillStep ==
  ASSUME Inv, ForgetInv, MaxMisses <= 1, [Next]_vars
  PROVE  ReaperKillInv'
<1>t. /\ TypeInv /\ reap \in Pass /\ kill \in [Killer -> Kills] /\ Reaper \in Killer
  BY DEF Inv, TypeInv, TypeOK, Killer
<1>1. CASE ReaperPass
  <2>1. ASSUME NEW i \in Id, ReapKill(i) PROVE ReaperKillInv'
    <3> DEFINE kl == [NoKill EXCEPT !.pc = "check", !.id = i, !.job = jobs[i]]
    <3>1. kl.pc = "check" /\ kl.job = jobs[i] /\ kl.ok = FALSE
      BY DEF NoKill
    <3>2. kill'[Reaper] = kl
      BY <1>t, <2>1 DEF ReapKill
    <3> HIDE DEF kl
    <3>3. reap'.cur = i /\ jobs'[i] = jobs[i] /\ jobs[i] # None
      BY <1>t, <2>1 DEF ReapKill, Pass, storeVars, TrackedRunning
    <3> QED BY <3>1, <3>2, <3>3 DEF ReaperKillInv
  <2>2. (\A i \in Id : ~ReapKill(i)) => reap'.pc # "kill"
    <3>1. CASE ReapStart \/ OrphanScan \/ OrphanEnd
      BY <3>1 DEF ReapStart, OrphanScan, OrphanEnd, ToOrphans, NoPass
    <3>2. CASE ReapKilled \/ ReapDelete \/ ReapUnlink
      <4>1. NoPass("orphans").pc = "orphans"
        BY DEF NoPass
      <4>2. ReapKilled => reap'.pc = "scan"
        BY <1>t DEF ReapKilled, Pass
      <4>3. ReapDelete => reap'.pc \in {"orphans", "drop"}
        BY <1>t, <4>1 DEF ReapDelete, ToOrphans, Pass
      <4>4. [reap EXCEPT !.pc = "drop", !.evict = @ \ {reap.cur}, !.cur = None].pc = "drop"
        BY <1>t DEF Pass
      <4>5. ReapUnlink => reap'.pc \in {"orphans", "drop"}
        BY <4>1, <4>4 DEF ReapUnlink, ToOrphans
      <4> QED BY <3>2, <4>2, <4>3, <4>5
    <3>3. ASSUME NEW i \in Id, ReapAsIs(i) \/ ReapDrop(i) \/ OrphanRemove(i)
          PROVE  reap'.pc # "kill"
      BY <1>t, <3>3 DEF ReapAsIs, ReapDrop, OrphanRemove, Pass
    <3> QED BY <1>1, <3>1, <3>2, <3>3 DEF ReaperPass
  <2> QED BY <2>1, <2>2 DEF ReaperKillInv
<1>2. CASE ~ReaperPass
  <2> SUFFICES ASSUME reap'.pc = "kill" PROVE ReaperKillInv'
    BY DEF ReaperKillInv
  <2>1. reap' = reap /\ reap.pc = "kill"
    BY <1>2, PassStays
  <2>2. reap.cur \in Id /\ RowExists(reap.cur)
    BY <1>t, <2>1, Typed DEF Inv, ReapInv
  <2>3. ~EngineDies
    <3>1. NoPass("off").pc = "off"
      BY DEF NoPass
    <3> QED BY <2>1, <3>1 DEF EngineDies
  <2>4. jobs'[reap.cur] = jobs[reap.cur]
    BY <1>2, <2>2, <2>3, EntriesStay
  <2>5. PICK l \in Launch : l = jobs[reap.cur] /\ l = kill[Reaper].job /\ pc[l] # "reserved"
    BY <2>1, <2>2, TrackedNotReserved DEF ForgetInv, ReaperKillInv
  <2>6. leader[l] # "alive" => leader'[l] # "alive"
    BY <2>5, DeadStays
  <2>7. CASE kill'[Reaper] = kill[Reaper]
    <3>1. kill[Reaper].pc = "recheck" => leader'[l] # "alive" \/ misses' >= 1
      BY <1>t, <2>1, <2>5, <2>6, MissesGrow DEF ForgetInv, ReaperKillInv
    <3> QED BY <2>1, <2>4, <2>5, <2>6, <2>7, <3>1 DEF ForgetInv, ReaperKillInv
  <2>8. CASE KillJob(Reaper)
    <3>1. /\ kill'[Reaper].job = kill[Reaper].job
          /\ kill'[Reaper].pc \in {"check", "term", "recheck", "grace", "kill", "final", "ended"}
      <4>1. \/ \E to \in {"term", "recheck", "grace", "kill", "final"} : Goto(Reaper, to)
            \/ \E result \in BOOLEAN : Answer(Reaper, result)
        BY <2>8 DEF KillJob, KillJobCheck, KillJobTerm, KillJobRecheck, KillJobExited,
           KillJobGraceOver, KillJobForce, KillJobFinal
      <4> QED BY <1>t, <4>1 DEF Goto, Answer, Kills
    <3>2. kill'[Reaper].ok => leader'[l] # "alive"
      BY <2>1, <2>5, <2>6, <2>8, KillJobAnswers DEF ForgetInv, ReaperKillInv
    <3>3. kill'[Reaper].pc = "recheck" => leader'[l] # "alive" \/ misses' >= 1
      <4> SUFFICES ASSUME kill'[Reaper].pc = "recheck"
                   PROVE  leader'[l] # "alive" \/ misses' >= 1
        OBVIOUS
      <4>1. ASSUME NEW to \in KillPcs, Goto(Reaper, to) PROVE to = "recheck"
        BY <1>t, <4>1 DEF Goto, Kills
      <4>2. ~ \E result \in BOOLEAN : Answer(Reaper, result)
        BY <1>t DEF Answer, Kills
      <4>3. KillJobTerm(Reaper)
        BY <2>8, <4>1, <4>2 DEF KillJob, KillJobCheck, KillJobRecheck, KillJobExited,
           KillJobGraceOver, KillJobForce, KillJobFinal, KillPcs
      <4>4. PICK delivered \in BOOLEAN :
              /\ SignalGroup(l, "TERM", Parented(l), delivered)
              /\ Goto(Reaper, IF delivered THEN "grace" ELSE "recheck")
        BY <2>5, <4>3 DEF KillJobTerm
      <4>5. ~delivered
        BY <4>1, <4>4 DEF KillPcs
      <4>6. \/ ~GroupAlive(l) /\ UNCHANGED groupVars
            \/ Miss
        BY <4>4, <4>5 DEF SignalGroup
      <4>7. misses \in Nat
        BY <1>t DEF TypeInv, TypeOK, LaunchTypeOK, GroupsTypeOK
      <4> QED BY <4>6, <4>7 DEF GroupAlive, groupVars, Miss
    <3> QED BY <2>1, <2>4, <2>5, <3>1, <3>2, <3>3 DEF ForgetInv, ReaperKillInv
  <2>9. ASSUME NEW k \in Killer, KillNext(k), ~KillJob(Reaper) PROVE kill'[Reaper] = kill[Reaper]
    <3>1. CASE k # Reaper
      BY <1>t, <2>9, <3>1
         DEF KillNext, KillJob, KillJobCheck, KillJobTerm, KillJobRecheck, KillJobExited,
             KillJobGraceOver, KillJobForce, KillJobFinal, KillPersisted, KillFind, KillProbe,
             KillTerm, KillPoll, KillLast, KillForce, KillVerify, KillMark, ToolKill, CliKill,
             Goto, Answer
    <3>2. CASE k = Reaper
      <4>1. kill[Reaper].pc \in {"check", "term", "recheck", "grace", "kill", "final", "ended"}
        BY <2>1 DEF ForgetInv, ReaperKillInv
      <4>2. ~KillPersisted(Reaper)
        BY <4>1 DEF KillPersisted, KillFind, KillProbe, KillTerm, KillPoll, KillLast, KillForce,
           KillVerify, KillMark, At
      <4>3. \A i \in Id : ~ToolKill(Reaper, i) /\ ~CliKill(Reaper, i)
        BY EngineConstants DEF ToolKill, CliKill
      <4> QED BY <2>9, <3>2, <4>2, <4>3 DEF KillNext
    <3> QED BY <3>1, <3>2
  <2>10. CASE (\E m \in Launch : LaunchNext(m)) \/ ReconcileNext \/ Tick \/ EngineRestarts
                \/ UNCHANGED vars
    <3>1. UNCHANGED kill
      BY <2>10 DEF LaunchNext, ReconcileNext, ReconcileLock, ReconcileQuery, ReconcileProbe,
         ReconcileMark, Tick, EngineRestarts, vars
    <3> QED BY <2>7, <3>1
  <2> QED BY <1>2, <2>3, <2>7, <2>8, <2>9, <2>10 DEF Next
<1> QED BY <1>1, <1>2

(* A step in which a statement fails adds it to `faults`, so as long as no *)
(* INSERT or DELETE is in there, none has failed in any step before.       *)
LEMMA FaultsGrow == [Next]_vars => Ok \/ \E kind \in Statements : Fault(kind)
<1> SUFFICES ASSUME [Next]_vars PROVE Ok \/ \E kind \in Statements : Fault(kind)
  OBVIOUS
<1> USE DEF Ok, Statements, storeVars
<1>1. ASSUME NEW l \in Launch, LaunchNext(l)
      PROVE  Ok \/ \E kind \in Statements : Fault(kind)
  BY <1>1 DEF LaunchNext, RunSteps, Reserve, Spawn, SpawnFails, Track, Persist, Return,
     InsertRunning, WaiterSteps, WaiterReap, WaiterRecord, WaiterSignal, WaiterFinish, Finish,
     GroupRuns, Write
<1>2. CASE ReconcileNext
  BY <1>2 DEF ReconcileNext, ReconcileLock, ReconcileQuery, ReconcileProbe, ReconcileMark,
     FailIfRunning, ForEach
<1>3. ASSUME NEW k \in Killer, KillNext(k)
      PROVE  Ok \/ \E kind \in Statements : Fault(kind)
  BY <1>3 DEF KillNext, KillJob, KillJobCheck, KillJobTerm, KillJobRecheck, KillJobExited,
     KillJobGraceOver, KillJobForce, KillJobFinal, KillPersisted, KillFind, KillProbe, KillTerm,
     KillPoll, KillLast, KillForce, KillVerify, KillMark, ToolKill, CliKill, launchLayer,
     FailIfRunning, ForEach
<1>4. CASE ReaperPass
  BY <1>4 DEF ReaperPass, ReapStart, ReapKilled, ReapDelete, ReapUnlink, OrphanScan, OrphanEnd,
     ReapKill, ReapAsIs, ReapDrop, OrphanRemove, DeleteRows, ForEach
<1>5. CASE Tick \/ EngineDies \/ EngineRestarts \/ UNCHANGED vars
  BY <1>5 DEF Tick, EngineDies, Die, EngineRestarts, Restart, vars, launchLayer
<1> QED BY <1>1, <1>2, <1>3, <1>4, <1>5 DEF Next

LEMMA WrittenBefore ==
  ASSUME TypeInv, [Next]_vars, RowsWritten'
  PROVE  RowsWritten /\ WritesStand
<1>1. faults \in Seq(Statements)
  BY DEF TypeInv, TypeOK, LaunchTypeOK
<1>2. RowsWritten
  <2>1. CASE Ok
    BY <2>1 DEF Ok, RowsWritten
  <2>2. ASSUME NEW kind \in Statements, Fault(kind), NEW n \in DOMAIN faults
        PROVE  n \in DOMAIN faults' /\ faults'[n] = faults[n]
    BY <1>1, <2>2 DEF Fault
  <2> QED BY <2>1, <2>2, FaultsGrow DEF RowsWritten
<1>3. ~Fault("rows")
  <2> SUFFICES ASSUME Fault("rows") PROVE FALSE
    OBVIOUS
  <2>1. Len(faults') \in DOMAIN faults' /\ faults'[Len(faults')] = "rows"
    BY <1>1 DEF Fault, Statements
  <2> QED BY <2>1 DEF RowsWritten
<1>4. WritesStand
  BY <1>3 DEF WritesStand, InsertsStand, DeletesStand, Persist, InsertRunning, ReapDelete,
     DeleteRows, ForEach, Ok
<1> QED BY <1>2, <1>4

(* A running server forgets a job it tracks only once the job's leader is  *)
(* dead, as long as no INSERT and no DELETE has failed, provided at most   *)
(* one `kill` command cannot be started (reap_once: a job whose kill       *)
(* failed keeps its map entry, and its row and log).                       *)
THEOREM ForgetsOnlyDead == MaxMisses <= 1 => (Spec => ForgetsOnlyDeadLeaders)
<1> SUFFICES ASSUME MaxMisses <= 1 PROVE Spec => ForgetsOnlyDeadLeaders
  OBVIOUS
<1> DEFINE SoFar == RowsWritten => Inv /\ EntriesInv /\ ForgetInv
<1>1. Init => Inv /\ EntriesInv /\ ForgetInv
  BY InitInv, WaiterInit
     DEF EntriesInv, Init, LaunchInit, NoPass, ForgetInv, GoneInv, ReaperKillInv, EvictInv
<1>2. Inv /\ ForgetInv /\ [Next]_vars => ForgetInv'
  BY WaiterInvStep, GoneStep, ReaperKillStep, EvictStep DEF ForgetInv, Inv
<1>e. Inv /\ EntriesInv /\ [Next]_vars /\ WritesStand => Inv' /\ EntriesInv'
  BY StepInv, EntriesStep DEF WritesStand
<1>3. ASSUME Inv, EntriesInv, ForgetInv, [Next]_vars, NEW i \in Id, up', jobs[i] # None, jobs'[i] # jobs[i]
      PROVE  leader[jobs[i]] # "alive"
  <2>t. jobs \in [Id -> Launch \cup {None}] /\ reap \in Pass
    BY <1>3, Typed DEF Inv, TypeInv, TypeOK
  <2>1. ~EngineDies
    BY <1>3 DEF EngineDies, Die
  <2>2. CASE ReaperPass
    <3>1. ReapDrop(i)
      BY <1>3, <2>t, <2>2 DEF ReaperPass, ReapStart, ReapKilled, ReapDelete, ReapUnlink,
         OrphanScan, OrphanEnd, ReapKill, ReapAsIs, ReapDrop, OrphanRemove, storeVars
    <3> QED BY <1>3, <3>1 DEF ReapDrop, ForgetInv, EvictInv
  <2>3. CASE ~ReaperPass
    <3>1. ~(RowExists(i) \/ Evicting(i))
      BY <1>3, <2>1, <2>3, EntriesStay
    <3>2. pc[jobs[i]] = "tracked" /\ jobs[i] \in Launch /\ log[i].owner = jobs[i]
      BY <1>3, <2>t, <3>1 DEF EntriesInv, EntryOK
    <3>3. ASSUME NEW l \in Launch, Track(l) PROVE jid[l] # i
      BY <1>3, <3>2, <3>3 DEF Track, Step, Inv, LaunchInv, LaunchOK, Pending, Before
    <3>4. ASSUME NEW l \in Launch, LaunchNext(l) PROVE jobs'[i] = jobs[i]
      BY <2>t, <3>3, <3>4 DEF LaunchNext, RunSteps, Reserve, Spawn, SpawnFails, Track, Persist,
         Return, WaiterSteps, WaiterReap, WaiterRecord, WaiterSignal, WaiterFinish, GroupRuns,
         Write, storeVars
    <3>5. ASSUME NEW k \in Killer, KillNext(k) PROVE jobs'[i] = jobs[i]
      BY <3>5 DEF KillNext, KillJob, KillJobCheck, KillJobTerm, KillJobRecheck, KillJobExited,
         KillJobGraceOver, KillJobForce, KillJobFinal, KillPersisted, KillFind, KillProbe,
         KillTerm, KillPoll, KillLast, KillForce, KillVerify, KillMark, ToolKill, CliKill,
         launchLayer, storeVars
    <3>6. ReconcileNext \/ Tick \/ EngineRestarts \/ UNCHANGED vars => jobs' = jobs
      BY DEF ReconcileNext, ReconcileLock, ReconcileQuery, ReconcileProbe, ReconcileMark, Tick,
         EngineRestarts, Restart, vars, launchLayer, storeVars
    <3> QED BY <1>3, <2>1, <2>3, <3>4, <3>5, <3>6 DEF Next
  <2> QED BY <2>2, <2>3
<1>4. TypeInv /\ SoFar /\ [Next]_vars => SoFar'
  BY <1>2, <1>e, WrittenBefore
<1>5. TypeInv /\ SoFar /\ [Next]_vars =>
        [RowsWritten' =>
           \A i \in Id :
             up' /\ jobs[i] # None /\ jobs'[i] # jobs[i] => leader[jobs[i]] # "alive"]_vars
  BY <1>3, WrittenBefore
<1>6. Init => TypeInv /\ SoFar
  BY <1>1, TypeInit
<1>7. TypeInv /\ [Next]_vars => TypeInv'
  BY TypeStep
<1> QED BY <1>4, <1>5, <1>6, <1>7, PTL DEF Spec, ForgetsOnlyDeadLeaders

=============================================================================
