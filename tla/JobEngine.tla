------------------------------- MODULE JobEngine -------------------------------
(***************************************************************************)
(* The whole job engine: launches and their waiters (JobLaunch), with the  *)
(* three other tasks that touch the same rows, map, logs and groups:       *)
(*   - the startup reconcile (src/jobs/mod.rs),                            *)
(*   - kills, from the `job` tool or from the `mcp-ssh job kill` CLI, a    *)
(*     process of its own on the same database (src/jobs/signal.rs),       *)
(*   - the reaper's pass: eviction and the orphan sweep                    *)
(*     (src/jobs/reaper.rs).                                               *)
(* Every await that another task can run in ends a step.                   *)
(***************************************************************************)
EXTENDS JobLaunch

CONSTANTS
  ToolKiller,  \* calls of job(action="kill") on the server
  CliKiller,   \* runs of `mcp-ssh job kill`
  Reaper,      \* the reaper task, which kills too
  Retention    \* RETENTION_SECS, in ticks

ASSUME EngineConstants ==
  /\ ToolKiller \cap CliKiller = {}
  /\ Reaper \notin ToolKiller \cup CliKiller
  /\ Retention \in Nat

Killer == ToolKiller \cup CliKiller \cup {Reaper}

VARIABLES
  rec,    \* the startup reconcile
  kill,   \* kill[k]: a kill in progress
  reap    \* the reaper's pass

vars == <<launchLayer, rec, kill, reap>>

(* live: the ids it excludes; todo: candidates, by the group their row     *)
(* names; dead and alive: what their groups answered (it only logs alive). *)
Reconcile == [pc : {"off", "start", "locked", "probe", "done"}, live : SUBSET Id,
              todo : SUBSET Launch, dead : SUBSET Launch, alive : SUBSET Launch]

KillPcs == {"idle", "check", "term", "recheck", "grace", "kill", "final",
            "find", "probe", "sigterm", "poll", "last", "sigkill", "verify", "mark", "ended"}

(* job: whose group is signalled, from the cloned `Job` or from the row. *)
Kills == [pc : KillPcs, id : Id \cup {None}, job : Launch \cup {None}, ok : BOOLEAN]

(* todo: stale ids still to decide; evict: those to drop; cur: the one     *)
(* being killed or unlinked; known: ids with a row, for the orphan sweep.  *)
Pass == [pc : {"off", "idle", "scan", "kill", "drop", "unlink", "orphans", "sweep"},
         todo : SUBSET Id, evict : SUBSET Id, cur : Id \cup {None}, known : SUBSET Id]

NoKill == [pc |-> "idle", id |-> None, job |-> None, ok |-> FALSE]
NoPass(at) == [pc |-> at, todo |-> {}, evict |-> {}, cur |-> None, known |-> {}]
NoReconcile(at) == [pc |-> at, live |-> {}, todo |-> {}, dead |-> {}, alive |-> {}]

TypeOK ==
  /\ LaunchTypeOK
  /\ rec \in Reconcile
  /\ kill \in [Killer -> Kills]
  /\ reap \in Pass

Init ==
  /\ LaunchInit
  /\ rec = NoReconcile("start")
  /\ kill = [k \in Killer |-> NoKill]
  /\ reap = NoPass("idle")

-----------------------------------------------------------------------------
(* reconcile_stale_running                                                 *)

(* The startup reconcile without the exclusion of this process's jobs. *)
NoneLive == {}

LiveIds == {i \in Id : jobs[i] # None}

ReconcileLock ==
  /\ up /\ rec.pc = "start" /\ ~locked
  /\ locked' = TRUE
  /\ rec' = [rec EXCEPT !.pc = "locked", !.live = LiveIds]
  /\ UNCHANGED <<groupVars, serverVars, launchVars, waiterVars, faults, jobs, row, log,
                 freed, kill, reap>>

(* stale_running with `<` for `<=`. *)
StaleStrict ==
  {row[i].owner : i \in {j \in Id \ rec.live :
                           row[j].status = "running" /\ row[j].started < boot}}

(* stale_running: the rows another incarnation left `running`. *)
StaleRunning ==
  {row[i].owner : i \in {j \in Id \ rec.live :
                           row[j].status = "running" /\ row[j].started <= boot}}

ReconcileQuery ==
  /\ up /\ rec.pc = "locked"
  /\ locked' = FALSE
  /\ \/ Ok /\ rec' = [rec EXCEPT !.pc = "probe", !.todo = StaleRunning]
     \/ Fault("other") /\ rec' = NoReconcile("done")
  /\ UNCHANGED <<groupVars, serverVars, launchVars, waiterVars, jobs, row, log, freed, kill,
                 reap>>

(* The probe without its question: every candidate is dead. *)
PresumeDead(l, alive) == ~alive /\ UNCHANGED groupVars

AskGroup(l, alive) == Probe(l, alive)

ReconcileProbe(l) ==
  /\ up /\ rec.pc = "probe" /\ l \in rec.todo
  /\ \E alive \in BOOLEAN :
       /\ AskGroup(l, alive)
       /\ rec' = [rec EXCEPT !.todo = @ \ {l},
                             !.dead = IF alive THEN @ ELSE @ \cup {l},
                             !.alive = IF alive THEN @ \cup {l} ELSE @]
  /\ UNCHANGED <<serverVars, launchVars, waiterVars, storeVars, kill, reap>>

ReconcileMark ==
  /\ up /\ rec.pc = "probe" /\ rec.todo = {}
  /\ IF rec.dead = {} THEN UNCHANGED <<faults, row>>
     ELSE FailIfRunning({jid[l] : l \in rec.dead}, "restarted")
  /\ rec' = [NoReconcile("done") EXCEPT !.alive = rec.alive]
  /\ UNCHANGED <<groupVars, serverVars, launchVars, waiterVars, jobs, locked, log, freed, kill,
                 reap>>

-----------------------------------------------------------------------------
(* Killing                                                                 *)

At(k, at) == kill[k].pc = at
Goto(k, to) == kill' = [kill EXCEPT ![k].pc = to]
Answer(k, result) == kill' = [kill EXCEPT ![k].pc = "ended", ![k].ok = result]

(* JobStore::kill: a tracked job through its handle, any other through its *)
(* row.                                                                    *)
ToolKill(k, i) ==
  /\ up /\ ~locked /\ k \in ToolKiller /\ kill[k].pc = "idle"
  /\ kill' = [kill EXCEPT ![k] =
                [NoKill EXCEPT !.pc = IF jobs[i] = None THEN "find" ELSE "check",
                               !.id = i, !.job = jobs[i]]]
  /\ UNCHANGED <<launchLayer, rec, reap>>

CliKill(k, i) ==
  /\ k \in CliKiller /\ kill[k].pc = "idle"
  /\ kill' = [kill EXCEPT ![k] = [NoKill EXCEPT !.pc = "find", !.id = i]]
  /\ UNCHANGED <<launchLayer, rec, reap>>

(* kill_job ---------------------------------------------------------------*)

KillJobCheck(k) ==
  /\ At(k, "check")
  /\ IF jstate[kill[k].job] = "running"
     THEN Goto(k, "term")
     ELSE Answer(k, FALSE)
  /\ UNCHANGED <<launchLayer, rec, reap>>

(* TERM, and then the grace; an undelivered one is looked into. *)
KillJobTerm(k) ==
  LET l == kill[k].job IN
  /\ At(k, "term")
  /\ \E delivered \in BOOLEAN :
       /\ SignalGroup(l, "TERM", Parented(l), delivered)
       /\ Goto(k, IF delivered THEN "grace" ELSE "recheck")
  /\ UNCHANGED <<serverVars, launchVars, waiterVars, storeVars, rec, reap>>

KillJobRecheck(k) ==
  /\ At(k, "recheck")
  /\ \E alive \in BOOLEAN : Probe(kill[k].job, alive) /\ Answer(k, ~alive)
  /\ UNCHANGED <<serverVars, launchVars, waiterVars, storeVars, rec, reap>>

(* exited_within: `done` turned true, or the grace ran out first. *)
KillJobExited(k) ==
  /\ At(k, "grace")
  /\ done[kill[k].job]
  /\ Answer(k, TRUE)
  /\ UNCHANGED <<launchLayer, rec, reap>>

KillJobGraceOver(k) ==
  /\ At(k, "grace")
  /\ ~done[kill[k].job]
  /\ Goto(k, "kill")
  /\ UNCHANGED <<launchLayer, rec, reap>>

KillJobForce(k) ==
  LET l == kill[k].job IN
  /\ At(k, "kill")
  /\ \E delivered \in BOOLEAN :
       /\ SignalGroup(l, "KILL", Parented(l), delivered)
       /\ IF delivered THEN Answer(k, TRUE) ELSE Goto(k, "final")
  /\ UNCHANGED <<serverVars, launchVars, waiterVars, storeVars, rec, reap>>

(* KILL undelivered: the answer is whatever the waiter has stored. *)
KillJobFinal(k) ==
  /\ At(k, "final")
  /\ Answer(k, jstate[kill[k].job] # "running")
  /\ UNCHANGED <<launchLayer, rec, reap>>

KillJob(k) ==
  /\ up
  /\ \/ KillJobCheck(k) \/ KillJobTerm(k) \/ KillJobRecheck(k) \/ KillJobExited(k)
     \/ KillJobGraceOver(k) \/ KillJobForce(k) \/ KillJobFinal(k)

(* kill_persisted ---------------------------------------------------------*)

(* kill_target: no row, or one no longer running, ends the kill. *)
KillFind(k) ==
  LET i == kill[k].id IN
  /\ At(k, "find")
  /\ \/ /\ row[i].status = "running" /\ Ok
        /\ kill' = [kill EXCEPT ![k].pc = "probe", ![k].job = row[i].owner]
     \/ row[i].status # "running" /\ Ok /\ Answer(k, FALSE)
     \/ Fault("other") /\ Answer(k, FALSE)
  /\ UNCHANGED <<groupVars, serverVars, launchVars, waiterVars, jobs, locked, row, log,
                 freed, rec, reap>>

(* kill_group: gone already, or TERM ... *)
KillProbe(k) ==
  /\ At(k, "probe")
  /\ \E alive \in BOOLEAN :
       Probe(kill[k].job, alive) /\ Goto(k, IF alive THEN "sigterm" ELSE "mark")
  /\ UNCHANGED <<serverVars, launchVars, waiterVars, storeVars, rec, reap>>

KillTerm(k) ==
  LET l == kill[k].job IN
  /\ At(k, "sigterm")
  /\ \E delivered \in BOOLEAN : SignalGroup(l, "TERM", Parented(l), delivered)
  /\ Goto(k, "poll")
  /\ UNCHANGED <<serverVars, launchVars, waiterVars, storeVars, rec, reap>>

(* ... then probes until the group is gone or the grace is over ... *)
KillPoll(k) ==
  /\ At(k, "poll")
  /\ \E alive \in BOOLEAN :
       Probe(kill[k].job, alive) /\ Goto(k, IF alive THEN "last" ELSE "mark")
  /\ UNCHANGED <<serverVars, launchVars, waiterVars, storeVars, rec, reap>>

(* ... and sends KILL to a group that outlived it. *)
KillLast(k) ==
  /\ At(k, "last")
  /\ \E alive \in BOOLEAN :
       Probe(kill[k].job, alive) /\ Goto(k, IF alive THEN "sigkill" ELSE "verify")
  /\ UNCHANGED <<serverVars, launchVars, waiterVars, storeVars, rec, reap>>

KillForce(k) ==
  LET l == kill[k].job IN
  /\ At(k, "sigkill")
  /\ \E delivered \in BOOLEAN : SignalGroup(l, "KILL", Parented(l), delivered)
  /\ Goto(k, "verify")
  /\ UNCHANGED <<serverVars, launchVars, waiterVars, storeVars, rec, reap>>

(* Taking KILL's delivery for the group's end. *)
TrustKill(k) ==
  /\ At(k, "verify")
  /\ Goto(k, "mark")
  /\ UNCHANGED <<launchLayer, rec, reap>>

(* The last probe says whether it is gone.  A zombie its parent has not    *)
(* reaped yet still reads as a survivor.                                   *)
KillVerify(k) ==
  /\ At(k, "verify")
  /\ \E alive \in BOOLEAN :
       /\ Probe(kill[k].job, alive)
       /\ IF alive THEN Answer(k, FALSE) ELSE Goto(k, "mark")
  /\ UNCHANGED <<serverVars, launchVars, waiterVars, storeVars, rec, reap>>

(* mark_killed is best effort. *)
KillMark(k) ==
  /\ At(k, "mark")
  /\ Answer(k, TRUE)
  /\ FailIfRunning({kill[k].id}, "killed")
  /\ UNCHANGED <<groupVars, serverVars, launchVars, waiterVars, jobs, locked, log, freed, rec,
                 reap>>

KillPersisted(k) ==
  /\ up \/ k \in CliKiller
  /\ \/ KillFind(k) \/ KillProbe(k) \/ KillTerm(k) \/ KillPoll(k)
     \/ KillLast(k) \/ KillForce(k) \/ KillVerify(k) \/ KillMark(k)

-----------------------------------------------------------------------------
(* The reaper's pass                                                       *)

reaperFrame == <<groupVars, serverVars, launchVars, waiterVars, rec>>

(* Where the pass goes when `reap_once` has nothing more to do. *)
ToOrphans == reap' = NoPass("orphans")

(* A reaper that leaves running jobs alone. *)
AgedFinished ==
  {i \in Id : /\ RowExists(i) /\ row[i].status # "running"
              /\ row[i].started + Retention < clock}

(* started_before: the ids past retention. *)
Aged == {i \in Id : RowExists(i) /\ row[i].started + Retention < clock}

(* An error abandons reap_once, and the pass goes on. *)
ReapStart ==
  /\ up /\ reap.pc = "idle"
  /\ \/ Ok /\ reap' = [NoPass("scan") EXCEPT !.todo = Aged]
     \/ Fault("other") /\ ToOrphans
  /\ UNCHANGED <<reaperFrame, jobs, locked, row, log, freed, kill>>

TrackedRunning(i) == jobs[i] # None /\ jstate[jobs[i]] = "running"

(* A tracked job that still reads Running is killed first ... *)
ReapKill(i) ==
  /\ up /\ ~locked /\ reap.pc = "scan" /\ i \in reap.todo
  /\ TrackedRunning(i)
  /\ reap' = [reap EXCEPT !.pc = "kill", !.todo = @ \ {i}, !.cur = i]
  /\ kill' = [kill EXCEPT ![Reaper] =
                [NoKill EXCEPT !.pc = "check", !.id = i, !.job = jobs[i]]]
  /\ UNCHANGED <<reaperFrame, storeVars>>

(* Evicted whatever the kill answered. *)
MayAlwaysEvict(k) == TRUE

(* ... and evicted if the kill succeeded or it reads finished by now. *)
MayEvict(k) == kill[k].ok \/ jstate[kill[k].job] # "running"

ReapKilled ==
  /\ up /\ reap.pc = "kill" /\ kill[Reaper].pc = "ended"
  /\ reap' = [reap EXCEPT !.pc = "scan", !.cur = None,
                          !.evict = IF MayEvict(Reaper) THEN @ \cup {reap.cur} ELSE @]
  /\ kill' = [kill EXCEPT ![Reaper] = NoKill]
  /\ UNCHANGED <<reaperFrame, storeVars>>

(* A finished job, or one this process does not track, goes as it is. *)
ReapAsIs(i) ==
  /\ up /\ ~locked /\ reap.pc = "scan" /\ i \in reap.todo
  /\ ~TrackedRunning(i)
  /\ reap' = [reap EXCEPT !.todo = @ \ {i}, !.evict = @ \cup {i}]
  /\ UNCHANGED <<reaperFrame, storeVars, kill>>

(* The rows go first; if that fails the pass only logs it and goes on. *)
ReapDelete ==
  /\ up /\ reap.pc = "scan" /\ reap.todo = {}
  /\ IF reap.evict = {}
     THEN ToOrphans /\ UNCHANGED <<faults, row>>
     ELSE reap' = [reap EXCEPT !.pc = "drop"] /\ DeleteRows(reap.evict)
  /\ UNCHANGED <<reaperFrame, jobs, locked, log, freed, kill>>

(* Then, id by id, the map entry ... *)
ReapDrop(i) ==
  /\ up /\ ~locked /\ reap.pc = "drop" /\ i \in reap.evict
  /\ jobs' = [jobs EXCEPT ![i] = None]
  /\ reap' = [reap EXCEPT !.pc = "unlink", !.cur = i]
  /\ UNCHANGED <<reaperFrame, faults, locked, row, log, freed, kill>>

(* ... and the log file. *)
ReapUnlink ==
  /\ up /\ reap.pc = "unlink"
  /\ RemoveLog(reap.cur)
  /\ IF reap.evict = {reap.cur}
     THEN ToOrphans
     ELSE reap' = [reap EXCEPT !.pc = "drop", !.evict = @ \ {reap.cur}, !.cur = None]
  /\ UNCHANGED <<reaperFrame, faults, jobs, locked, row, kill>>

(* reap_orphans: first the ids that have a row ... *)
OrphanScan ==
  /\ up /\ reap.pc = "orphans"
  /\ \/ /\ Ok
        /\ reap' = [NoPass("sweep") EXCEPT !.known = {i \in Id : RowExists(i)}]
     \/ Fault("other") /\ reap' = NoPass("idle")
  /\ UNCHANGED <<reaperFrame, jobs, locked, row, log, freed, kill>>

(* The sweep without its mtime gate. *)
OrphanAnyAge(i) == log[i] # NoFile /\ i \notin reap.known

(* ... then every log without one that was last written before retention.  *)
(* (The files are visited one by one; none becomes an orphan meanwhile.)   *)
Orphan(i) ==
  /\ log[i] # NoFile /\ i \notin reap.known
  /\ log[i].mtime + Retention < clock

OrphanRemove(i) ==
  /\ up /\ reap.pc = "sweep" /\ Orphan(i)
  /\ RemoveLog(i)
  /\ UNCHANGED <<reaperFrame, faults, jobs, locked, row, kill, reap>>

OrphanEnd ==
  /\ up /\ reap.pc = "sweep" /\ \A i \in Id : ~Orphan(i)
  /\ reap' = NoPass("idle")
  /\ UNCHANGED <<reaperFrame, storeVars, kill>>

ReaperPass ==
  \/ ReapStart \/ ReapKilled \/ ReapDelete \/ ReapUnlink \/ OrphanScan \/ OrphanEnd
  \/ \E i \in Id : ReapKill(i) \/ ReapAsIs(i) \/ ReapDrop(i) \/ OrphanRemove(i)

-----------------------------------------------------------------------------
(* The engine                                                              *)

(* A tick outlasts every call in progress. *)
Tick ==
  /\ clock < MaxClock
  /\ LaunchQuiet
  /\ rec.pc \in {"off", "done"} /\ reap.pc \in {"off", "idle"}
  /\ \A k \in Killer : kill[k].pc \in {"idle", "ended"}
  /\ clock' = clock + 1 /\ freed' = {}
  /\ UNCHANGED <<groupVars, up, gen, boot, launchVars, waiterVars, faults, jobs, locked,
                 row, log, rec, kill, reap>>

(* The server's tasks end with it; a CLI kill goes on. *)
EngineDies ==
  /\ Die
  /\ rec' = NoReconcile("off")
  /\ reap' = NoPass("off")
  /\ kill' = [k \in Killer |->
                IF k \in CliKiller THEN kill[k]
                ELSE IF k = Reaper \/ kill[k].pc = "idle" THEN NoKill
                ELSE [NoKill EXCEPT !.pc = "ended"]]

(* `new` spawns the reconcile and the reaper, whose first pass is at once. *)
EngineRestarts ==
  /\ Restart
  /\ rec' = NoReconcile("start")
  /\ reap' = NoPass("idle")
  /\ UNCHANGED kill

RunSteps(l) == Reserve(l) \/ Spawn(l) \/ SpawnFails(l) \/ Track(l) \/ Persist(l) \/ Return(l)
WaiterSteps(l) == WaiterReap(l) \/ WaiterRecord(l) \/ WaiterSignal(l) \/ WaiterFinish(l)

LaunchNext(l) ==
  /\ RunSteps(l) \/ WaiterSteps(l) \/ GroupRuns(l) \/ Write(l)
  /\ UNCHANGED <<rec, kill, reap>>

ReconcileNext ==
  ReconcileLock \/ ReconcileQuery \/ ReconcileMark \/ \E l \in Launch : ReconcileProbe(l)

KillNext(k) ==
  KillJob(k) \/ KillPersisted(k) \/ \E i \in Id : ToolKill(k, i) \/ CliKill(k, i)

Next ==
  \/ \E l \in Launch : LaunchNext(l)
  \/ ReconcileNext
  \/ \E k \in Killer : KillNext(k)
  \/ ReaperPass
  \/ Tick \/ EngineDies \/ EngineRestarts

Spec == Init /\ [][Next]_vars

=============================================================================
