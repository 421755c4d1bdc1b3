------------------------------- MODULE JobLaunch -------------------------------
(***************************************************************************)
(* Launching jobs: `JobStore::run` and the waiter task it leaves behind    *)
(* (src/jobs/mod.rs), the rows they write (src/jobs/store.rs), and the     *)
(* server process that dies and restarts around them.                      *)
(*                                                                         *)
(* Three stores describe a job and none of them is updated together with   *)
(* another: `jobs` is the in-memory map, lost with the process; `row` is   *)
(* the SQLite table; `log` is the directory of log files.  Rows and logs   *)
(* outlive the process, and so may the process group.                      *)
(*                                                                         *)
(* Time: one tick of `clock` stands for hours, longer than any call below  *)
(* takes, and `now_unix` reads it.  A service that restarts twice within a *)
(* tick is the crash loop inside one wall-clock second.                    *)
(***************************************************************************)
EXTENDS ProcessGroups, Sequences

CONSTANTS
  Id,          \* the job ids `JobId::generate` can mint, i.e. log file stems
  MaxGen,      \* bound: server incarnations
  MaxClock,    \* bound: ticks
  LastLaunch,  \* bound: no launch after this tick
  MaxFaults    \* bound: database statements that fail

ASSUME LaunchBounds ==
  /\ None \notin Id
  /\ MaxGen \in Nat /\ MaxClock \in Nat /\ LastLaunch \in Nat /\ MaxFaults \in Nat

VARIABLES
  up,      \* the server process runs
  gen,     \* which incarnation it is
  boot,    \* the tick this incarnation started in
  clock,
  faults,  \* the statements that failed so far, by kind
  jobs,    \* the in-memory map: id -> the launch it tracks
  locked,  \* a task holds the map's lock across an await
  row,     \* the `jobs` table
  log,     \* the log files
  freed,   \* ids whose log was removed in this tick
  pc,      \* where each call of `run` is
  jid,     \* the id it reserved
  born,    \* the incarnation it ran in
  jstate,  \* Job.state
  done,    \* Job.done, the watch channel
  wpc      \* where its waiter task is

serverVars == <<up, gen, boot, clock>>
launchVars == <<pc, jid, born>>
waiterVars == <<jstate, done, wpc>>
storeVars == <<faults, jobs, locked, row, log, freed>>
launchLayer == <<groupVars, serverVars, launchVars, waiterVars, storeVars>>

RowStates == {"absent", "running", "exited", "killed", "restarted"}
RunPcs == {"idle", "reserved", "spawned", "tracked", "waiting", "inline",
           "backgrounded", "failed", "lost"}
WaiterPcs == {"none", "waiting", "reaped", "recorded", "signalled", "finished"}

(* Statements, by what their failure leaves wrong: which rows there are    *)
(* (INSERT and DELETE), or no more than what one says or an answer.        *)
Statements == {"rows", "other"}

NoRow == [status |-> "absent", owner |-> None, started |-> 0]
NoFile == [owner |-> None, mtime |-> 0]

Rows == [status : RowStates, owner : Launch \cup {None}, started : Nat]
Files == [owner : Launch \cup {None}, mtime : Nat]

RowExists(i) == row[i].status # "absent"

(* A row is written by the launch whose group it names. *)
RowsOwned == \A i \in Id : RowExists(i) => row[i].owner \in Launch

LaunchTypeOK ==
  /\ GroupsTypeOK
  /\ up \in BOOLEAN
  /\ gen \in Nat /\ boot \in Nat /\ clock \in Nat
  /\ faults \in Seq(Statements)
  /\ jobs \in [Id -> Launch \cup {None}]
  /\ locked \in BOOLEAN
  /\ row \in [Id -> Rows] /\ RowsOwned
  /\ log \in [Id -> Files]
  /\ freed \in SUBSET Id
  /\ pc \in [Launch -> RunPcs]
  /\ jid \in [Launch -> Id \cup {None}]
  /\ born \in [Launch -> Nat]
  /\ jstate \in [Launch -> {"running", "exited"}]
  /\ done \in [Launch -> BOOLEAN]
  /\ wpc \in [Launch -> WaiterPcs]

LaunchInit ==
  /\ GroupsInit
  /\ up = TRUE /\ gen = 1 /\ boot = 0 /\ clock = 0 /\ faults = <<>>
  /\ jobs = [i \in Id |-> None] /\ locked = FALSE
  /\ row = [i \in Id |-> NoRow]
  /\ log = [i \in Id |-> NoFile] /\ freed = {}
  /\ pc = [l \in Launch |-> "idle"]
  /\ jid = [l \in Launch |-> None]
  /\ born = [l \in Launch |-> 0]
  /\ jstate = [l \in Launch |-> "running"]
  /\ done = [l \in Launch |-> FALSE]
  /\ wpc = [l \in Launch |-> "none"]

Step(l, from, to) == pc[l] = from /\ pc' = [pc EXCEPT ![l] = to]
WaiterStep(l, from, to) == up /\ wpc[l] = from /\ wpc' = [wpc EXCEPT ![l] = to]

(* The server that would reap l's leader still runs. *)
Parented(l) == up /\ born[l] = gen

-----------------------------------------------------------------------------
(* SQL.  A statement is one step: `Db::call` runs it whole under the       *)
(* connection's lock.  It may fail, leaving the table as it was.           *)

Ok == UNCHANGED faults
Fault(kind) == Len(faults) < MaxFaults /\ faults' = Append(faults, kind)

(* INSERT: refused when the primary key is taken. *)
InsertRunning(i, l) ==
  \/ /\ ~RowExists(i) /\ Ok
     /\ row' = [row EXCEPT ![i] =
                  [status |-> "running", owner |-> l, started |-> clock]]
  \/ RowExists(i) /\ Ok /\ UNCHANGED row
  \/ Fault("rows") /\ UNCHANGED row

(* `finish` puts a row back that was deleted meanwhile. *)
FinishUpserts(i) ==
  \/ /\ Ok
     /\ row' = [row EXCEPT ![i].status = "exited"]
  \/ Fault("other") /\ UNCHANGED row

(* `finish`: an UPDATE by id, whatever the row says; no row, no effect. *)
Finish(i) ==
  \/ /\ Ok
     /\ row' = IF RowExists(i) THEN [row EXCEPT ![i].status = "exited"] ELSE row
  \/ Fault("other") /\ UNCHANGED row

(* One statement per id; the first that fails ends the call, and those     *)
(* before it stand.                                                        *)
ForEach(kind, ids, did) == (did = ids /\ Ok) \/ (did # ids /\ Fault(kind))

(* FAIL_IF_RUNNING without its `AND status = 'running'`. *)
FailAlways(ids, why) ==
  \E did \in SUBSET ids :
    /\ ForEach("other", ids, did)
    /\ row' = [i \in Id |-> IF i \in did /\ RowExists(i)
                            THEN [row[i] EXCEPT !.status = why] ELSE row[i]]

(* FAIL_IF_RUNNING over the ids; `why` is the text left in `error`. *)
FailIfRunning(ids, why) ==
  \E did \in SUBSET ids :
    /\ ForEach("other", ids, did)
    /\ row' = [i \in Id |-> IF i \in did /\ row[i].status = "running"
                            THEN [row[i] EXCEPT !.status = why] ELSE row[i]]

DeleteRows(ids) ==
  \E did \in SUBSET ids :
    /\ ForEach("rows", ids, did)
    /\ row' = [i \in Id |-> IF i \in did THEN NoRow ELSE row[i]]

-----------------------------------------------------------------------------
(* Short activities: a launch, or a waiter with an exit to record.  A tick *)
(* does not pass over them.                                                *)

Settling(l) ==
  \/ pc[l] \in {"reserved", "spawned", "tracked"}
  \/ wpc[l] \in {"reaped", "recorded", "signalled"}
  \/ wpc[l] = "waiting" /\ leader[l] = "zombie"

LaunchQuiet == \A l \in Launch : ~Settling(l)

(* Ids carry the time of day they were minted at, so one that was given up *)
(* for good comes round in a later tick.                                   *)
Mintable(i) == i \notin freed

RemoveLog(i) ==
  /\ log' = [log EXCEPT ![i] = NoFile]
  /\ freed' = freed \cup {i}

-----------------------------------------------------------------------------
(* run                                                                     *)

(* `reserve_log` as it was when ids were checked against the map alone. *)
ReserveByMap(l) ==
  /\ up /\ clock <= LastLaunch
  /\ Step(l, "idle", "reserved")
  /\ \E i \in Id :
       /\ jobs[i] = None /\ Mintable(i)
       /\ jid' = [jid EXCEPT ![l] = i]
       /\ log' = [log EXCEPT ![i] = [owner |-> l, mtime |-> clock]]
  /\ born' = [born EXCEPT ![l] = gen]
  /\ UNCHANGED <<groupVars, serverVars, waiterVars, faults, jobs, locked, row, freed>>

(* reserve_log: create_new on `<id>.log` claims the id.  A candidate whose *)
(* file exists is given up for the next one, so the loop ends on a free id.*)
Reserve(l) ==
  /\ up /\ clock <= LastLaunch
  /\ Step(l, "idle", "reserved")
  /\ \E i \in Id :
       /\ log[i] = NoFile /\ Mintable(i)
       /\ jid' = [jid EXCEPT ![l] = i]
       /\ log' = [log EXCEPT ![i] = [owner |-> l, mtime |-> clock]]
  /\ born' = [born EXCEPT ![l] = gen]
  /\ UNCHANGED <<groupVars, serverVars, waiterVars, faults, jobs, locked, row, freed>>

(* command.spawn; on its error `run` returns and leaves the empty log. *)
Spawn(l) ==
  /\ up
  /\ Step(l, "reserved", "spawned")
  /\ StartGroup(l)
  /\ UNCHANGED <<serverVars, jid, born, waiterVars, storeVars>>

SpawnFails(l) ==
  /\ up
  /\ Step(l, "reserved", "failed")
  /\ UNCHANGED <<groupVars, serverVars, jid, born, waiterVars, storeVars>>

(* The insert into the map, under its lock. *)
Track(l) ==
  /\ up /\ ~locked
  /\ Step(l, "spawned", "tracked")
  /\ jobs' = [jobs EXCEPT ![jid[l]] = l]
  /\ UNCHANGED <<groupVars, serverVars, jid, born, waiterVars, faults, locked, row, log, freed>>

(* The waiter spawned before the INSERT rather than after it. *)
SpawnWaiterFirst(l) ==
  /\ up /\ pc[l] = "tracked"
  /\ IF wpc[l] = "none"
     THEN wpc' = [wpc EXCEPT ![l] = "waiting"] /\ UNCHANGED <<pc, faults, row>>
     ELSE /\ InsertRunning(jid[l], l)
          /\ \E to \in {"waiting", "backgrounded"} : pc' = [pc EXCEPT ![l] = to]
          /\ UNCHANGED wpc
  /\ UNCHANGED <<groupVars, serverVars, jid, born, jstate, done, jobs, locked, log, freed>>

(* insert_running, whose failure is only logged; the waiter is spawned     *)
(* after it.  A `bg` call returns here, any other waits.                   *)
Persist(l) ==
  /\ up
  /\ \E to \in {"waiting", "backgrounded"} : Step(l, "tracked", to)
  /\ InsertRunning(jid[l], l)
  /\ wpc' = [wpc EXCEPT ![l] = "waiting"]
  /\ UNCHANGED <<groupVars, serverVars, jid, born, jstate, done, jobs, locked, log, freed>>

(* Waiting for the exit alone. *)
AwaitExit(l) ==
  /\ up /\ done[l]
  /\ Step(l, "waiting", "inline")
  /\ UNCHANGED <<groupVars, serverVars, jid, born, waiterVars, storeVars>>

(* The inline window elapsed or `done` changed; the state then read decides*)
(* what the caller is told.                                                *)
Return(l) ==
  /\ up
  /\ Step(l, "waiting", IF jstate[l] = "running" THEN "backgrounded" ELSE "inline")
  /\ UNCHANGED <<groupVars, serverVars, jid, born, waiterVars, storeVars>>

-----------------------------------------------------------------------------
(* The waiter task                                                         *)

(* child.wait() returns: the leader has been reaped. *)
WaiterReap(l) ==
  /\ WaiterStep(l, "waiting", "reaped")
  /\ Reap(l)
  /\ UNCHANGED <<serverVars, launchVars, jstate, done, storeVars>>

(* The waiter that wakes the others before it stores the state. *)
WakeFirst(l) ==
  /\ WaiterStep(l, "reaped", "recorded")
  /\ done' = [done EXCEPT ![l] = TRUE]
  /\ UNCHANGED <<groupVars, serverVars, launchVars, jstate, storeVars>>

WaiterRecord(l) ==
  /\ WaiterStep(l, "reaped", "recorded")
  /\ jstate' = [jstate EXCEPT ![l] = "exited"]
  /\ UNCHANGED <<groupVars, serverVars, launchVars, done, storeVars>>

WaiterSignal(l) ==
  /\ WaiterStep(l, "recorded", "signalled")
  /\ done' = [done EXCEPT ![l] = TRUE]
  /\ UNCHANGED <<groupVars, serverVars, launchVars, jstate, storeVars>>

WaiterFinish(l) ==
  /\ WaiterStep(l, "signalled", "finished")
  /\ Finish(jid[l])
  /\ UNCHANGED <<groupVars, serverVars, launchVars, jstate, done, jobs, locked, log, freed>>

-----------------------------------------------------------------------------
(* The processes, and the server's death and restart                       *)

GroupRuns(l) ==
  /\ LeaderExit(l, Parented(l)) \/ ChildExit(l)
  /\ UNCHANGED <<serverVars, launchVars, waiterVars, storeVars>>

(* A live member appends to the log it has open.  If the file was removed, *)
(* or the name now is another launch's, the line is lost.                  *)
Write(l) ==
  /\ leader[l] = "alive" \/ child[l]
  /\ log[jid[l]].owner = l /\ log[jid[l]].mtime < clock
  /\ log' = [log EXCEPT ![jid[l]].mtime = clock]
  /\ UNCHANGED <<groupVars, serverVars, launchVars, waiterVars, faults, jobs, locked, row, freed>>

(* The process ends between any two steps.  Its calls and its waiters go   *)
(* with it, and so does the map.                                           *)
Die ==
  /\ up /\ gen < MaxGen
  /\ up' = FALSE
  /\ \E controlGroup \in BOOLEAN : ParentDies(controlGroup)
  /\ pc' = [l \in Launch |->
              IF pc[l] \in {"reserved", "spawned", "tracked", "waiting"}
              THEN "lost" ELSE pc[l]]
  /\ wpc' = [l \in Launch |-> "none"]
  /\ jobs' = [i \in Id |-> None]
  /\ locked' = FALSE
  /\ UNCHANGED <<gen, boot, clock, jid, born, jstate, done, faults, row, log, freed>>

(* JobStore::new: an empty map, and `boot` read before any `run`. *)
Restart ==
  /\ ~up
  /\ up' = TRUE /\ gen' = gen + 1 /\ boot' = clock
  /\ UNCHANGED <<clock, groupVars, launchVars, waiterVars, storeVars>>

=============================================================================
