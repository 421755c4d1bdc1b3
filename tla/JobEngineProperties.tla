--------------------------- MODULE JobEngineProperties ---------------------------
(***************************************************************************)
(* What the job engine must get right, stated over JobEngine.              *)
(***************************************************************************)
EXTENDS JobEngine

(* The waiter stores a job's state before it wakes whoever waits for the   *)
(* exit, so an inline caller or a kill that was woken never reads a state  *)
(* that still says Running (mod.rs, the order of the waiter's two writes). *)
DoneAfterState == \A l \in Launch : done[l] => jstate[l] = "exited"

(* An id names one job at a time: its row, its log file and its map entry  *)
(* belong to the same launch, also when the log was kept from an earlier   *)
(* incarnation of the server (reserve_log's create_new).                   *)
IdNamesOneJob ==
  \A i \in Id :
    /\ RowExists(i) /\ log[i] # NoFile => row[i].owner = log[i].owner
    /\ jobs[i] # None /\ log[i] # NoFile => jobs[i] = log[i].owner
    /\ jobs[i] # None /\ RowExists(i) => jobs[i] = row[i].owner

(* A waiter that is through has recorded the exit: it ran after the INSERT,*)
(* so its UPDATE found the row, and nothing set it back to `running`.      *)
FinishedRowIsTerminal ==
  \A l \in Launch : wpc[l] = "finished" =>
    \A i \in Id : row[i].owner = l => row[i].status # "running"

(* Once the startup reconcile is through, a row an earlier incarnation     *)
(* left `running` is there only because its group answered the probe, also *)
(* after a crash loop within one second (stale_running's `<=`).            *)
BootSettlesRows ==
  up /\ rec.pc = "done" =>
    \A i \in Id :
      row[i].status = "running" /\ born[row[i].owner] < gen => row[i].owner \in rec.alive

(* The reconcile never takes a job launched by its own process for one the *)
(* last process left behind: the map's lock is held across the query and   *)
(* every launch is in the map before its row exists.                       *)
ReconcileSparesOwn ==
  [][\A i \in Id :
       row[i].status = "running" /\ row'[i].status = "restarted"
         => born[row[i].owner] < gen]_vars

(* A row is turned to `failed`, by a kill or by the reconcile, only when   *)
(* its whole process group is gone.                                        *)
DeclaredDeadIsDead ==
  [][\A i \in Id :
       row[i].status = "running" /\ row'[i].status \in {"killed", "restarted"}
         => ~GroupAlive(row[i].owner)]_vars

(* Every INSERT and every DELETE so far did what it was asked. *)
RowsWritten == \A n \in DOMAIN faults : faults[n] # "rows"

(* A running server forgets a job it tracks only once the job's leader is  *)
(* dead: a running job whose kill failed stays pollable and killable for a *)
(* later pass (reap_once), and so does the job that was given the id of an *)
(* evicted one.  It holds as long as no INSERT and no DELETE has failed:   *)
(* either leaves a row and a log that are not the same launch's behind     *)
(* (mod.rs:290, reaper.rs:273), for an eviction to act on.  And it takes   *)
(* `kill_job`'s word for the leader's end, which is wrong after two `kill` *)
(* commands in a row that could not be started.                            *)
ForgetsOnlyDeadLeaders ==
  [][RowsWritten' =>
       \A i \in Id :
         up' /\ jobs[i] # None /\ jobs'[i] # jobs[i] => leader[jobs[i]] # "alive"]_vars

(* reap_once's comments say "eviction never orphans its process group",    *)
(* and kill_job's that TRUE means "the group is gone afterwards": a job    *)
(* evicted because its kill succeeded leaves nobody alive behind.          *)
EvictionNeverOrphans ==
  [][\A l \in Launch :
       reap.pc = "kill" /\ kill[Reaper].job = l /\ kill[Reaper].ok /\ reap'.evict # reap.evict
         => leader[l] # "alive" /\ ~child[l]]_vars

(* The orphan sweep removes the log of no job that still has a row or is   *)
(* still tracked: a launch whose row is not written yet is covered by its  *)
(* log's age (reap_orphans).                                               *)
SweepSparesJobs ==
  [][\A i \in Id :
       reap.pc = "sweep" /\ log[i] # NoFile /\ log'[i] = NoFile
         => ~RowExists(i) /\ jobs[i] = None]_vars

(* The job table keeps the promise JobHistory makes. *)
History == INSTANCE JobHistory WITH history <- [i \in Id |-> row[i].status]
ImplementsHistory == History!HistorySpec

-----------------------------------------------------------------------------
(* Liveness.  A task the runtime has spawned is scheduled again after each *)
(* await; systemd restarts the service; and time passes whenever the short *)
(* activities let it, again and again.  No process has to exit.            *)

Frame == UNCHANGED <<rec, kill, reap>>
RunProgress(l) ==
  (Spawn(l) \/ SpawnFails(l) \/ Track(l) \/ Persist(l) \/ Return(l)) /\ Frame

Fairness ==
  /\ \A l \in Launch : WF_vars(RunProgress(l)) /\ WF_vars(WaiterSteps(l) /\ Frame)
  /\ \A k \in Killer : WF_vars(KillJob(k) \/ KillPersisted(k))
  /\ WF_vars(ReconcileNext) /\ WF_vars(ReaperPass) /\ WF_vars(EngineRestarts)
  /\ SF_vars(Tick)

LiveSpec == Spec /\ Fairness

(* No row stays forever: the reaper evicts every job past retention, the   *)
(* one that never exits by killing it first, and that takes no step of the *)
(* job itself.                                                             *)
RowsAgeOut == \A i \in Id : []<>~RowExists(i)

(* Every call of `run` returns, whatever its command does and whatever the *)
(* reconcile holds the lock for, unless the server dies first.             *)
RunReturns ==
  \A l \in Launch : []<>(pc[l] \notin {"reserved", "spawned", "tracked", "waiting"})

=============================================================================
