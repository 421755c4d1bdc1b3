---------------------------- MODULE JobLogProperties ----------------------------
(***************************************************************************)
(* What readers of a job's output may rely on, stated over JobLog.         *)
(***************************************************************************)
EXTENDS JobLog

OutputUpto(n) == [k \in 1..n |-> k]

(* What a log shows of it: a marker anywhere else would be a gap. *)
Output(lines) == IF lines # <<>> /\ Head(lines) = 0 THEN Tail(lines) ELSE lines

(* The log of a job always ends with the last line its group has written,  *)
(* goes back from there without a gap, to the first line unless it says    *)
(* that it was trimmed and then far enough: no pass renames a file over    *)
(* one that is still written to, and none erodes what another left         *)
(* (compact_once, group_still_writing, trim_log).                          *)
LogEndsAtLastLine ==
  log # NoFile =>
    LET lines == Output(log.lines) IN
    /\ lines = LastLines(OutputUpto(written), Len(lines))
    /\ Len(lines) = written \/ (Head(log.lines) = 0 /\ Len(lines) >= AgedKeep)

(* The tail saved with an exit is the last lines of the job's output, none *)
(* of those before the exit missing and no marker among them, although a   *)
(* descendant may write and a pass may trim meanwhile; it is empty only if *)
(* the log was evicted before it was read (finish, TAIL_LINES).            *)
TailCoversExit ==
  row.status = "exited" =>
    \/ \E n \in atExit..written : row.tail = LastLines(OutputUpto(n), TailLines)
    \/ row.tail = <<>> /\ log = NoFile

(* A poll told that the job has exited was shown its last output: the      *)
(* state is read before the page, and the tail was read after the exit.    *)
ExitedPollIsComplete ==
  \A p \in Poll : poll[p].answer = "page" /\ poll[p].state = "exited" =>
    IF poll[p].lines = <<>> THEN atExit = 0 \/ log = NoFile
    ELSE poll[p].lines[Len(poll[p].lines)] >= atExit

(* A poll that races the eviction of its job answers `unknown job`, never  *)
(* an error: the map entry goes before the log (reap_once), and the poll   *)
(* looks at the map again (poll's re-check).                               *)
PollNeverErrors == \A p \in Poll : poll[p].answer # "error"

-----------------------------------------------------------------------------
(* The reaper and the waiter are tasks the runtime schedules, systemd      *)
(* restarts the server, and time passes.  No process has to exit.          *)
LiveSpec ==
  /\ Spec
  /\ WF_vars(ReaperPass) /\ WF_vars(WaiterRecord \/ WaiterTail \/ WaiterUpdate)
  /\ WF_vars(Restart) /\ WF_vars(Tick)

(* Nothing of a job whose group is gone stays on the disk: not its log,    *)
(* also if its row went just before a crash, nor the temp of a trim that   *)
(* never got to its rename (reap_orphans).                                 *)
DiskIsReclaimed == ~GroupAlive ~> log = NoFile /\ temp = NoFile

=============================================================================
