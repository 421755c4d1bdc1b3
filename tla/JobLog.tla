--------------------------------- MODULE JobLog ---------------------------------
(***************************************************************************)
(* The log of one job: its group appends to it, the waiter saves its tail  *)
(* in the row, the reaper's pass evicts, compacts and sweeps it, and polls *)
(* read it (jobs/reaper.rs, jobs/store.rs, JobStore::poll, jobs/log.rs).   *)
(* JobEngine has the launch, the kill and the reconcile in full; here they *)
(* are single steps.  A probe of the group answers truly (kill_unprobed    *)
(* shows what one that cannot be started does).                            *)
(*                                                                         *)
(* Lines are numbered in the order they are written; 0 is the marker line. *)
(***************************************************************************)
EXTENDS Integers, Sequences

CONSTANTS
  RecentKeep, AgedKeep,  \* TRIM_RECENT_LINES, TRIM_AGED_LINES
  TailLines, Limit,      \* TAIL_LINES; the lines of a page
  AgedAfter, Retention,  \* TRIM_AGED_AFTER_SECS, RETENTION_SECS, in ticks
  Poll,                  \* polls of this job
  MaxLines, MaxMishaps,  \* bounds on output, and on failing statements and crashes together
  NoFile

VARIABLES
  leader, child,  \* whether the job's shell, and a descendant in its group, live
  written,        \* lines the group has written
  atExit,         \* lines written when the shell exited
  log, temp,      \* `<id>.log` and `<id>.log.trim`: lines and age of the file, or NoFile
  linked,         \* the file the group holds open is the one at `<id>.log`
  age,            \* of the job
  row,            \* its row
  jstate,         \* its state in memory
  tracked,        \* it is in the map
  waiter, wtail,  \* the waiter task, and the tail it has read
  reap,           \* the reaper's pass
  poll,           \* the polls
  up, settled,    \* the server runs; its startup reconcile is over
  mishaps

group == <<leader, child, written, atExit, linked>>
files == <<log, temp>>
memory == <<jstate, tracked, waiter, wtail>>
vars == <<group, files, age, row, memory, reap, poll, up, settled, mishaps>>

Lines == Seq(0..MaxLines)
UpTo(n) == {lines \in Lines : Len(lines) <= n}
Ages == 0..(Retention + 1)
File(lines) == [lines |-> lines, age |-> 0]
Files == [lines : Lines, age : Ages]

ASSUME LogConstants ==
  /\ TailLines \in Nat \ {0} /\ AgedKeep \in Nat /\ RecentKeep \in Nat /\ Limit \in Nat \ {0}
  /\ TailLines <= AgedKeep /\ AgedKeep <= RecentKeep
  /\ AgedAfter \in Nat /\ Retention \in Nat /\ AgedAfter <= Retention
  /\ MaxLines \in Nat /\ MaxMishaps \in Nat
  /\ NoFile \notin Files

(* seen: what the row or the map said; buf: the lines about to be written. *)
Passes == [pc : {"off", "stale", "delete", "drop", "unlink", "rows", "look", "probe", "read",
                 "create", "write", "rename", "known", "sweep"},
           seen : {"none", "running", "ended"}, aged : BOOLEAN, buf : Lines]

Polls == [pc : {"idle", "find", "state", "page", "recheck", "saved", "answered"},
          state : {"none", "running", "exited", "failed"},
          answer : {"none", "page", "unknown", "error"},
          tail : UpTo(TailLines), lines : UpTo(Limit)]

NoPoll == [pc |-> "idle", state |-> "none", answer |-> "none", tail |-> <<>>, lines |-> <<>>]
Pass(pc) == [pc |-> pc, seen |-> "none", aged |-> FALSE, buf |-> <<>>]

TypeOK ==
  /\ leader \in BOOLEAN /\ child \in BOOLEAN /\ linked \in BOOLEAN
  /\ written \in 0..MaxLines /\ atExit \in 0..MaxLines
  /\ log \in Files \cup {NoFile} /\ temp \in Files \cup {NoFile}
  /\ age \in Ages
  /\ row \in [status : {"absent", "running", "exited", "failed"}, tail : UpTo(TailLines)]
  /\ jstate \in {"running", "exited"} /\ tracked \in BOOLEAN
  /\ waiter \in {"none", "waiting", "reaped", "read", "through"} /\ wtail \in UpTo(TailLines)
  /\ reap \in Passes
  /\ poll \in [Poll -> Polls]
  /\ up \in BOOLEAN /\ settled \in BOOLEAN /\ mishaps \in 0..MaxMishaps

(* The job has just been launched, its row and its empty log are there. *)
Init ==
  /\ leader = TRUE /\ child = TRUE /\ linked = TRUE
  /\ written = 0 /\ atExit = 0
  /\ log = File(<<>>) /\ temp = NoFile
  /\ age = 0
  /\ row = [status |-> "running", tail |-> <<>>]
  /\ jstate = "running" /\ tracked = TRUE
  /\ waiter = "waiting" /\ wtail = <<>>
  /\ reap = Pass("stale")
  /\ poll = [p \in Poll |-> NoPoll]
  /\ up = TRUE /\ settled = TRUE /\ mishaps = 0

Ok == UNCHANGED mishaps
Mishap == mishaps < MaxMishaps /\ mishaps' = mishaps + 1

GroupAlive == leader \/ child
LastLines(lines, n) == IF Len(lines) <= n THEN lines ELSE SubSeq(lines, Len(lines) - n + 1, Len(lines))

-----------------------------------------------------------------------------
(* The group.  Its shell opened the log for appending; what a member       *)
(* writes after another file was renamed over it, nobody can read.         *)

Write ==
  /\ GroupAlive /\ written < MaxLines
  /\ written' = written + 1
  /\ log' = IF linked /\ log # NoFile THEN File(Append(log.lines, written + 1)) ELSE log
  /\ UNCHANGED <<leader, child, atExit, linked, temp, age, row, memory, reap, poll, up, settled,
                 mishaps>>

LeaderExits ==
  /\ leader /\ leader' = FALSE
  /\ atExit' = written
  /\ UNCHANGED <<child, written, linked, files, age, row, memory, reap, poll, up, settled, mishaps>>

ChildExits ==
  /\ child /\ child' = FALSE
  /\ UNCHANGED <<leader, written, atExit, linked, files, age, row, memory, reap, poll, up, settled,
                 mishaps>>

-----------------------------------------------------------------------------
(* The waiter: the state, and then finish, which reads the log's tail and  *)
(* updates the row.  A log it cannot read leaves an empty tail.            *)

waiterFrame == <<group, files, age, tracked, reap, poll, up, settled>>

WaiterRecord ==
  /\ up /\ waiter = "waiting" /\ ~leader
  /\ jstate' = "exited" /\ waiter' = "reaped"
  /\ UNCHANGED <<waiterFrame, row, wtail, mishaps>>

WholeLog == IF log = NoFile THEN <<>> ELSE log.lines
LogTail == IF log = NoFile THEN <<>> ELSE LastLines(log.lines, TailLines)

WaiterTail ==
  /\ up /\ waiter = "reaped"
  /\ wtail' = LogTail
  /\ waiter' = "read"
  /\ UNCHANGED <<waiterFrame, row, jstate, mishaps>>

WaiterUpdate ==
  /\ up /\ waiter = "read"
  /\ \/ /\ Ok
        /\ row' = IF row.status = "absent" THEN row
                  ELSE [status |-> "exited", tail |-> wtail]
     \/ Mishap /\ UNCHANGED row
  /\ waiter' = "through" /\ wtail' = <<>>
  /\ UNCHANGED <<waiterFrame, jstate>>

-----------------------------------------------------------------------------
(* The reaper's pass: reap_once                                            *)

reapFrame == <<group, memory, age, poll, up, settled>>

Skip(pc) == reap' = Pass(pc) /\ UNCHANGED <<files, row, tracked, mishaps>>

(* A tracked job that still runs is killed first, and evicted if that      *)
(* worked: its leader is gone then, a descendant may not be.               *)
ReapStale ==
  /\ up /\ reap.pc = "stale"
  /\ IF row.status # "absent" /\ age > Retention
     THEN \/ ~(tracked /\ jstate = "running") /\ reap' = Pass("delete") /\ UNCHANGED group
          \/ /\ tracked /\ jstate = "running"
             /\ leader' = FALSE
             /\ atExit' = IF leader THEN written ELSE atExit
             /\ child' \in {child, FALSE}
             /\ reap' = Pass("delete")
             /\ UNCHANGED <<written, linked>>
          \/ tracked /\ jstate = "running" /\ reap' = Pass("rows") /\ UNCHANGED group
     ELSE reap' = Pass("rows") /\ UNCHANGED group
  /\ UNCHANGED <<memory, age, poll, up, settled, files, row, mishaps>>

(* reap_once with the file removed ahead of the map entry. *)
UnlinkFirst == [delete |-> "unlink", unlink |-> "drop", drop |-> "rows"]

(* The row, the map entry, the log: a DELETE that fails is only logged. *)
EvictOrder == [delete |-> "drop", drop |-> "unlink", unlink |-> "rows"]

ReapDelete ==
  /\ up /\ reap.pc = "delete"
  /\ \/ Ok /\ row' = [status |-> "absent", tail |-> <<>>]
     \/ Mishap /\ UNCHANGED row
  /\ reap' = Pass(EvictOrder["delete"])
  /\ UNCHANGED <<reapFrame, files>>

ReapDrop ==
  /\ up /\ reap.pc = "drop"
  /\ tracked' = FALSE
  /\ reap' = Pass(EvictOrder["drop"])
  /\ UNCHANGED <<group, age, poll, up, settled, jstate, waiter, wtail, files, row, mishaps>>

ReapUnlink ==
  /\ up /\ reap.pc = "unlink"
  /\ log' = NoFile
  /\ reap' = Pass(EvictOrder["unlink"])
  /\ UNCHANGED <<reapFrame, temp, row, mishaps>>

-----------------------------------------------------------------------------
(* compact_once and trim_log                                               *)

(* The rows are read once, and `now` with them. *)
CompactRows ==
  /\ up /\ reap.pc = "rows"
  /\ \/ /\ Ok
        /\ reap' = IF row.status = "absent" THEN Pass("known")
                   ELSE [Pass("look") EXCEPT
                           !.seen = IF row.status = "running" THEN "running" ELSE "ended",
                           !.aged = age >= AgedAfter]
     \/ Mishap /\ reap' = Pass("known")
  /\ UNCHANGED <<reapFrame, files, row>>

(* Trusting the status alone. *)
Ended == ~GroupAlive \/ jstate = "exited"

(* group_still_writing *)
Quiet == ~GroupAlive

(* A tracked job goes by its state, another by the row. *)
CompactLook ==
  /\ up /\ reap.pc = "look"
  /\ reap' = IF IF tracked THEN jstate = "running" ELSE reap.seen = "running"
             THEN Pass("known") ELSE [reap EXCEPT !.pc = "probe"]
  /\ UNCHANGED <<reapFrame, files, row, mishaps>>

CompactProbe ==
  /\ up /\ reap.pc = "probe"
  /\ reap' = IF Quiet THEN [reap EXCEPT !.pc = "read"] ELSE Pass("known")
  /\ UNCHANGED <<reapFrame, files, row, mishaps>>

(* The lines without the marker of an earlier pass. *)
Real(lines) == IF lines # <<>> /\ Head(lines) = 0 THEN Tail(lines) ELSE lines

KeepFewer(aged) == IF aged THEN AgedKeep - 1 ELSE RecentKeep
Keep(aged) == IF aged THEN AgedKeep ELSE RecentKeep

(* Only a log over its budget is rewritten. *)
TrimRead ==
  /\ up /\ reap.pc = "read"
  /\ LET over == log # NoFile /\ Len(Real(log.lines)) > Keep(reap.aged) IN
       reap' = IF over
               THEN [reap EXCEPT !.pc = "create",
                                 !.buf = <<0>> \o LastLines(Real(log.lines), Keep(reap.aged))]
               ELSE Pass("known")
  /\ UNCHANGED <<reapFrame, files, row, mishaps>>

(* fs::write truncates an earlier temp and then fills it ... *)
TrimCreate ==
  /\ up /\ reap.pc = "create"
  /\ temp' = File(<<>>)
  /\ reap' = [reap EXCEPT !.pc = "write"]
  /\ UNCHANGED <<reapFrame, log, row, mishaps>>

TrimWrite ==
  /\ up /\ reap.pc = "write"
  /\ temp' = File(reap.buf)
  /\ reap' = [reap EXCEPT !.pc = "rename"]
  /\ UNCHANGED <<reapFrame, log, row, mishaps>>

(* ... and the rename takes the log from whoever has it open. *)
TrimRename ==
  /\ up /\ reap.pc = "rename"
  /\ log' = temp /\ temp' = NoFile /\ linked' = FALSE
  /\ reap' = Pass("known")
  /\ UNCHANGED <<leader, child, written, atExit, memory, age, poll, up, settled, row, mishaps>>

-----------------------------------------------------------------------------
(* reap_orphans: a log no row names and a temp, once old enough.           *)

OrphanKnown ==
  /\ up /\ reap.pc = "known"
  /\ \/ /\ Ok
        /\ reap' = [Pass("sweep") EXCEPT !.seen = IF row.status = "absent" THEN "none" ELSE "ended"]
     \/ Mishap /\ reap' = Pass("stale")
  /\ UNCHANGED <<reapFrame, files, row>>

(* reap_orphans without its arm for `.trim`. *)
OldLogsOnly(file, isLog) == file # NoFile /\ file.age > Retention /\ isLog

OldOrphan(file, isLog) == file # NoFile /\ file.age > Retention

(* Two files of the listing: nothing else removes either meanwhile. *)
OrphanSweep ==
  /\ up /\ reap.pc = "sweep"
  /\ log' = IF reap.seen = "none" /\ OldOrphan(log, TRUE) THEN NoFile ELSE log
  /\ temp' = IF OldOrphan(temp, FALSE) THEN NoFile ELSE temp
  /\ reap' = Pass("stale")
  /\ UNCHANGED <<reapFrame, row, mishaps>>

ReaperPass ==
  \/ ReapStale \/ ReapDelete \/ ReapDrop \/ ReapUnlink
  \/ CompactRows \/ CompactLook \/ CompactProbe
  \/ TrimRead \/ TrimCreate \/ TrimWrite \/ TrimRename
  \/ OrphanKnown \/ OrphanSweep

-----------------------------------------------------------------------------
(* poll and poll_persisted, newest lines first.                            *)

pollFrame == <<group, files, age, row, memory, reap, up, settled>>
PollStep(p, from) == up /\ poll[p].pc = from
Answer(p, kind, state, lines) ==
  poll' = [poll EXCEPT ![p] = [NoPoll EXCEPT !.pc = "answered", !.answer = kind,
                                             !.state = state, !.lines = lines]]

(* The job is cloned out of the map; without one, the row decides. *)
PollStart(p) ==
  /\ PollStep(p, "idle")
  /\ poll' = [poll EXCEPT ![p].pc = IF tracked THEN "state" ELSE "find"]
  /\ UNCHANGED <<pollFrame, mishaps>>

(* find: the row's state, and the tail saved in it. *)
PollFind(p) ==
  /\ PollStep(p, "find")
  /\ \/ /\ row.status # "absent" /\ Ok
        /\ poll' = [poll EXCEPT ![p].pc = "saved", ![p].state = row.status, ![p].tail = row.tail]
     \/ row.status = "absent" /\ Ok /\ Answer(p, "unknown", "none", <<>>)
     \/ Mishap /\ Answer(p, "unknown", "none", <<>>)
  /\ UNCHANGED pollFrame

(* The page read ahead of the state. *)
PageThenState(p) ==
  /\ PollStep(p, "state") /\ log # NoFile
  /\ IF poll[p].answer = "none"
     THEN poll' = [poll EXCEPT ![p].answer = "page", ![p].lines = LastLines(log.lines, Limit)]
     ELSE Answer(p, "page", jstate, poll[p].lines)
  /\ UNCHANGED <<pollFrame, mishaps>>

PollState(p) ==
  /\ PollStep(p, "state")
  /\ poll' = [poll EXCEPT ![p].pc = "page", ![p].state = jstate]
  /\ UNCHANGED <<pollFrame, mishaps>>

PollPage(p) ==
  /\ PollStep(p, "page")
  /\ IF log = NoFile THEN poll' = [poll EXCEPT ![p].pc = "recheck"]
     ELSE Answer(p, "page", poll[p].state, LastLines(log.lines, Limit))
  /\ UNCHANGED <<pollFrame, mishaps>>

(* A log that is gone is an error only while the job is tracked. *)
PollRecheck(p) ==
  /\ PollStep(p, "recheck")
  /\ Answer(p, IF tracked THEN "error" ELSE "unknown", "none", <<>>)
  /\ UNCHANGED <<pollFrame, mishaps>>

(* poll_persisted: the log while it exists, then the saved tail. *)
PollSaved(p) ==
  /\ PollStep(p, "saved")
  /\ Answer(p, "page", poll[p].state,
            LastLines(IF log = NoFile THEN poll[p].tail ELSE log.lines, Limit))
  /\ UNCHANGED <<pollFrame, mishaps>>

PollAgain(p) ==
  /\ PollStep(p, "answered")
  /\ poll' = [poll EXCEPT ![p] = NoPoll]
  /\ UNCHANGED <<pollFrame, mishaps>>

-----------------------------------------------------------------------------
(* The server dies between any two steps and is started again; systemd may *)
(* end the group with it (KillMode).                                       *)

Die ==
  /\ up /\ Mishap
  /\ up' = FALSE
  /\ \/ UNCHANGED <<leader, child, atExit>>
     \/ /\ leader' = FALSE /\ child' = FALSE
        /\ atExit' = IF leader THEN written ELSE atExit
  /\ tracked' = FALSE /\ jstate' = "running" /\ waiter' = "none" /\ wtail' = <<>>
  /\ reap' = Pass("off") /\ settled' = FALSE
  /\ poll' = [p \in Poll |-> NoPoll]
  /\ UNCHANGED <<written, linked, files, age, row>>

Restart ==
  /\ ~up /\ up' = TRUE
  /\ reap' = Pass("stale")
  /\ UNCHANGED <<group, files, age, row, memory, poll, settled, mishaps>>

(* The startup reconcile, beside the first pass: see JobEngine. *)
Reconcile ==
  /\ up /\ ~settled /\ settled' = TRUE
  /\ row' = IF row.status = "running" /\ ~GroupAlive THEN [row EXCEPT !.status = "failed"] ELSE row
  /\ UNCHANGED <<group, files, age, memory, reap, poll, up, mishaps>>

(* Time passes; ages beyond the retention are all alike. *)
Older(a) == IF a <= Retention THEN a + 1 ELSE a
OlderFile(file) == IF file = NoFile THEN NoFile ELSE [file EXCEPT !.age = Older(@)]

Tick ==
  /\ age' = Older(age)
  /\ log' = OlderFile(log) /\ temp' = OlderFile(temp)
  /\ UNCHANGED <<group, row, memory, reap, poll, up, settled, mishaps>>

Next ==
  \/ Write \/ LeaderExits \/ ChildExits
  \/ WaiterRecord \/ WaiterTail \/ WaiterUpdate
  \/ ReaperPass
  \/ \E p \in Poll : PollStart(p) \/ PollFind(p) \/ PollState(p) \/ PollPage(p)
                     \/ PollRecheck(p) \/ PollSaved(p) \/ PollAgain(p)
  \/ Die \/ Restart \/ Reconcile \/ Tick

Spec == Init /\ [][Next]_vars

=============================================================================
