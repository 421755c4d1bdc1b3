------------------------------- MODULE JobHistory -------------------------------
(***************************************************************************)
(* What the job table promises whoever reads it (`job(action="list")`,     *)
(* `mcp-ssh jobs`): every id has a history of its own,                     *)
(*                                                                         *)
(*     absent -> running -> exited | killed | restarted -> absent          *)
(*                                                                         *)
(* in which nothing that ended runs again, a recorded exit is never        *)
(* replaced by a kill or by a restart, and a row that aged out stays away  *)
(* until a new job starts under its id.  Only the server that owns the     *)
(* job may still turn a kill recorded by another process into the exit it  *)
(* saw itself.                                                             *)
(***************************************************************************)
CONSTANT Id

VARIABLE history

Statuses == {"absent", "running", "exited", "killed", "restarted"}

HistoryInit == history = [i \in Id |-> "absent"]

Move(ids, from, to) ==
  /\ \A i \in ids : history[i] \in from
  /\ history' = [i \in Id |-> IF i \in ids THEN to ELSE history[i]]

Start(i) == Move({i}, {"absent"}, "running")
Exit(i) == Move({i}, {"running", "killed"}, "exited")
Kill(i) == Move({i}, {"running"}, "killed")

(* A restart settles, and the reaper drops, any number of rows at once. *)
Settle(ids) == Move(ids, {"running"}, "restarted")
Evict(ids) == Move(ids, Statuses, "absent")

HistoryNext ==
  \/ \E i \in Id : Start(i) \/ Exit(i) \/ Kill(i)
  \/ \E ids \in SUBSET Id : Settle(ids) \/ Evict(ids)

HistorySpec == HistoryInit /\ [][HistoryNext]_history

=============================================================================
