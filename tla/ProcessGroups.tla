----------------------------- MODULE ProcessGroups -----------------------------
(***************************************************************************)
(* The operating system's side of a job: the process group each launch     *)
(* leads, as src/jobs/signal.rs probes and signals it.                     *)
(*                                                                         *)
(* `run` starts its child with process_group(0), so the shell is the       *)
(* leader of a fresh group.  Whatever else the command leaves in that      *)
(* group is one descendant here: one is enough to tell "the leader exited" *)
(* from "the group is gone".  An exited leader is a zombie until its       *)
(* parent reaps it, and a zombie still answers `kill -0`.                  *)
(*                                                                         *)
(* Signals and probes are runs of the `kill` command.  One that cannot be  *)
(* started (a miss) reads as "not delivered", or as "the group is gone".   *)
(* A process decides for itself what SIGTERM does to it; SIGKILL always    *)
(* ends it.  Pid reuse is left out, as the code's comments leave it out.   *)
(***************************************************************************)
EXTENDS Naturals

CONSTANTS
  Launch,     \* the calls of `run`; each leads at most one process group
  None,       \* no launch
  MaxMisses   \* bound: `kill` commands that cannot be started

ASSUME GroupConstants == None \notin Launch /\ MaxMisses \in Nat

VARIABLES
  leader,   \* leader[l]: the shell `run` spawned
  child,    \* child[l]: a descendant of it is alive in the same group
  misses    \* `kill` commands that could not be started so far

groupVars == <<leader, child, misses>>

LeaderStates == {"unborn", "alive", "zombie", "gone"}

GroupsTypeOK ==
  /\ leader \in [Launch -> LeaderStates]
  /\ child \in [Launch -> BOOLEAN]
  /\ misses \in Nat

GroupsInit ==
  /\ leader = [l \in Launch |-> "unborn"]
  /\ child = [l \in Launch |-> FALSE]
  /\ misses = 0

-----------------------------------------------------------------------------

(* `kill -0 -pgid` succeeds: some member, a zombie included, is left. *)
GroupAlive(l) == leader[l] \in {"alive", "zombie"} \/ child[l]

(* An exited leader waits for its parent, if the parent still runs. *)
Dead(parented) == IF parented THEN "zombie" ELSE "gone"

(* A new group: the leader, and perhaps a descendant it leaves running. *)
StartGroup(l) ==
  /\ leader' = [leader EXCEPT ![l] = "alive"]
  /\ \E forks \in BOOLEAN : child' = [child EXCEPT ![l] = forks]
  /\ UNCHANGED misses

(* A member exits on its own. *)
LeaderExit(l, parented) ==
  /\ leader[l] = "alive"
  /\ leader' = [leader EXCEPT ![l] = Dead(parented)]
  /\ UNCHANGED <<child, misses>>

ChildExit(l) ==
  /\ child[l]
  /\ child' = [child EXCEPT ![l] = FALSE]
  /\ UNCHANGED <<leader, misses>>

(* The parent collects the exited leader. *)
Reap(l) ==
  /\ leader[l] = "zombie"
  /\ leader' = [leader EXCEPT ![l] = "gone"]
  /\ UNCHANGED <<child, misses>>

(* The parent process ends.  init reaps the zombies; under systemd's       *)
(* KillMode=control-group every group is killed with the service.          *)
ParentDies(controlGroup) ==
  /\ leader' = [l \in Launch |->
                  IF leader[l] = "zombie" \/ (controlGroup /\ leader[l] = "alive")
                  THEN "gone" ELSE leader[l]]
  /\ child' = IF controlGroup THEN [l \in Launch |-> FALSE] ELSE child
  /\ UNCHANGED misses

-----------------------------------------------------------------------------
(* The `kill` command                                                      *)

Miss == misses < MaxMisses /\ misses' = misses + 1

(* group_alive answers `alive`. *)
Probe(l, alive) ==
  /\ UNCHANGED <<leader, child>>
  /\ \/ alive = GroupAlive(l) /\ UNCHANGED misses
     \/ ~alive /\ Miss

(* Who is left of a signalled group: with KILL nobody, with TERM whoever   *)
(* does not obey.                                                          *)
Signalled(l, signal, parented) ==
  /\ \E obeys \in BOOLEAN :
       leader' = IF leader[l] = "alive" /\ (obeys \/ signal = "KILL")
                 THEN [leader EXCEPT ![l] = Dead(parented)]
                 ELSE leader
  /\ \E obeys \in BOOLEAN :
       child' = IF obeys \/ signal = "KILL"
                THEN [child EXCEPT ![l] = FALSE] ELSE child

(* signal_group: delivered to every member, or nobody was there to take it,*)
(* or the command did not run.                                             *)
SignalGroup(l, signal, parented, delivered) ==
  \/ /\ delivered /\ GroupAlive(l)
     /\ Signalled(l, signal, parented) /\ UNCHANGED misses
  \/ /\ ~delivered /\ ~GroupAlive(l)
     /\ UNCHANGED groupVars
  \/ /\ ~delivered /\ Miss
     /\ UNCHANGED <<leader, child>>

=============================================================================
