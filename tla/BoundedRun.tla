------------------------------- MODULE BoundedRun -------------------------------
(***************************************************************************)
(* One `ls`, `find` or `grep` of the file tool: run_bounded spawns it,     *)
(* drains both of its pipes into one capped buffer until they close, the   *)
(* cap or the deadline, and never leaves it behind                         *)
(* (tools/files/shell.rs).  These programs fork nobody.                    *)
(***************************************************************************)
EXTENDS Integers

CONSTANTS
  MaxBytes,  \* the cap on what is returned
  PipeSize,  \* what a pipe holds before its writer blocks
  Chunk,     \* what one read takes at most
  MaxOutput  \* bound: what the child writes to a stream

ASSUME RunConstants ==
  MaxBytes \in Nat \ {0} /\ PipeSize \in Nat \ {0} /\ Chunk \in Nat \ {0} /\ MaxOutput \in Nat

Stream == {"stdout", "stderr"}
Codes == {"0", "1", "2", "signal"}

VARIABLES
  want,    \* want[s]: bytes the child has to write to s
  child,   \* running, killed (by a SIGKILL still to take effect), zombie, reaped
  code,    \* what it exited with
  wrote,   \* wrote[s]: bytes the child has written to s
  open,    \* open[s]: the child still holds its end of s
  pc,      \* where the call is
  took,    \* took[s]: bytes the call has read from s
  kept,    \* bytes in buf
  eof,     \* stdout_done, stderr_done
  late,    \* the deadline has passed
  answer   \* what the call returned

childVars == <<want, child, code, wrote, open>>
callVars == <<pc, took, kept, eof, answer>>
vars == <<childVars, callVars, late>>

Answers == {"none", "output", "truncated", "no matches", "status", "signal", "timeout", "error",
            "cancelled"}

TypeOK ==
  /\ child \in {"running", "killed", "zombie", "reaped"} /\ code \in Codes
  /\ want \in [Stream -> 0..MaxOutput] /\ wrote \in [Stream -> 0..MaxOutput]
  /\ open \in [Stream -> BOOLEAN]
  /\ pc \in {"loop", "capped", "timeout", "error", "reap", "wait", "over"}
  /\ took \in [Stream -> 0..MaxOutput] /\ kept \in 0..MaxBytes
  /\ eof \in [Stream -> BOOLEAN]
  /\ late \in BOOLEAN /\ answer \in Answers

Init ==
  /\ want \in [Stream -> 0..MaxOutput] /\ child = "running" /\ code = "0"
  /\ wrote = [s \in Stream |-> 0] /\ open = [s \in Stream |-> TRUE]
  /\ pc = "loop" /\ took = [s \in Stream |-> 0] /\ kept = 0
  /\ eof = [s \in Stream |-> FALSE]
  /\ late = FALSE /\ answer = "none"

InPipe(s) == wrote[s] - took[s]
Smaller(a, b) == IF a < b THEN a ELSE b

-----------------------------------------------------------------------------
(* The child writes what it has to, blocking on a full pipe, may close a  *)
(* stream early, and exits; or it hangs, or a signal ends it.              *)

ChildWrites(s) ==
  /\ child = "running" /\ open[s]
  /\ InPipe(s) < PipeSize /\ wrote[s] < want[s]
  /\ wrote' = [wrote EXCEPT ![s] = @ + 1]
  /\ UNCHANGED <<want, child, code, open, callVars, late>>

ChildCloses(s) ==
  /\ child = "running" /\ open[s] /\ wrote[s] = want[s]
  /\ open' = [open EXCEPT ![s] = FALSE]
  /\ UNCHANGED <<want, child, code, wrote, callVars, late>>

ChildEnds(status) ==
  /\ child' = "zombie" /\ code' = status
  /\ open' = [s \in Stream |-> FALSE]
  /\ UNCHANGED <<want, wrote, callVars, late>>

ChildExits == child = "running" /\ wrote = want /\ \E c \in Codes \ {"signal"} : ChildEnds(c)

ChildCrashes == child = "running" /\ ChildEnds("signal")

(* A SIGKILL takes effect. *)
ChildDies == child = "killed" /\ ChildEnds("signal")

Killed == IF child = "running" THEN "killed" ELSE child

-----------------------------------------------------------------------------
(* The select loop: whichever branch is ready, in any order.               *)

Return(result) == pc' = "over" /\ answer' = result

(* extend_bounded without its bound. *)
ExtendWhole(n) == kept + n

(* extend_bounded *)
Extend(n) == kept + Smaller(MaxBytes - kept, n)

Read(s) ==
  /\ pc = "loop" /\ ~eof[s]
  /\ \E n \in 1..Smaller(Chunk, InPipe(s)) :
       /\ took' = [took EXCEPT ![s] = @ + n]
       /\ kept' = Extend(n)
       /\ pc' = IF kept' >= MaxBytes THEN "capped" ELSE "loop"
  /\ UNCHANGED <<childVars, eof, late, answer>>

(* The loop left at the first end of a stream. *)
AnyEnded == \E s \in Stream : eof'[s]

(* while !(stdout_done && stderr_done) *)
AllEnded == \A s \in Stream : eof'[s]

ReadEnd(s) ==
  /\ pc = "loop" /\ ~eof[s]
  /\ ~open[s] /\ InPipe(s) = 0
  /\ eof' = [eof EXCEPT ![s] = TRUE]
  /\ pc' = IF AllEnded THEN "wait" ELSE "loop"
  /\ UNCHANGED <<childVars, took, kept, late, answer>>

ReadFails ==
  /\ pc = "loop" /\ pc' = "error"
  /\ UNCHANGED <<childVars, took, kept, eof, late, answer>>

Elapse == ~late /\ late' = TRUE /\ UNCHANGED <<childVars, callVars>>

TimesOut ==
  /\ pc = "loop" /\ late
  /\ pc' = "timeout"
  /\ UNCHANGED <<childVars, took, kept, eof, late, answer>>

(* child.kill() signals, and then waits for the child to be gone. *)
Kill ==
  /\ pc \in {"capped", "timeout", "error"} /\ child = "running"
  /\ child' = Killed
  /\ UNCHANGED <<want, code, wrote, open, callVars, late>>

KillReaps ==
  /\ pc \in {"capped", "timeout", "error"} /\ child = "zombie"
  /\ child' = "reaped"
  /\ Return(IF pc = "capped" THEN "truncated" ELSE pc)
  /\ UNCHANGED <<want, code, wrote, open, took, kept, eof, late>>

(* Both streams have ended: the status ... *)
Status == IF code = "0" THEN "output" ELSE IF code = "signal" THEN "signal" ELSE "status"

(* ... of which list and grep make the call's answer: grep's 1 without any *)
(* output says that nothing matched.                                       *)
Outcome == IF code = "1" /\ kept = 0 THEN "no matches" ELSE Status

WaitReaps ==
  /\ pc = "wait" /\ child = "zombie"
  /\ child' = "reaped"
  /\ Return(Outcome)
  /\ UNCHANGED <<want, code, wrote, open, took, kept, eof, late>>

(* Waiting for the exit without the deadline. *)
WaitForEver == pc = "wait" /\ UNCHANGED vars

WaitTimesOut ==
  /\ pc = "wait" /\ late /\ child # "zombie"
  /\ pc' = "timeout"
  /\ UNCHANGED <<childVars, took, kept, eof, late, answer>>

(* The future dropped without kill_on_drop. *)
DropOnly == child

(* The future dropped with kill_on_drop. *)
Dropped == Killed

(* wait() itself fails: the child is dropped with the call. *)
WaitFails ==
  /\ pc = "wait" /\ child' = Dropped
  /\ Return("error")
  /\ UNCHANGED <<want, code, wrote, open, took, kept, eof, late>>

(* The client goes away at any await. *)
Cancel ==
  /\ pc # "over" /\ child' = Dropped
  /\ Return("cancelled")
  /\ UNCHANGED <<want, code, wrote, open, took, kept, eof, late>>

(* tokio reaps what was dropped. *)
ReapDropped ==
  /\ pc = "over" /\ child = "zombie"
  /\ child' = "reaped"
  /\ UNCHANGED <<want, code, wrote, open, callVars, late>>

ChildWorks == (\E s \in Stream : ChildWrites(s)) \/ ChildExits

(* One stream drained to its end before the other is polled. *)
ReadInTurn == (Read("stdout") \/ ReadEnd("stdout")) \/ (eof["stdout"] /\ (Read("stderr") \/ ReadEnd("stderr")))

(* tokio::select! polls every stream that has not ended. *)
ReadReady == \E s \in Stream : Read(s) \/ ReadEnd(s)

CallStep == ReadReady \/ TimesOut \/ Kill \/ KillReaps \/ WaitReaps \/ WaitTimesOut

Next ==
  \/ ChildWorks \/ (\E s \in Stream : ChildCloses(s)) \/ ChildCrashes \/ ChildDies
  \/ CallStep \/ Elapse
  \/ ReadFails \/ WaitFails \/ Cancel \/ ReapDropped

Spec == Init /\ [][Next]_vars

(* The runtime polls the call, and the kernel delivers a SIGKILL.  Neither *)
(* the child nor the client owes anybody a step.                           *)
LiveSpec == Spec /\ WF_vars(CallStep) /\ WF_vars(ChildDies)

-----------------------------------------------------------------------------
(* Properties *)

(* No call, however it returns, leaves a child that nobody has told to     *)
(* stop: a find of a cancelled request does not go on walking the tree.    *)
NoOrphan == pc = "over" => child # "running"

(* An answer that looks complete is: all that was written is in it, under  *)
(* the cap.  One that says it was cut is a full buffer, and grep's "no     *)
(* matches" is said of a child that wrote nothing to either stream.        *)
AnswerIsComplete ==
  /\ answer \in {"output", "status", "signal", "no matches"} =>
       /\ took = wrote /\ kept < MaxBytes
       /\ kept = wrote["stdout"] + wrote["stderr"]
  /\ answer = "truncated" => kept = MaxBytes
  /\ answer = "no matches" => \A s \in Stream : wrote[s] = 0

(* Once the deadline passes the call returns, even when the child has      *)
(* closed both pipes and never exits.                                      *)
EndsByDeadline == late ~> pc = "over"

(* A child that goes on working is never blocked for good by a full pipe:  *)
(* its call returns without the deadline's help.                           *)
NeitherPipeBlocks == WF_vars(ChildWorks) => <>(pc = "over")

=============================================================================
