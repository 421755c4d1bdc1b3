---------------------------- MODULE BoundedRun_proofs ----------------------------
(***************************************************************************)
(* The bounded runner never leaves a child running and never passes off a  *)
(* part of the output as the whole, whatever the cap, the sizes of pipes   *)
(* and reads, and the output.                                              *)
(***************************************************************************)
EXTENDS BoundedRun, TLAPS

(* A stream at its end is closed and has been read to the last byte. *)
EndIsEnd == \A s \in Stream : eof[s] => ~open[s] /\ took[s] = wrote[s]

ReadsWhatIsWritten == \A s \in Stream : took[s] <= wrote[s]

(* Until something goes wrong the buffer holds all that was read, and has  *)
(* room left.                                                              *)
BufferIsWhole ==
  /\ pc \in {"loop", "wait"} => kept = took["stdout"] + took["stderr"] /\ kept < MaxBytes
  /\ pc = "wait" => \A s \in Stream : eof[s]
  /\ pc = "capped" => kept = MaxBytes

Answered == answer = "none" <=> pc # "over"

IInv ==
  /\ TypeOK /\ EndIsEnd /\ ReadsWhatIsWritten /\ BufferIsWhole /\ Answered
  /\ NoOrphan /\ AnswerIsComplete

USE RunConstants

LEMMA InitHolds == ASSUME Init PROVE IInv
<1>1. TypeOK
  <2>1. /\ wrote \in [Stream -> 0..MaxOutput] /\ took \in [Stream -> 0..MaxOutput]
        /\ kept \in 0..MaxBytes
    BY DEF Init
  <2>2. open \in [Stream -> BOOLEAN] /\ eof \in [Stream -> BOOLEAN]
    BY DEF Init
  <2> QED
    BY <2>1, <2>2 DEF Init, TypeOK, Codes, Answers
<1>2. ReadsWhatIsWritten /\ EndIsEnd
  BY DEF Init, ReadsWhatIsWritten, EndIsEnd
<1>3. BufferIsWhole
  BY DEF Init, BufferIsWhole, Stream
<1>4. Answered /\ NoOrphan /\ AnswerIsComplete
  BY DEF Init, Answered, NoOrphan, AnswerIsComplete
<1> QED
  BY <1>1, <1>2, <1>3, <1>4 DEF IInv

(* What one read adds to the buffer, and when the cap is reached. *)
LEMMA ExtendBounds ==
  ASSUME kept \in 0..MaxBytes, NEW n \in Nat
  PROVE  /\ Extend(n) \in 0..MaxBytes
         /\ Extend(n) < MaxBytes => Extend(n) = kept + n
  BY DEF Extend, Smaller

LEMMA ReadKeeps == ASSUME NEW s \in Stream, IInv, Read(s) PROVE IInv'
<1> USE DEF IInv
<1>1. PICK n \in 1..Smaller(Chunk, InPipe(s)) :
        /\ took' = [took EXCEPT ![s] = @ + n]
        /\ kept' = Extend(n)
        /\ pc' = IF kept' >= MaxBytes THEN "capped" ELSE "loop"
  BY DEF Read
<1>2. pc = "loop" /\ ~eof[s] /\ UNCHANGED <<childVars, eof, late, answer>>
  BY DEF Read
<1>3. n \in Nat /\ n <= wrote[s] - took[s]
  BY <1>1 DEF Smaller, InPipe, TypeOK
<1>4. /\ kept' \in 0..MaxBytes
      /\ kept' < MaxBytes => kept' = kept + n
  BY <1>1, <1>3, ExtendBounds DEF TypeOK
<1>5. took'[s] = took[s] + n /\ took'[s] <= wrote[s]
  BY <1>1, <1>3 DEF TypeOK
<1>6. TypeOK'
  BY <1>1, <1>2, <1>3, <1>4, <1>5 DEF TypeOK, childVars
<1>7. EndIsEnd' /\ ReadsWhatIsWritten'
  BY <1>1, <1>2, <1>3, <1>5 DEF EndIsEnd, ReadsWhatIsWritten, TypeOK, childVars
<1>8. BufferIsWhole'
  <2>1. kept' < MaxBytes => kept' = took'["stdout"] + took'["stderr"]
    BY <1>1, <1>2, <1>3, <1>4 DEF BufferIsWhole, TypeOK, Stream
  <2> QED
    BY <1>1, <1>4, <2>1 DEF BufferIsWhole
<1>9. Answered' /\ NoOrphan' /\ AnswerIsComplete'
  BY <1>1, <1>2 DEF Answered, NoOrphan, AnswerIsComplete
<1> QED
  BY <1>6, <1>7, <1>8, <1>9

LEMMA ReadEndKeeps == ASSUME NEW s \in Stream, IInv, ReadEnd(s) PROVE IInv'
<1> USE DEF IInv
<1>1. EndIsEnd'
  BY DEF ReadEnd, EndIsEnd, InPipe, TypeOK, childVars
<1>2. BufferIsWhole'
  BY DEF ReadEnd, AllEnded, BufferIsWhole
<1>3. TypeOK' /\ ReadsWhatIsWritten'
  BY DEF ReadEnd, TypeOK, ReadsWhatIsWritten, childVars
<1>4. Answered' /\ NoOrphan' /\ AnswerIsComplete'
  BY DEF ReadEnd, Answered, NoOrphan, AnswerIsComplete
<1> QED
  BY <1>1, <1>2, <1>3, <1>4

LEMMA ChildKeeps ==
  ASSUME IInv,
         \/ ChildWorks \/ (\E s \in Stream : ChildCloses(s)) \/ ChildCrashes \/ ChildDies
  PROVE  IInv'
<1> USE DEF IInv
<1>1. ASSUME NEW s \in Stream, ChildWrites(s) PROVE IInv'
  <2>1. pc # "over" /\ open[s] /\ ~eof[s]
    BY <1>1 DEF ChildWrites, NoOrphan, EndIsEnd
  <2>2. wrote' = [wrote EXCEPT ![s] = wrote[s] + 1] /\ wrote[s] < want[s]
    BY <1>1 DEF ChildWrites
  <2>3. TypeOK'
    BY <1>1, <2>2 DEF ChildWrites, TypeOK, callVars
  <2>4. EndIsEnd' /\ ReadsWhatIsWritten'
    BY <1>1, <2>1, <2>2 DEF ChildWrites, EndIsEnd, ReadsWhatIsWritten, TypeOK, callVars
  <2>5. BufferIsWhole' /\ Answered' /\ NoOrphan'
    BY <1>1 DEF ChildWrites, BufferIsWhole, Answered, NoOrphan, callVars
  <2>6. AnswerIsComplete'
    BY <1>1, <2>1 DEF ChildWrites, AnswerIsComplete, Answered, callVars
  <2> QED
    BY <2>3, <2>4, <2>5, <2>6
<1>2. ASSUME NEW s \in Stream, ChildCloses(s) PROVE IInv'
  BY <1>2 DEF ChildCloses, callVars, TypeOK, EndIsEnd, ReadsWhatIsWritten, BufferIsWhole,
              Answered, NoOrphan, AnswerIsComplete
<1>3. ASSUME NEW c \in Codes, ChildEnds(c) PROVE IInv'
  BY <1>3 DEF ChildEnds, callVars, TypeOK, EndIsEnd, ReadsWhatIsWritten, BufferIsWhole,
              Answered, NoOrphan, AnswerIsComplete
<1> QED
  BY <1>1, <1>2, <1>3 DEF ChildWorks, ChildExits, ChildCrashes, ChildDies, Codes

(* A step of the call that reads nothing. *)
LEMMA CallKeeps ==
  ASSUME IInv,
         \/ ReadFails \/ TimesOut \/ Kill \/ KillReaps \/ WaitReaps \/ WaitTimesOut
         \/ WaitFails \/ Cancel \/ ReapDropped \/ Elapse
  PROVE  IInv'
<1> USE DEF IInv
<1>1. CASE ReadFails \/ TimesOut \/ WaitTimesOut
  BY <1>1 DEF ReadFails, TimesOut, WaitTimesOut, childVars, TypeOK, EndIsEnd,
              ReadsWhatIsWritten, BufferIsWhole, Answered, NoOrphan, AnswerIsComplete
<1>2. CASE Kill \/ ReapDropped \/ Elapse
  BY <1>2 DEF Kill, Killed, ReapDropped, Elapse, callVars, childVars, TypeOK, EndIsEnd,
              ReadsWhatIsWritten, BufferIsWhole, Answered, NoOrphan, AnswerIsComplete
<1>3. CASE KillReaps
  BY <1>3 DEF KillReaps, Return, TypeOK, EndIsEnd, ReadsWhatIsWritten, BufferIsWhole,
              Answered, NoOrphan, AnswerIsComplete, Answers
<1>4. CASE WaitReaps
  <2>1. /\ kept = wrote["stdout"] + wrote["stderr"] /\ kept < MaxBytes
        /\ \A s \in Stream : took[s] = wrote[s] /\ wrote[s] \in Nat
    BY <1>4 DEF WaitReaps, EndIsEnd, BufferIsWhole, TypeOK, Stream
  <2>2. took = wrote
    BY <2>1 DEF TypeOK
  <2>3. Outcome = "no matches" => \A s \in Stream : wrote[s] = 0
    BY <2>1 DEF Outcome, Status, Stream
  <2>4. Outcome \in {"output", "status", "signal", "no matches"}
    BY DEF Outcome, Status
  <2>5. AnswerIsComplete'
    BY <1>4, <2>1, <2>2, <2>3, <2>4 DEF WaitReaps, Return, AnswerIsComplete
  <2> QED
    BY <1>4, <2>4, <2>5 DEF WaitReaps, Return, TypeOK, EndIsEnd, ReadsWhatIsWritten,
                            BufferIsWhole, Answered, NoOrphan, Answers
<1>5. CASE WaitFails \/ Cancel
  BY <1>5 DEF WaitFails, Cancel, Dropped, Killed, Return, TypeOK, EndIsEnd,
              ReadsWhatIsWritten, BufferIsWhole, Answered, NoOrphan, AnswerIsComplete, Answers
<1> QED
  BY <1>1, <1>2, <1>3, <1>4, <1>5

LEMMA StutterKeeps == IInv /\ UNCHANGED vars => IInv'
  BY DEF vars, childVars, callVars, IInv, TypeOK, EndIsEnd, ReadsWhatIsWritten, BufferIsWhole,
         Answered, NoOrphan, AnswerIsComplete

(* The conjunction is an invariant of the runner. *)
THEOREM Invariance == Spec => []IInv
<1>1. IInv /\ [Next]_vars => IInv'
  BY ReadKeeps, ReadEndKeeps, ChildKeeps, CallKeeps, StutterKeeps DEF Next, CallStep, ReadReady
<1> QED
  BY <1>1, InitHolds, PTL DEF Spec

(* The buffer never outgrows the cap, and every variable keeps its type. *)
THEOREM RunIsTyped == Spec => []TypeOK
<1>1. IInv => TypeOK
  BY DEF IInv
<1> QED
  BY <1>1, Invariance, PTL

(* However the call returns, by an answer, an error, the deadline or its   *)
(* client's going away, the child is not left running.                     *)
THEOREM NothingIsOrphaned == Spec => []NoOrphan
<1>1. IInv => NoOrphan
  BY DEF IInv
<1> QED
  BY <1>1, Invariance, PTL

(* An answer that says nothing of a cut holds all of the child's output.   *)
THEOREM AnswersAreWhole == Spec => []AnswerIsComplete
<1>1. IInv => AnswerIsComplete
  BY DEF IInv
<1> QED
  BY <1>1, Invariance, PTL

=============================================================================
