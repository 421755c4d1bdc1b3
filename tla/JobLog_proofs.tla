------------------------------ MODULE JobLog_proofs ------------------------------
(***************************************************************************)
(* What readers of a job's output may rely on, for every budget of the     *)
(* trims, every length of a tail or a page, and any number of polls.       *)
(***************************************************************************)
EXTENDS JobLogProperties, SequenceTheorems, TLAPS

USE LogConstants

-----------------------------------------------------------------------------
(* Sequences of lines *)

LEMMA LastLinesFacts ==
  ASSUME NEW S, NEW s \in Seq(S), NEW n \in Nat
  PROVE  /\ LastLines(s, n) \in Seq(S)
         /\ Len(LastLines(s, n)) = IF Len(s) <= n THEN Len(s) ELSE n
         /\ \A i \in 1..Len(LastLines(s, n)) :
              LastLines(s, n)[i] = s[Len(s) - Len(LastLines(s, n)) + i]
<1>1. Len(s) \in Nat
  OBVIOUS
<1>2. CASE Len(s) <= n
  BY <1>1, <1>2 DEF LastLines
<1>3. CASE Len(s) > n
  <2>1. LastLines(s, n) = SubSeq(s, Len(s) - n + 1, Len(s))
    BY <1>1, <1>3 DEF LastLines
  <2>2. /\ SubSeq(s, Len(s) - n + 1, Len(s)) \in Seq(S)
        /\ Len(SubSeq(s, Len(s) - n + 1, Len(s))) = n
        /\ \A i \in 1..n : SubSeq(s, Len(s) - n + 1, Len(s))[i] = s[Len(s) - n + i]
    BY <1>1, <1>3, SubSeqProperties
  <2> QED
    BY <1>1, <1>3, <2>1, <2>2
<1> QED
  BY <1>1, <1>2, <1>3

LEMMA TailFacts ==
  ASSUME NEW S, NEW s \in Seq(S), s # <<>>
  PROVE  /\ Tail(s) \in Seq(S)
         /\ Len(s) \in Nat \ {0} /\ Len(Tail(s)) = Len(s) - 1
         /\ \A i \in 1..Len(Tail(s)) : Tail(s)[i] = s[i + 1]
         /\ Head(s) = s[1]
  BY HeadTailProperties, EmptySeq

LEMMA OutputUptoFacts ==
  ASSUME NEW n \in Nat
  PROVE  /\ OutputUpto(n) \in Seq(Nat) /\ Len(OutputUpto(n)) = n
         /\ \A i \in 1..n : OutputUpto(n)[i] = i
<1>1. OutputUpto(n) = [k \in 1..n |-> k]
  BY DEF OutputUpto
<1>2. [k \in 1..n |-> k] \in [1..n -> Nat]
  OBVIOUS
<1>3. [k \in 1..n |-> k] \in Seq(Nat)
  BY <1>2, SeqDef
<1> QED
  BY <1>1, <1>3

(* A log that is whole, and one that a trim has shortened. *)
Whole(lines, w) == Len(lines) = w /\ \A i \in 1..w : lines[i] = i

Trimmed(lines, w) ==
  /\ AgedKeep < Len(lines) /\ Len(lines) - 1 <= w
  /\ lines[1] = 0
  /\ \A i \in 2..Len(lines) : lines[i] = w - Len(lines) + i

Holds(lines, w) == Whole(lines, w) \/ Trimmed(lines, w)

LEMMA EmptyIsWhole == <<>> \in Lines /\ Holds(<<>>, 0)
  BY DEF Lines, Holds, Whole

LEMMA AppendHolds ==
  ASSUME NEW lines \in Lines, NEW w \in Nat, w < MaxLines, Holds(lines, w)
  PROVE  Append(lines, w + 1) \in Lines /\ Holds(Append(lines, w + 1), w + 1)
<1>1. Len(lines) \in Nat /\ w + 1 \in 0..MaxLines
  BY DEF Lines
<1>2. /\ Append(lines, w + 1) \in Lines
      /\ Len(Append(lines, w + 1)) = Len(lines) + 1
      /\ \A i \in 1..Len(lines) : Append(lines, w + 1)[i] = lines[i]
      /\ Append(lines, w + 1)[Len(lines) + 1] = w + 1
  BY <1>1, AppendProperties DEF Lines
<1>3. CASE Whole(lines, w)
  BY <1>1, <1>2, <1>3 DEF Holds, Whole
<1>4. CASE Trimmed(lines, w)
  <2>1. Append(lines, w + 1)[1] = 0
    BY <1>1, <1>2, <1>4 DEF Trimmed
  <2>2. ASSUME NEW i \in 2..(Len(lines) + 1)
        PROVE  Append(lines, w + 1)[i] = (w + 1) - (Len(lines) + 1) + i
    <3>1. CASE i = Len(lines) + 1
      BY <1>1, <1>2, <3>1
    <3>2. CASE i <= Len(lines)
      <4>1. i \in 1..Len(lines) /\ i \in 2..Len(lines)
        BY <1>1, <3>2
      <4>2. lines[i] = w - Len(lines) + i
        BY <1>4, <4>1 DEF Trimmed
      <4> QED
        BY <1>1, <1>2, <4>1, <4>2
    <3> QED
      BY <1>1, <3>1, <3>2
  <2>3. AgedKeep < Len(lines) + 1 /\ Len(lines) + 1 - 1 <= w + 1
    BY <1>1, <1>4 DEF Trimmed
  <2> QED
    BY <1>2, <2>1, <2>2, <2>3 DEF Holds, Trimmed
<1> QED
  BY <1>3, <1>4 DEF Holds

(* Dropping the marker leaves a run of lines that ends at the last one. *)
LEMMA OutputFacts ==
  ASSUME NEW lines \in Lines, NEW w \in Nat, Holds(lines, w)
  PROVE  /\ Output(lines) \in Lines /\ Real(lines) = Output(lines)
         /\ Len(Output(lines)) \in Nat /\ Len(Output(lines)) <= w
         /\ \A i \in 1..Len(Output(lines)) : Output(lines)[i] = w - Len(Output(lines)) + i
         /\ \/ Len(Output(lines)) = w
            \/ Head(lines) = 0 /\ Len(Output(lines)) >= AgedKeep
<1>1. Real(lines) = Output(lines) /\ Len(lines) \in Nat
  BY DEF Real, Output, Lines
<1>2. CASE Whole(lines, w)
  <2>1. lines # <<>> => Head(lines) = 1
    BY <1>1, <1>2, TailFacts DEF Lines, Whole
  <2>2. Output(lines) = lines
    BY <2>1 DEF Output
  <2> QED
    BY <1>1, <1>2, <2>2 DEF Whole
<1>3. CASE Trimmed(lines, w)
  <2>1. lines # <<>>
    BY <1>1, <1>3 DEF Trimmed
  <2>2. Head(lines) = 0 /\ Output(lines) = Tail(lines)
    BY <1>3, <2>1, TailFacts DEF Lines, Trimmed, Output
  <2>3. /\ Output(lines) \in Lines
        /\ Len(Output(lines)) = Len(lines) - 1
        /\ \A i \in 1..Len(Output(lines)) : Output(lines)[i] = lines[i + 1]
    BY <2>1, <2>2, TailFacts DEF Lines
  <2>4. ASSUME NEW i \in 1..Len(Output(lines))
        PROVE  Output(lines)[i] = w - Len(Output(lines)) + i
    <3>1. i + 1 \in 2..Len(lines)
      BY <1>1, <2>3
    <3>2. lines[i + 1] = w - Len(lines) + (i + 1)
      BY <1>3, <3>1 DEF Trimmed
    <3> QED
      BY <1>1, <2>3, <3>1, <3>2
  <2>5. AgedKeep < Len(lines) /\ Len(lines) - 1 <= w
    BY <1>3 DEF Trimmed
  <2>6. Len(Output(lines)) \in Nat /\ Len(Output(lines)) <= w /\ Len(Output(lines)) >= AgedKeep
    <3> HIDE DEF Output
    <3> QED
      BY <1>1, <2>3, <2>5
  <2> QED
    BY <1>1, <2>2, <2>3, <2>4, <2>6
<1> QED
  BY <1>2, <1>3 DEF Holds

LEMMA MarkedFacts ==
  ASSUME NEW s \in Lines
  PROVE  /\ <<0>> \o s \in Lines /\ Len(<<0>> \o s) = Len(s) + 1
         /\ (<<0>> \o s)[1] = 0
         /\ \A i \in 2..(Len(s) + 1) : (<<0>> \o s)[i] = s[i - 1]
<1>1. <<0>> \in Seq(0..MaxLines) /\ Len(<<0>>) = 1 /\ <<0>>[1] = 0
  OBVIOUS
<1>2. s \in Seq(0..MaxLines) /\ Len(s) \in Nat
  BY DEF Lines
<1>3. /\ <<0>> \o s \in Seq(0..MaxLines)
      /\ Len(<<0>> \o s) = Len(<<0>>) + Len(s)
      /\ \A i \in 1..(Len(<<0>>) + Len(s)) :
           (<<0>> \o s)[i] = IF i <= Len(<<0>>) THEN <<0>>[i] ELSE s[i - Len(<<0>>)]
  BY <1>1, <1>2, ConcatProperties
<1>4. \A i \in 1..(1 + Len(s)) : (<<0>> \o s)[i] = IF i <= 1 THEN <<0>>[i] ELSE s[i - 1]
  BY <1>1, <1>3
<1>5. ASSUME NEW i \in 2..(Len(s) + 1) PROVE (<<0>> \o s)[i] = s[i - 1]
  <2>1. i \in 1..(1 + Len(s)) /\ ~(i <= 1)
    BY <1>2
  <2> QED
    BY <1>4, <2>1
<1>6. (<<0>> \o s)[1] = 0
  <2>1. 1 \in 1..(1 + Len(s)) /\ 1 <= 1
    BY <1>2
  <2> QED
    BY <1>1, <1>4, <2>1
<1> QED
  BY <1>1, <1>2, <1>3, <1>5, <1>6 DEF Lines

(* What a trim writes in its place. *)
LEMMA TrimHolds ==
  ASSUME NEW lines \in Lines, NEW w \in Nat, Holds(lines, w),
         NEW n \in Nat, AgedKeep <= n, n < Len(Real(lines))
  PROVE  /\ <<0>> \o LastLines(Real(lines), n) \in Lines
         /\ Holds(<<0>> \o LastLines(Real(lines), n), w)
<1> DEFINE real == Real(lines)
           kept == LastLines(real, n)
           new == <<0>> \o kept
<1>1. /\ real \in Lines /\ Len(real) \in Nat /\ Len(real) <= w
      /\ \A i \in 1..Len(real) : real[i] = w - Len(real) + i
  BY OutputFacts, ZenonT(60)
<1>2. /\ kept \in Lines /\ Len(kept) = n
      /\ \A i \in 1..n : kept[i] = real[Len(real) - n + i]
  <2>1. /\ kept \in Seq(0..MaxLines)
        /\ Len(kept) = IF Len(real) <= n THEN Len(real) ELSE n
        /\ \A i \in 1..Len(kept) : kept[i] = real[Len(real) - Len(kept) + i]
    BY <1>1, LastLinesFacts DEF Lines
  <2> HIDE DEF kept, real
  <2>2. n < Len(real)
    BY DEF real
  <2>3. Len(kept) = n
    BY <1>1, <2>1, <2>2
  <2> QED
    BY <2>1, <2>3 DEF Lines
<1>4. /\ new \in Lines /\ Len(new) = n + 1
      /\ new[1] = 0
      /\ \A i \in 2..(n + 1) : new[i] = kept[i - 1]
  <2> HIDE DEF kept, real
  <2>1. PICK s \in Lines : s = kept
    BY <1>2
  <2> QED
    BY <1>2, <2>1, MarkedFacts
<1>5. ASSUME NEW i \in 2..(n + 1) PROVE kept[i - 1] = w - (n + 1) + i
  <2>1. n < Len(real)
    OBVIOUS
  <2> HIDE DEF kept, real
  <2>2. i - 1 \in 1..n /\ Len(real) - n + (i - 1) \in 1..Len(real)
    BY <1>1, <2>1
  <2>3. kept[i - 1] = real[Len(real) - n + (i - 1)]
    BY <1>2, <2>2
  <2>4. real[Len(real) - n + (i - 1)] = w - Len(real) + (Len(real) - n + (i - 1))
    BY <1>1, <2>2
  <2> QED
    BY <1>1, <2>3, <2>4
<1> HIDE DEF new
<1>6. Trimmed(new, w)
  BY <1>1, <1>4, <1>5 DEF Trimmed
<1> QED
  BY <1>4, <1>6 DEF Holds, new

(* The last lines of a log, when they are no more than a trim leaves, are  *)
(* the last lines of the output.                                           *)
LEMMA LogTailIsOutput ==
  ASSUME NEW lines \in Lines, NEW w \in Nat, Holds(lines, w), NEW n \in Nat, n <= AgedKeep
  PROVE  LastLines(lines, n) = LastLines(OutputUpto(w), n)
<1> DEFINE a == LastLines(lines, n)
           b == LastLines(OutputUpto(w), n)
<1>1. Len(lines) \in Nat /\ lines \in Seq(Nat)
  BY DEF Lines
<1>2. /\ b \in Seq(Nat) /\ Len(b) = IF w <= n THEN w ELSE n
      /\ \A i \in 1..Len(b) : b[i] = w - Len(b) + i
  <2>1. /\ OutputUpto(w) \in Seq(Nat) /\ Len(OutputUpto(w)) = w
        /\ \A i \in 1..w : OutputUpto(w)[i] = i
    BY OutputUptoFacts
  <2>2. /\ b \in Seq(Nat) /\ Len(b) = IF w <= n THEN w ELSE n
        /\ \A i \in 1..Len(b) : b[i] = OutputUpto(w)[w - Len(b) + i]
    BY <2>1, LastLinesFacts
  <2> HIDE DEF b
  <2>3. ASSUME NEW i \in 1..Len(b) PROVE b[i] = w - Len(b) + i
    <3>1. w - Len(b) + i \in 1..w
      BY <2>2
    <3> QED
      BY <2>1, <2>2, <3>1
  <2> QED
    BY <2>2, <2>3
<1>3. /\ a \in Seq(Nat) /\ Len(a) = IF Len(lines) <= n THEN Len(lines) ELSE n
      /\ \A i \in 1..Len(a) : a[i] = lines[Len(lines) - Len(a) + i]
  BY <1>1, LastLinesFacts
<1> HIDE DEF a, b
<1>4. CASE Whole(lines, w)
  <2>1. Len(a) = Len(b) /\ \A i \in 1..Len(a) : a[i] = b[i]
    BY <1>1, <1>2, <1>3, <1>4 DEF Whole
  <2> QED
    BY <1>2, <1>3, <2>1, SeqEqual DEF a, b
<1>5. CASE Trimmed(lines, w)
  <2>1. Len(a) = n /\ Len(b) = n
    BY <1>1, <1>2, <1>3, <1>5 DEF Trimmed
  <2>2. ASSUME NEW i \in 1..n PROVE a[i] = b[i]
    <3>1. Len(lines) - n + i \in 2..Len(lines)
      BY <1>1, <1>5 DEF Trimmed
    <3>2. a[i] = lines[Len(lines) - n + i]
      BY <1>3, <2>1
    <3>3. lines[Len(lines) - n + i] = w - Len(lines) + (Len(lines) - n + i)
      BY <1>5, <3>1 DEF Trimmed
    <3>4. b[i] = w - n + i
      BY <1>2, <2>1
    <3> QED
      BY <1>1, <3>2, <3>3, <3>4
  <2> QED
    BY <1>2, <1>3, <2>1, <2>2, SeqEqual DEF a, b
<1> QED
  BY <1>4, <1>5 DEF Holds
-----------------------------------------------------------------------------
(* Types *)

LEMMA ValueTypes ==
  /\ <<>> \in Lines /\ \A n \in Nat : <<>> \in UpTo(n)
  /\ \A lines \in Lines : File(lines) \in Files /\ File(lines) # NoFile
  /\ \A pc \in {"off", "stale", "delete", "drop", "unlink", "rows", "look", "probe", "read",
                "create", "write", "rename", "known", "sweep"} : Pass(pc) \in Passes
  /\ NoPoll \in Polls
<1>1. <<>> \in Lines /\ \A n \in Nat : <<>> \in UpTo(n)
  BY EmptySeq DEF Lines, UpTo
<1>2. 0 \in Ages
  BY DEF Ages
<1>3. \A lines \in Lines : File(lines) \in Files /\ File(lines) # NoFile
  BY <1>2 DEF File, Files
<1>4. \A pc \in {"off", "stale", "delete", "drop", "unlink", "rows", "look", "probe", "read",
                 "create", "write", "rename", "known", "sweep"} : Pass(pc) \in Passes
  BY <1>1 DEF Pass, Passes
<1>5. NoPoll \in Polls
  BY <1>1 DEF NoPoll, Polls
<1> QED
  BY <1>1, <1>3, <1>4, <1>5

LEMMA TailTypes ==
  ASSUME NEW lines \in Lines, NEW n \in Nat
  PROVE  LastLines(lines, n) \in UpTo(n)
<1>1. Len(lines) \in Nat
  BY DEF Lines
<1> QED
  BY <1>1, LastLinesFacts DEF Lines, UpTo

LEMMA TickTypes ==
  /\ \A a \in Ages : Older(a) \in Ages
  /\ \A file \in Files \cup {NoFile} :
       /\ OlderFile(file) \in Files \cup {NoFile}
       /\ OlderFile(file) = NoFile <=> file = NoFile
       /\ file # NoFile => OlderFile(file).lines = file.lines
<1>1. \A a \in Ages : Older(a) \in Ages
  BY DEF Older, Ages
<1>2. ASSUME NEW file \in Files PROVE OlderFile(file) \in Files /\ OlderFile(file).lines = file.lines
  BY <1>1, <1>2 DEF OlderFile, Files
<1> QED
  BY <1>1, <1>2 DEF OlderFile

LEMMA InitTyped == Init => TypeOK
<1> SUFFICES ASSUME Init PROVE TypeOK
  OBVIOUS
<1>1. row \in [status : {"absent", "running", "exited", "failed"}, tail : UpTo(TailLines)]
  BY ValueTypes DEF Init
<1>2. poll \in [Poll -> Polls] /\ reap \in Passes
  BY ValueTypes DEF Init
<1>3. age \in Ages /\ log \in Files /\ wtail \in UpTo(TailLines)
  BY ValueTypes DEF Init, Ages
<1> QED
  BY <1>1, <1>2, <1>3 DEF Init, TypeOK

LEMMA GroupTyped ==
  ASSUME TypeOK, Write \/ LeaderExits \/ ChildExits PROVE TypeOK'
<1>1. CASE Write
  <2>1. written + 1 \in 0..MaxLines
    BY <1>1 DEF Write, TypeOK
  <2>2. log # NoFile => File(Append(log.lines, written + 1)) \in Files
    BY <2>1, ValueTypes, AppendProperties DEF TypeOK, Files, Lines
  <2>3. log' \in Files \cup {NoFile} /\ written' \in 0..MaxLines
    BY <1>1, <2>1, <2>2 DEF Write, TypeOK
  <2> QED
    BY <1>1, <2>3 DEF Write, TypeOK, memory
<1>2. CASE LeaderExits \/ ChildExits
  BY <1>2, ZenonT(60) DEF LeaderExits, ChildExits, TypeOK, memory, files
<1> QED
  BY <1>1, <1>2

LEMMA WaiterTyped ==
  ASSUME TypeOK, WaiterRecord \/ WaiterTail \/ WaiterUpdate PROVE TypeOK'
<1>1. LogTail \in UpTo(TailLines)
  BY ValueTypes, TailTypes DEF LogTail, TypeOK, Files
<1>2. CASE WaiterRecord \/ WaiterTail
  BY <1>1, <1>2 DEF WaiterRecord, WaiterTail, waiterFrame, TypeOK, group, files
<1>3. CASE WaiterUpdate
  <2>1. row' \in [status : {"absent", "running", "exited", "failed"}, tail : UpTo(TailLines)]
    BY <1>3 DEF WaiterUpdate, TypeOK
  <2>2. mishaps' \in 0..MaxMishaps
    BY <1>3 DEF WaiterUpdate, Ok, Mishap, TypeOK
  <2> QED
    BY <1>3, <2>1, <2>2, ValueTypes DEF WaiterUpdate, waiterFrame, TypeOK, group, files
<1> QED
  BY <1>2, <1>3

LEMMA EvictionTyped ==
  ASSUME TypeOK, ReapStale \/ ReapDelete \/ ReapDrop \/ ReapUnlink PROVE TypeOK'
<1>1. CASE ReapStale
  <2>1. reap' \in Passes
    BY <1>1, ValueTypes DEF ReapStale
  <2>2. leader' \in BOOLEAN /\ child' \in BOOLEAN /\ atExit' \in 0..MaxLines
    BY <1>1 DEF ReapStale, TypeOK, group
  <2>3. UNCHANGED <<written, linked, memory, age, poll, up, settled, files, row, mishaps>>
    BY <1>1 DEF ReapStale, group
  <2> QED
    BY <2>1, <2>2, <2>3 DEF TypeOK, memory, files
<1>2. CASE ReapDelete
  <2>1. reap' \in Passes
    BY <1>2, ValueTypes DEF ReapDelete, EvictOrder
  <2>2. row' \in [status : {"absent", "running", "exited", "failed"}, tail : UpTo(TailLines)]
    BY <1>2, ValueTypes DEF ReapDelete, TypeOK
  <2>3. mishaps' \in 0..MaxMishaps
    BY <1>2 DEF ReapDelete, Ok, Mishap, TypeOK
  <2> QED
    BY <1>2, <2>1, <2>2, <2>3 DEF ReapDelete, reapFrame, TypeOK, memory, files, group
<1>3. CASE ReapDrop \/ ReapUnlink
  <2>1. reap' \in Passes
    BY <1>3, ValueTypes DEF ReapDrop, ReapUnlink, EvictOrder
  <2> QED
    BY <1>3, <2>1, ZenonT(60) DEF ReapDrop, ReapUnlink, reapFrame, TypeOK, memory, files, group
<1> QED
  BY <1>1, <1>2, <1>3
LEMMA CompactTyped ==
  ASSUME TypeOK,
         \/ CompactRows \/ CompactLook \/ CompactProbe
         \/ TrimRead \/ TrimCreate \/ TrimWrite \/ TrimRename
  PROVE  TypeOK'
<1> DEFINE frame == UNCHANGED <<leader, child, written, atExit, memory, age, poll, up, settled, row>>
<1>1. CASE CompactRows \/ CompactLook \/ CompactProbe
  <2>1. reap' \in Passes
    <3>1. CASE CompactRows
      <4>1. Pass("look") \in Passes
        BY ValueTypes
      <4> QED
        <5>1. ASSUME NEW s \in {"running", "ended"}, NEW b \in BOOLEAN
              PROVE  [Pass("look") EXCEPT !.seen = s, !.aged = b] \in Passes
          BY <4>1 DEF Passes
        <5>2. (age >= AgedAfter) \in BOOLEAN
          OBVIOUS
        <5>3. \/ reap' = Pass("known")
              \/ reap' = [Pass("look") EXCEPT
                            !.seen = IF row.status = "running" THEN "running" ELSE "ended",
                            !.aged = age >= AgedAfter]
          BY <3>1 DEF CompactRows
        <5> QED
          BY <5>1, <5>2, <5>3, ValueTypes
    <3>2. CASE CompactLook \/ CompactProbe
      BY <3>2, ValueTypes DEF CompactLook, CompactProbe, TypeOK, Passes
    <3> QED
      BY <1>1, <3>1, <3>2
  <2>2. mishaps' \in 0..MaxMishaps
    BY <1>1 DEF CompactRows, CompactLook, CompactProbe, Ok, Mishap, TypeOK
  <2> QED
    BY <1>1, <2>1, <2>2
       DEF CompactRows, CompactLook, CompactProbe, reapFrame, TypeOK, memory, files, group
<1>2. CASE TrimRead
  <2>1. /\ reap.aged \in BOOLEAN
        /\ Keep(reap.aged) \in Nat
    BY DEF TypeOK, Passes, Keep
  <2>2. ASSUME log # NoFile
        PROVE  <<0>> \o LastLines(Real(log.lines), Keep(reap.aged)) \in Lines
    <3>1. log.lines \in Lines
      BY <2>2 DEF TypeOK, Files
    <3>2. Real(log.lines) \in Lines
      BY <3>1, TailFacts DEF Real, Lines
    <3>3. LastLines(Real(log.lines), Keep(reap.aged)) \in Seq(0..MaxLines)
      BY <2>1, <3>2, LastLinesFacts DEF Lines
    <3>4. <<0>> \in Seq(0..MaxLines)
      OBVIOUS
    <3> QED
      BY <3>3, <3>4, ConcatProperties DEF Lines
  <2>3. reap' \in Passes
    <3>1. CASE log # NoFile
      BY <1>2, <2>2, <3>1, ValueTypes, ZenonT(60) DEF TrimRead, TypeOK, Passes
    <3>2. CASE log = NoFile
      BY <1>2, <3>2, ValueTypes DEF TrimRead
    <3> QED
      BY <3>1, <3>2
  <2> QED
    BY <1>2, <2>3 DEF TrimRead, reapFrame, TypeOK, memory, files, group
<1>3. CASE TrimCreate \/ TrimWrite
  <2>1. reap' \in Passes /\ reap.buf \in Lines
    BY <1>3 DEF TrimCreate, TrimWrite, TypeOK, Passes
  <2>2. temp' \in Files
    BY <1>3, <2>1, ValueTypes DEF TrimCreate, TrimWrite
  <2> QED
    BY <1>3, <2>1, <2>2 DEF TrimCreate, TrimWrite, reapFrame, TypeOK, memory, files, group
<1>4. CASE TrimRename
  BY <1>4, ValueTypes, ZenonT(60) DEF TrimRename, TypeOK, memory
<1> QED
  BY <1>1, <1>2, <1>3, <1>4

LEMMA OrphanTyped ==
  ASSUME TypeOK, OrphanKnown \/ OrphanSweep PROVE TypeOK'
<1>1. reap' \in Passes
  <2>1. Pass("sweep") \in Passes /\ Pass("stale") \in Passes
    BY ValueTypes
  <2>2. \A s \in {"none", "ended"} : [Pass("sweep") EXCEPT !.seen = s] \in Passes
    BY <2>1 DEF Passes
  <2> QED
    BY <2>1, <2>2 DEF OrphanKnown, OrphanSweep
<1>2. mishaps' \in 0..MaxMishaps
  <2>1. CASE OrphanKnown
    BY <2>1 DEF OrphanKnown, Ok, Mishap, TypeOK
  <2>2. CASE OrphanSweep
    BY <2>2 DEF OrphanSweep, TypeOK
  <2> QED
    BY <2>1, <2>2
<1>3. log' \in Files \cup {NoFile} /\ temp' \in Files \cup {NoFile}
  BY DEF OrphanKnown, OrphanSweep, TypeOK, files
<1> QED
  BY <1>1, <1>2, <1>3, ZenonT(60) DEF OrphanKnown, OrphanSweep, reapFrame, TypeOK, memory, files, group

LEMMA PollTyped ==
  ASSUME TypeOK, NEW p \in Poll,
         \/ PollStart(p) \/ PollFind(p) \/ PollState(p) \/ PollPage(p)
         \/ PollRecheck(p) \/ PollSaved(p) \/ PollAgain(p)
  PROVE  TypeOK'
<1> DEFINE Kinds == {"none", "page", "unknown", "error"}
           States == {"none", "running", "exited", "failed"}
<1>1. poll[p] \in Polls /\ poll \in [Poll -> Polls]
  BY DEF TypeOK
<1>2. ASSUME NEW kind \in Kinds, NEW state \in States, NEW lines \in UpTo(Limit),
             Answer(p, kind, state, lines)
      PROVE  poll' \in [Poll -> Polls]
  <2>1. [NoPoll EXCEPT !.pc = "answered", !.answer = kind, !.state = state, !.lines = lines] \in Polls
    BY <1>2, ValueTypes DEF NoPoll, Polls
  <2> QED
    BY <1>1, <1>2, <2>1 DEF Answer
<1>3. mishaps' \in 0..MaxMishaps
  BY DEF PollStart, PollFind, PollState, PollPage, PollRecheck, PollSaved, PollAgain, Ok, Mishap,
         TypeOK
<1>4. UNCHANGED pollFrame
  BY DEF PollStart, PollFind, PollState, PollPage, PollRecheck, PollSaved, PollAgain
<1>5. ASSUME poll' \in [Poll -> Polls] PROVE TypeOK'
  BY <1>3, <1>4, <1>5 DEF pollFrame, TypeOK, memory, files, group
<1>6. <<>> \in UpTo(Limit)
  BY ValueTypes
<1>7. log # NoFile => LastLines(log.lines, Limit) \in UpTo(Limit)
  BY TailTypes DEF TypeOK, Files
<1>8. CASE PollStart(p) \/ PollState(p) \/ PollAgain(p)
  <2>1. poll' \in [Poll -> Polls]
    BY <1>1, <1>8, ValueTypes DEF PollStart, PollState, PollAgain, TypeOK, Polls
  <2> QED
    BY <1>5, <2>1
<1>9. CASE PollFind(p)
  <2>1. row.status = "absent" \/ (row.status \in States /\ row.tail \in UpTo(TailLines))
    BY DEF TypeOK
  <2>2. poll' \in [Poll -> Polls]
    <3>1. CASE /\ row.status # "absent"
               /\ poll' = [poll EXCEPT ![p].pc = "saved", ![p].state = row.status,
                                       ![p].tail = row.tail]
      BY <1>1, <2>1, <3>1 DEF Polls
    <3>2. CASE Answer(p, "unknown", "none", <<>>)
      BY <1>2, <1>6, <3>2
    <3> QED
      BY <1>9, <3>1, <3>2 DEF PollFind
  <2> QED
    BY <1>5, <2>2
<1>10. CASE PollPage(p)
  <2>1. poll[p].state \in States
    BY <1>1 DEF Polls
  <2>2. CASE log = NoFile
    <3>1. poll' \in [Poll -> Polls]
      BY <1>1, <1>10, <2>2 DEF PollPage, Polls
    <3> QED
      BY <1>5, <3>1
  <2>3. CASE log # NoFile
    <3>1. Answer(p, "page", poll[p].state, LastLines(log.lines, Limit))
      BY <1>10, <2>3 DEF PollPage
    <3>2. PICK state \in States, lines \in UpTo(Limit) :
            state = poll[p].state /\ lines = LastLines(log.lines, Limit)
      BY <1>7, <2>1, <2>3
    <3> QED
      BY <1>2, <1>5, <3>1, <3>2
  <2> QED
    BY <2>2, <2>3
<1>11. CASE PollRecheck(p)
  <2>1. Answer(p, "error", "none", <<>>) \/ Answer(p, "unknown", "none", <<>>)
    BY <1>11 DEF PollRecheck
  <2> QED
    BY <1>2, <1>5, <1>6, <2>1
<1>12. CASE PollSaved(p)
  <2>1. /\ poll[p].state \in States
        /\ poll[p].tail \in Lines
    BY <1>1 DEF Polls, UpTo
  <2>2. LastLines(poll[p].tail, Limit) \in UpTo(Limit)
    BY <2>1, TailTypes
  <2>3. PICK state \in States, lines \in UpTo(Limit) :
          /\ state = poll[p].state
          /\ lines = LastLines(IF log = NoFile THEN poll[p].tail ELSE log.lines, Limit)
    BY <1>7, <2>1, <2>2
  <2>4. Answer(p, "page", poll[p].state,
               LastLines(IF log = NoFile THEN poll[p].tail ELSE log.lines, Limit))
    BY <1>12 DEF PollSaved
  <2> QED
    BY <1>2, <1>5, <2>3, <2>4
<1> QED
  BY <1>8, <1>9, <1>10, <1>11, <1>12

LEMMA CrashTyped ==
  ASSUME TypeOK, Die \/ Restart \/ Reconcile \/ Tick PROVE TypeOK'
<1>1. CASE Die
  <2>1. reap' \in Passes /\ poll' \in [Poll -> Polls] /\ wtail' \in UpTo(TailLines)
    BY <1>1, ValueTypes DEF Die
  <2>2. leader' \in BOOLEAN /\ child' \in BOOLEAN /\ atExit' \in 0..MaxLines
    BY <1>1 DEF Die, TypeOK
  <2>3. /\ tracked' \in BOOLEAN /\ jstate' \in {"running", "exited"} /\ waiter' = "none"
        /\ up' \in BOOLEAN /\ settled' \in BOOLEAN
    BY <1>1 DEF Die
  <2>5. mishaps' \in 0..MaxMishaps
    <3>1. Mishap
      BY <1>1 DEF Die
    <3> QED
      BY <3>1 DEF Mishap, TypeOK
  <2>4. UNCHANGED <<written, linked, files, age, row>>
    BY <1>1 DEF Die
  <2> QED
    BY <2>1, <2>2, <2>3, <2>4, <2>5 DEF TypeOK, files
<1>2. CASE Restart
  <2>1. reap' \in Passes
    BY <1>2, ValueTypes DEF Restart
  <2> QED
    BY <1>2, <2>1 DEF Restart, TypeOK, memory, files, group
<1>3. CASE Reconcile
  BY <1>3 DEF Reconcile, TypeOK, memory, files, group
<1>4. CASE Tick
  <2>1. age' \in Ages /\ log' \in Files \cup {NoFile} /\ temp' \in Files \cup {NoFile}
    BY <1>4, TickTypes DEF Tick, TypeOK
  <2> QED
    BY <1>4, <2>1 DEF Tick, TypeOK, memory, group
<1> QED
  BY <1>1, <1>2, <1>3, <1>4

LEMMA StepTyped == TypeOK /\ [Next]_vars => TypeOK'
<1>1. ASSUME TypeOK, UNCHANGED vars PROVE TypeOK'
  BY <1>1 DEF vars, group, files, memory, TypeOK
<1> QED
  BY <1>1, GroupTyped, WaiterTyped, EvictionTyped, CompactTyped, OrphanTyped, PollTyped, CrashTyped
     DEF Next, ReaperPass
-----------------------------------------------------------------------------
(* The inductive invariant *)

(* What is in the file, and what a trim is about to put there. *)
LogInv == log # NoFile => Holds(log.lines, written)

(* A trim goes on, and the group's file is not the one at the path, only   *)
(* once the group is gone.                                                 *)
TrimInv ==
  /\ ~linked => ~GroupAlive
  /\ reap.pc \in {"read", "create", "write", "rename"} => ~GroupAlive
  /\ reap.pc \in {"create", "write", "rename"} => log # NoFile /\ Holds(reap.buf, written)
  /\ reap.pc \in {"write", "rename"} => temp # NoFile
  /\ reap.pc = "rename" => temp.lines = reap.buf

(* A job in the map has its log, whatever the pass is about to remove. *)
MapInv ==
  /\ tracked => log # NoFile /\ up
  /\ reap.pc = "unlink" => ~tracked
  /\ row.status = "absent" => ~tracked \/ reap.pc = "drop"
  /\ reap.pc = "sweep" /\ reap.seen = "none" => ~tracked

(* Whoever says that the job has exited says so after its shell did. *)
ExitInv ==
  /\ atExit <= written
  /\ jstate = "exited" \/ waiter \in {"reaped", "read", "through"} \/ row.status = "exited" => ~leader
  /\ \A p \in Poll : poll[p].state = "exited" => ~leader

Covers(tail, low, high, file) ==
  \/ \E n \in low..high : tail = LastLines(OutputUpto(n), TailLines)
  \/ tail = <<>> /\ file = NoFile

TailInv ==
  /\ waiter = "read" => Covers(wtail, atExit, written, log)
  /\ row.status = "exited" => Covers(row.tail, atExit, written, log)
  /\ \A p \in Poll : poll[p].pc = "saved" /\ poll[p].state = "exited" =>
       Covers(poll[p].tail, atExit, written, log)

Shows(lines, low, file) ==
  IF lines = <<>> THEN low = 0 \/ file = NoFile ELSE lines[Len(lines)] >= low

PollInv == \A p \in Poll :
  /\ poll[p].answer # "none" => poll[p].pc = "answered"
  /\ poll[p].answer # "error"
  /\ poll[p].pc = "recheck" => log = NoFile
  /\ poll[p].answer = "page" /\ poll[p].state = "exited" => Shows(poll[p].lines, atExit, log)

IInv == TypeOK /\ LogInv /\ TrimInv /\ MapInv /\ ExitInv /\ TailInv /\ PollInv

LEMMA InitHolds == Init => IInv
<1> SUFFICES ASSUME Init PROVE IInv
  OBVIOUS
<1>1. TypeOK
  BY InitTyped
<1>2. log = File(<<>>) /\ written = 0 /\ atExit = 0 /\ waiter = "waiting" /\ linked
  BY DEF Init
<1>3. log.lines = <<>> /\ log # NoFile
  BY <1>2, ValueTypes DEF File
<1>4. LogInv
  BY <1>2, <1>3, EmptyIsWhole DEF LogInv
<1>5. TrimInv /\ MapInv
  BY <1>3 DEF Init, TrimInv, MapInv, Pass
<1>6. ExitInv /\ TailInv /\ PollInv
  BY DEF Init, ExitInv, TailInv, PollInv, NoPoll
<1> QED
  BY <1>1, <1>4, <1>5, <1>6 DEF IInv

(* What every step leaves true: output only grows, after the exit its      *)
(* length then stands, and a log that is gone does not come back.          *)
Grows ==
  /\ written <= written'
  /\ ~leader => ~leader' /\ atExit' = atExit
  /\ ~GroupAlive => ~GroupAlive' /\ written' = written
  /\ log = NoFile => log' = NoFile
  /\ tracked' => tracked

LEMMA StepGrows == ASSUME IInv, [Next]_vars PROVE Grows
<1> USE DEF IInv
<1> written \in Nat
  BY DEF TypeOK
<1>1. CASE Write
  BY <1>1 DEF Write, Grows, memory, GroupAlive
<1>2. CASE LeaderExits \/ ChildExits
  BY <1>2 DEF LeaderExits, ChildExits, Grows, memory, files, GroupAlive
<1>3. CASE WaiterRecord \/ WaiterTail \/ WaiterUpdate
  BY <1>3 DEF WaiterRecord, WaiterTail, WaiterUpdate, waiterFrame, Grows, group, files, GroupAlive
<1>4. CASE ReapStale
  <2>1. UNCHANGED <<written, log, tracked>>
    BY <1>4 DEF ReapStale, memory, files, group
  <2>2. \/ UNCHANGED <<leader, child, atExit>>
        \/ ~leader' /\ atExit' = (IF leader THEN written ELSE atExit) /\ child' \in {child, FALSE}
    BY <1>4 DEF ReapStale, group
  <2>3. ~child => ~child'
    BY <2>2
  <2>4. ~leader => ~leader' /\ atExit' = atExit
    BY <2>2
  <2> QED
    BY <2>1, <2>3, <2>4 DEF Grows, GroupAlive
<1>5. CASE \/ ReapDelete \/ ReapDrop \/ ReapUnlink \/ OrphanKnown
           \/ CompactRows \/ CompactLook \/ CompactProbe \/ TrimRead \/ TrimCreate \/ TrimWrite
  BY <1>5 DEF ReapDelete, ReapDrop, ReapUnlink, OrphanKnown, CompactRows, CompactLook, CompactProbe,
              TrimRead, TrimCreate, TrimWrite, reapFrame, Grows, memory, files, group, GroupAlive
<1>6. CASE TrimRename
  BY <1>6 DEF TrimRename, TrimInv, Grows, memory, GroupAlive
<1>7. CASE OrphanSweep
  <2>1. UNCHANGED <<written, leader, child, atExit, tracked>>
    BY <1>7 DEF OrphanSweep, reapFrame, memory, group
  <2>2. log = NoFile => log' = NoFile
    BY <1>7 DEF OrphanSweep
  <2> QED
    BY <2>1, <2>2 DEF Grows, GroupAlive
<1>8. ASSUME NEW p \in Poll,
             \/ PollStart(p) \/ PollFind(p) \/ PollState(p) \/ PollPage(p)
             \/ PollRecheck(p) \/ PollSaved(p) \/ PollAgain(p)
      PROVE  Grows
  BY <1>8 DEF PollStart, PollFind, PollState, PollPage, PollRecheck, PollSaved, PollAgain,
              pollFrame, Grows, memory, files, group, GroupAlive
<1>9. CASE Die \/ Restart \/ Reconcile
  BY <1>9 DEF Die, Restart, Reconcile, Grows, memory, files, group, GroupAlive
<1>10. CASE Tick
  BY <1>10, TickTypes DEF Tick, Grows, memory, group, GroupAlive, TypeOK
<1>11. CASE UNCHANGED vars
  BY <1>11 DEF vars, Grows, memory, files, group, GroupAlive
<1> QED
  BY <1>1, <1>2, <1>3, <1>4, <1>5, <1>6, <1>7, <1>8, <1>9, <1>10, <1>11 DEF Next, ReaperPass
-----------------------------------------------------------------------------
(* The log *)

(* Every step but the group's output, the trim's own and the clock's.      *)
LEMMA CalmKeepsLog ==
  ASSUME IInv, Grows, UNCHANGED <<written, linked>>, log' \in {log, NoFile},
         \/ reap'.pc \notin {"read", "create", "write", "rename"}
         \/ UNCHANGED <<reap, log, temp>>
  PROVE  LogInv' /\ TrimInv'
<1>1. LogInv'
  BY DEF IInv, LogInv
<1>2. ~GroupAlive => ~GroupAlive'
  BY DEF Grows
<1>3. ~linked' => ~GroupAlive'
  BY <1>2 DEF IInv, TrimInv
<1>4. CASE reap'.pc \notin {"read", "create", "write", "rename"}
  BY <1>1, <1>3, <1>4 DEF TrimInv
<1>5. CASE UNCHANGED <<reap, log, temp>>
  <2>1. Holds(reap.buf, written)' <=> Holds(reap.buf, written)
    BY <1>5
  <2> QED
    BY <1>1, <1>2, <1>3, <1>5, <2>1 DEF IInv, TrimInv
<1> QED
  BY <1>1, <1>4, <1>5

LEMMA LogKept == ASSUME IInv, [Next]_vars, Grows PROVE LogInv' /\ TrimInv'
<1> USE DEF IInv
<1>0. log # NoFile => log.lines \in Lines
  BY DEF TypeOK, Files
<1>1. CASE Write
  <2>1. linked /\ reap.pc \notin {"read", "create", "write", "rename"} /\ UNCHANGED <<reap, linked>>
    BY <1>1 DEF Write, TrimInv
  <2>2. TrimInv'
    BY <2>1 DEF TrimInv
  <2>3. CASE log # NoFile
    <3>1. log' = File(Append(log.lines, written + 1)) /\ written' = written + 1
      BY <1>1, <2>1, <2>3 DEF Write
    <3>2. Holds(Append(log.lines, written + 1), written + 1)
      BY <1>0, <1>1, <2>3, AppendHolds DEF Write, LogInv, TypeOK
    <3> QED
      BY <2>2, <3>1, <3>2 DEF LogInv, File
  <2> QED
    BY <2>2, <2>3 DEF LogInv, Grows
<1>2. CASE LeaderExits \/ ChildExits
  BY <1>2, CalmKeepsLog DEF LeaderExits, ChildExits, files
<1>3. CASE WaiterRecord \/ WaiterTail \/ WaiterUpdate
  BY <1>3, CalmKeepsLog DEF WaiterRecord, WaiterTail, WaiterUpdate, waiterFrame, group, files
<1>4. CASE ReapStale
  <2>1. UNCHANGED <<written, linked, log>>
    BY <1>4 DEF ReapStale, files, group
  <2>2. reap' = Pass("delete") \/ reap' = Pass("rows")
    BY <1>4 DEF ReapStale
  <2>3. reap'.pc \in {"delete", "rows"}
    BY <2>2 DEF Pass
  <2> QED
    BY <2>1, <2>3, CalmKeepsLog
<1>5. CASE ReapDelete \/ ReapDrop \/ ReapUnlink
  <2>1. UNCHANGED <<written, linked>> /\ log' \in {log, NoFile}
    BY <1>5 DEF ReapDelete, ReapDrop, ReapUnlink, reapFrame, files, group
  <2>2. reap'.pc \in {"drop", "unlink", "rows"}
    BY <1>5 DEF ReapDelete, ReapDrop, ReapUnlink, EvictOrder, Pass
  <2> QED
    BY <2>1, <2>2, CalmKeepsLog
<1>6. CASE CompactRows \/ CompactLook \/ OrphanKnown
  <2>1. UNCHANGED <<written, linked, log>>
    BY <1>6 DEF CompactRows, CompactLook, OrphanKnown, reapFrame, files, group
  <2>2. CASE CompactRows
    <3>1. reap'.pc \in {"known", "look"}
      <4>1. \/ reap' = Pass("known")
            \/ reap' = [Pass("look") EXCEPT
                          !.seen = IF row.status = "running" THEN "running" ELSE "ended",
                          !.aged = age >= AgedAfter]
        BY <2>2 DEF CompactRows
      <4>2. ASSUME NEW s \in {"running", "ended"}, NEW b \in BOOLEAN
            PROVE  [Pass("look") EXCEPT !.seen = s, !.aged = b].pc = "look"
        BY DEF Pass
      <4>3. (age >= AgedAfter) \in BOOLEAN
        OBVIOUS
      <4>4. Pass("known").pc = "known"
        BY DEF Pass
      <4> QED
        BY <4>1, <4>2, <4>3, <4>4
    <3> QED
      BY <2>1, <3>1, CalmKeepsLog
  <2>3. CASE CompactLook
    <3>1. reap'.pc \in {"known", "probe"}
      BY <2>3 DEF CompactLook, Pass, TypeOK, Passes
    <3> QED
      BY <2>1, <3>1, CalmKeepsLog
  <2>4. CASE OrphanKnown
    <3>1. reap'.pc \in {"stale", "sweep"}
      BY <2>4 DEF OrphanKnown, Pass
    <3> QED
      BY <2>1, <3>1, CalmKeepsLog
  <2> QED
    BY <1>6, <2>2, <2>3, <2>4
<1>7. CASE CompactProbe
  <2>1. UNCHANGED <<written, linked, log, leader, child>>
    BY <1>7 DEF CompactProbe, reapFrame, files, group
  <2>2. CASE GroupAlive
    <3>1. reap'.pc = "known"
      BY <1>7, <2>2 DEF CompactProbe, Quiet, Pass
    <3> QED
      BY <2>1, <3>1, CalmKeepsLog
  <2>3. CASE ~GroupAlive
    <3>1. reap'.pc = "read"
      BY <1>7, <2>3 DEF CompactProbe, Quiet, TypeOK, Passes
    <3> QED
      BY <2>1, <2>3, <3>1 DEF LogInv, TrimInv, GroupAlive
  <2> QED
    BY <2>2, <2>3
<1>8. CASE TrimRead
  <2>1. UNCHANGED <<written, linked, log, leader, child>> /\ reap.pc = "read" /\ ~GroupAlive
    BY <1>8 DEF TrimRead, reapFrame, files, group, TrimInv
  <2>2. CASE log # NoFile /\ Len(Real(log.lines)) > Keep(reap.aged)
    <3>1. /\ Keep(reap.aged) \in Nat /\ AgedKeep <= Keep(reap.aged)
      BY DEF TypeOK, Passes, Keep
    <3>2. Len(Real(log.lines)) \in Nat
      BY <1>0, <2>2, OutputFacts DEF LogInv, TypeOK
    <3>3. PICK n \in Nat : n = Keep(reap.aged)
      BY <3>1
    <3>4. Holds(<<0>> \o LastLines(Real(log.lines), n), written)
      BY <1>0, <2>2, <3>1, <3>2, <3>3, TrimHolds DEF LogInv, TypeOK
    <3>5. reap'.pc = "create" /\ reap'.buf = <<0>> \o LastLines(Real(log.lines), n)
      BY <1>8, <2>2, <3>3 DEF TrimRead, TypeOK, Passes
    <3> QED
      BY <2>1, <2>2, <3>4, <3>5 DEF LogInv, TrimInv, GroupAlive
  <2>3. CASE ~(log # NoFile /\ Len(Real(log.lines)) > Keep(reap.aged))
    <3>1. reap'.pc = "known"
      BY <1>8, <2>3 DEF TrimRead, Pass
    <3> QED
      BY <2>1, <3>1, CalmKeepsLog
  <2> QED
    BY <2>2, <2>3
<1>9. CASE TrimCreate \/ TrimWrite
  <2>1. /\ UNCHANGED <<written, linked, log, leader, child>> /\ ~GroupAlive
        /\ log # NoFile /\ Holds(reap.buf, written)
    BY <1>9 DEF TrimCreate, TrimWrite, reapFrame, group, TrimInv
  <2>2. reap.buf \in Lines
    BY DEF TypeOK, Passes
  <2>3. /\ reap'.buf = reap.buf /\ temp' # NoFile
        /\ \/ reap'.pc = "write"
           \/ reap'.pc = "rename" /\ temp'.lines = reap.buf
    <3>1. CASE TrimCreate
      BY <3>1, ValueTypes DEF TrimCreate, TypeOK, Passes
    <3>2. CASE TrimWrite
      <4>1. temp' = File(reap.buf) /\ reap' = [reap EXCEPT !.pc = "rename"]
        BY <3>2 DEF TrimWrite
      <4>2. temp'.lines = reap.buf /\ temp' # NoFile
        BY <2>2, <4>1, ValueTypes DEF File
      <4>3. reap'.pc = "rename" /\ reap'.buf = reap.buf
        BY <4>1 DEF TypeOK, Passes
      <4> QED
        BY <4>2, <4>3
    <3> QED
      BY <1>9, <3>1, <3>2
  <2> QED
    BY <2>1, <2>3 DEF LogInv, TrimInv, GroupAlive
<1>10. CASE TrimRename
  <2>1. /\ UNCHANGED <<written, leader, child>> /\ ~GroupAlive
        /\ log' = temp /\ temp.lines = reap.buf /\ Holds(reap.buf, written)
    BY <1>10 DEF TrimRename, TrimInv
  <2>2. reap'.pc = "known"
    BY <1>10 DEF TrimRename, Pass
  <2> QED
    BY <2>1, <2>2 DEF LogInv, TrimInv, GroupAlive
<1>11. CASE OrphanSweep
  <2>1. UNCHANGED <<written, linked>> /\ log' \in {log, NoFile}
    BY <1>11 DEF OrphanSweep, reapFrame, group
  <2>2. reap'.pc = "stale"
    BY <1>11 DEF OrphanSweep, Pass
  <2> QED
    BY <2>1, <2>2, CalmKeepsLog
<1>12. ASSUME NEW p \in Poll,
              \/ PollStart(p) \/ PollFind(p) \/ PollState(p) \/ PollPage(p)
              \/ PollRecheck(p) \/ PollSaved(p) \/ PollAgain(p)
       PROVE  LogInv' /\ TrimInv'
  <2>1. UNCHANGED pollFrame
    BY <1>12 DEF PollStart, PollFind, PollState, PollPage, PollRecheck, PollSaved, PollAgain
  <2> QED
    BY <2>1, CalmKeepsLog DEF pollFrame, group, files
<1>13. CASE Die \/ Restart
  <2>1. UNCHANGED <<written, linked, log>>
    BY <1>13 DEF Die, Restart, files, group
  <2>2. reap'.pc \in {"off", "stale"}
    BY <1>13 DEF Die, Restart, Pass
  <2> QED
    BY <2>1, <2>2, CalmKeepsLog
<1>14. CASE Reconcile
  BY <1>14, CalmKeepsLog DEF Reconcile, files, group
<1>15. CASE Tick
  <2>1. UNCHANGED <<written, linked, leader, child, reap>>
    BY <1>15 DEF Tick, group
  <2>2. /\ log' = OlderFile(log) /\ temp' = OlderFile(temp)
        /\ log \in Files \cup {NoFile} /\ temp \in Files \cup {NoFile}
    BY <1>15 DEF Tick, TypeOK
  <2>3. /\ log' # NoFile <=> log # NoFile
        /\ temp' # NoFile <=> temp # NoFile
        /\ log # NoFile => log'.lines = log.lines
        /\ temp # NoFile => temp'.lines = temp.lines
    BY <2>2, TickTypes
  <2> QED
    BY <2>1, <2>3 DEF LogInv, TrimInv, GroupAlive
<1>16. CASE UNCHANGED vars
  BY <1>16, CalmKeepsLog DEF vars, files, group
<1> QED
  BY <1>1, <1>2, <1>3, <1>4, <1>5, <1>6, <1>7, <1>8, <1>9, <1>10, <1>11, <1>12, <1>13, <1>14,
     <1>15, <1>16 DEF Next, ReaperPass
-----------------------------------------------------------------------------
(* The map *)

LEMMA MapKept == ASSUME IInv, [Next]_vars, Grows PROVE MapInv'
<1> USE DEF IInv
<1>1. ASSUME log # NoFile => log' # NoFile, up' = up,
             row'.status = "absent" => row.status = "absent",
             \/ reap' = reap
             \/ reap'.pc \notin {"unlink", "sweep"} /\ reap.pc # "drop"
      PROVE  MapInv'
  <2>1. tracked' => tracked /\ log' # NoFile /\ up'
    BY <1>1 DEF MapInv, Grows
  <2>2. CASE reap' = reap
    BY <1>1, <2>1, <2>2 DEF MapInv
  <2>3. CASE reap'.pc \notin {"unlink", "sweep"} /\ reap.pc # "drop"
    BY <1>1, <2>1, <2>3 DEF MapInv
  <2> QED
    BY <1>1, <2>2, <2>3
<1>2. CASE Write \/ LeaderExits \/ ChildExits
  <2>1. UNCHANGED <<row, reap, up>>
    BY <1>2 DEF Write, LeaderExits, ChildExits
  <2>2. log # NoFile => log' # NoFile
    <3>1. CASE Write /\ log # NoFile /\ linked
      <4>1. Append(log.lines, written + 1) \in Lines
        BY <3>1, AppendHolds DEF Write, LogInv, TypeOK, Files
      <4> QED
        BY <3>1, <4>1, ValueTypes DEF Write
    <3>2. CASE ~linked \/ LeaderExits \/ ChildExits
      BY <1>2, <3>2 DEF Write, LeaderExits, ChildExits, files
    <3> QED
      BY <1>2, <3>1, <3>2
  <2> QED
    BY <1>1, <2>1, <2>2
<1>3. CASE WaiterRecord \/ WaiterTail \/ WaiterUpdate
  <2>1. UNCHANGED <<log, reap, up>>
    BY <1>3 DEF WaiterRecord, WaiterTail, WaiterUpdate, waiterFrame, files
  <2>2. row'.status = "absent" => row.status = "absent"
    BY <1>3 DEF WaiterRecord, WaiterTail, WaiterUpdate
  <2> QED
    BY <1>1, <2>1, <2>2
<1>4. CASE ReapStale
  <2>1. UNCHANGED <<log, row, up>> /\ reap.pc = "stale"
    BY <1>4 DEF ReapStale, files
  <2>2. reap' = Pass("delete") \/ reap' = Pass("rows")
    BY <1>4 DEF ReapStale
  <2>3. reap'.pc \in {"delete", "rows"}
    BY <2>2 DEF Pass
  <2> QED
    BY <1>1, <2>1, <2>3
<1>5. CASE ReapDelete
  <2>1. UNCHANGED <<log, tracked, up>> /\ reap'.pc = "drop"
    BY <1>5 DEF ReapDelete, reapFrame, memory, files, EvictOrder, Pass
  <2> QED
    BY <2>1 DEF MapInv
<1>6. CASE ReapDrop
  BY <1>6 DEF ReapDrop, MapInv
<1>7. CASE ReapUnlink
  <2>1. UNCHANGED <<tracked, row>> /\ ~tracked
    BY <1>7 DEF ReapUnlink, reapFrame, memory, MapInv
  <2> QED
    BY <2>1 DEF MapInv
<1>8. CASE CompactRows \/ CompactLook \/ CompactProbe \/ TrimRead \/ TrimCreate \/ TrimWrite
  <2>1. UNCHANGED <<log, row, tracked, up>>
    BY <1>8 DEF CompactRows, CompactLook, CompactProbe, TrimRead, TrimCreate, TrimWrite, reapFrame,
                memory, files
  <2>2. reap.pc # "drop"
    BY <1>8 DEF CompactRows, CompactLook, CompactProbe, TrimRead, TrimCreate, TrimWrite
  <2>3. reap'.pc \notin {"unlink", "sweep"}
    <3>1. CASE CompactRows
      <4>1. \/ reap' = Pass("known")
            \/ reap' = [Pass("look") EXCEPT
                          !.seen = IF row.status = "running" THEN "running" ELSE "ended",
                          !.aged = age >= AgedAfter]
        BY <3>1 DEF CompactRows
      <4>2. ASSUME NEW s \in {"running", "ended"}, NEW b \in BOOLEAN
            PROVE  [Pass("look") EXCEPT !.seen = s, !.aged = b].pc = "look"
        BY DEF Pass
      <4>3. (age >= AgedAfter) \in BOOLEAN
        OBVIOUS
      <4>4. Pass("known").pc = "known"
        BY DEF Pass
      <4> QED
        BY <4>1, <4>2, <4>3, <4>4
    <3>2. CASE CompactLook \/ CompactProbe
      BY <3>2 DEF CompactLook, CompactProbe, Pass, TypeOK, Passes
    <3>3. CASE TrimRead
      <4>1. \/ reap' = Pass("known")
            \/ reap' = [reap EXCEPT !.pc = "create",
                          !.buf = <<0>> \o LastLines(Real(log.lines), Keep(reap.aged))]
        BY <3>3 DEF TrimRead
      <4>2. \A b : [reap EXCEPT !.pc = "create", !.buf = b].pc = "create"
        BY DEF TypeOK, Passes
      <4>3. Pass("known").pc = "known"
        BY DEF Pass
      <4> QED
        BY <4>1, <4>2, <4>3
    <3>4. CASE TrimCreate \/ TrimWrite
      BY <3>4 DEF TrimCreate, TrimWrite, TypeOK, Passes
    <3> QED
      BY <1>8, <3>1, <3>2, <3>3, <3>4
  <2> QED
    BY <1>1, <2>1, <2>2, <2>3
<1>9. CASE TrimRename
  <2>1. log' # NoFile /\ UNCHANGED <<row, up>> /\ reap.pc = "rename"
    BY <1>9 DEF TrimRename, TrimInv
  <2>2. reap'.pc = "known"
    BY <1>9 DEF TrimRename, Pass
  <2> QED
    BY <1>1, <2>1, <2>2
<1>10. CASE OrphanKnown
  <2>1. UNCHANGED <<log, row, tracked, up>> /\ reap.pc = "known"
    BY <1>10 DEF OrphanKnown, reapFrame, memory, files
  <2>2. reap'.seen = "none" /\ reap'.pc = "sweep" => row.status = "absent"
    BY <1>10 DEF OrphanKnown, Pass
  <2>3. reap'.pc \in {"stale", "sweep"}
    BY <1>10 DEF OrphanKnown, Pass
  <2> QED
    BY <2>1, <2>2, <2>3 DEF MapInv
<1>11. CASE OrphanSweep
  <2>1. UNCHANGED <<row, tracked, up>> /\ reap.pc = "sweep"
    BY <1>11 DEF OrphanSweep, reapFrame, memory
  <2>2. reap.seen # "none" => log' = log
    BY <1>11 DEF OrphanSweep
  <2>3. reap'.pc = "stale"
    BY <1>11 DEF OrphanSweep, Pass
  <2> QED
    BY <2>1, <2>2, <2>3 DEF MapInv
<1>12. ASSUME NEW p \in Poll,
              \/ PollStart(p) \/ PollFind(p) \/ PollState(p) \/ PollPage(p)
              \/ PollRecheck(p) \/ PollSaved(p) \/ PollAgain(p)
       PROVE  MapInv'
  <2>1. UNCHANGED pollFrame
    BY <1>12 DEF PollStart, PollFind, PollState, PollPage, PollRecheck, PollSaved, PollAgain
  <2> QED
    BY <1>1, <2>1 DEF pollFrame, files
<1>13. CASE Die
  <2>1. ~tracked' /\ reap'.pc = "off"
    BY <1>13 DEF Die, Pass
  <2> QED
    BY <2>1 DEF MapInv
<1>14. CASE Restart
  <2>1. UNCHANGED tracked /\ ~up
    BY <1>14 DEF Restart, memory
  <2>2. ~tracked'
    BY <2>1 DEF MapInv
  <2>3. reap'.pc = "stale"
    BY <1>14 DEF Restart, Pass
  <2> QED
    BY <2>2, <2>3 DEF MapInv
<1>15. CASE Reconcile
  <2>1. UNCHANGED <<log, reap, up>> /\ (row'.status = "absent" => row.status = "absent")
    BY <1>15 DEF Reconcile, files, TypeOK
  <2> QED
    BY <1>1, <2>1
<1>16. CASE Tick
  <2>1. UNCHANGED <<row, reap, up>> /\ (log # NoFile => log' # NoFile)
    BY <1>16, TickTypes DEF Tick, TypeOK
  <2> QED
    BY <1>1, <2>1
<1>17. CASE UNCHANGED vars
  BY <1>1, <1>17 DEF vars, files
<1> QED
  BY <1>2, <1>3, <1>4, <1>5, <1>6, <1>7, <1>8, <1>9, <1>10, <1>11, <1>12, <1>13, <1>14,
     <1>15, <1>16, <1>17 DEF Next, ReaperPass
-----------------------------------------------------------------------------
(* The exit, the tails and the pages *)

LEMMA ExitKept == ASSUME IInv, [Next]_vars, Grows PROVE ExitInv'
<1> USE DEF IInv
<1>1. ASSUME atExit' \in {atExit, written},
             jstate' = "exited" => jstate = "exited" \/ ~leader,
             waiter' \in {"reaped", "read", "through"} =>
               waiter \in {"reaped", "read", "through"} \/ ~leader,
             row'.status = "exited" => row.status = "exited" \/ ~leader,
             \A p \in Poll : poll'[p].state = "exited" => poll[p].state = "exited" \/ ~leader
      PROVE  ExitInv'
  <2>1. atExit \in Nat /\ written \in Nat /\ atExit <= written /\ written <= written'
    BY DEF TypeOK, ExitInv, Grows
  <2>2. \/ written' \in Nat
        \/ UNCHANGED written
    BY StepTyped DEF TypeOK
  <2>3. atExit' <= written'
    BY <1>1, <2>1, <2>2
  <2> QED
    BY <1>1, <2>3 DEF ExitInv, Grows
<1>2. CASE Write \/ LeaderExits \/ ChildExits
  BY <1>1, <1>2 DEF Write, LeaderExits, ChildExits, memory
<1>3. CASE WaiterRecord \/ WaiterTail \/ WaiterUpdate
  <2>1. UNCHANGED <<atExit, poll>>
    BY <1>3 DEF WaiterRecord, WaiterTail, WaiterUpdate, waiterFrame, group
  <2>2. ~leader
    BY <1>3 DEF WaiterRecord, WaiterTail, WaiterUpdate, ExitInv
  <2> QED
    BY <1>1, <2>1, <2>2
<1>4. CASE ReapStale
  <2>1. atExit' \in {atExit, written} /\ UNCHANGED <<memory, row, poll>>
    BY <1>4 DEF ReapStale, group
  <2> QED
    BY <1>1, <2>1 DEF memory
<1>5. CASE ReapDelete
  BY <1>1, <1>5 DEF ReapDelete, reapFrame, memory, group
<1>6. CASE \/ ReapDrop \/ ReapUnlink \/ OrphanKnown \/ OrphanSweep
           \/ CompactRows \/ CompactLook \/ CompactProbe
           \/ TrimRead \/ TrimCreate \/ TrimWrite \/ TrimRename
  <2>1. UNCHANGED <<atExit, jstate, waiter, row, poll>>
    BY <1>6 DEF ReapDrop, ReapUnlink, OrphanKnown, OrphanSweep, CompactRows, CompactLook,
                CompactProbe, TrimRead, TrimCreate, TrimWrite, TrimRename, reapFrame, memory,
                files, group
  <2> QED
    BY <1>1, <2>1
<1>7. ASSUME NEW p \in Poll,
             \/ PollStart(p) \/ PollFind(p) \/ PollState(p) \/ PollPage(p)
             \/ PollRecheck(p) \/ PollSaved(p) \/ PollAgain(p)
      PROVE  ExitInv'
  <2>1. UNCHANGED <<atExit, jstate, waiter, row>>
    BY <1>7 DEF PollStart, PollFind, PollState, PollPage, PollRecheck, PollSaved, PollAgain,
                pollFrame, memory, group
  <2>2. /\ poll'[p].state \in {"none", poll[p].state, jstate, row.status}
        /\ \A q \in Poll \ {p} : poll'[q] = poll[q]
    <3>1. poll \in [Poll -> Polls]
      BY DEF TypeOK
    <3>2. ASSUME NEW kind, NEW state, NEW lines, Answer(p, kind, state, lines)
          PROVE  /\ poll'[p].state = state
                 /\ \A q \in Poll \ {p} : poll'[q] = poll[q]
      BY <3>1, <3>2 DEF Answer, NoPoll
    <3>3. CASE PollStart(p) \/ PollState(p) \/ PollAgain(p)
      BY <3>1, <3>3 DEF PollStart, PollState, PollAgain, NoPoll, Polls
    <3>4. CASE PollFind(p)
      <4>1. \/ poll' = [poll EXCEPT ![p].pc = "saved", ![p].state = row.status,
                                    ![p].tail = row.tail]
            \/ Answer(p, "unknown", "none", <<>>)
        BY <3>4 DEF PollFind
      <4> QED
        BY <3>1, <3>2, <4>1 DEF Polls
    <3>5. CASE PollPage(p)
      <4>1. \/ poll' = [poll EXCEPT ![p].pc = "recheck"]
            \/ Answer(p, "page", poll[p].state, LastLines(log.lines, Limit))
        BY <3>5 DEF PollPage
      <4> QED
        BY <3>1, <3>2, <4>1 DEF Polls
    <3>6. CASE PollRecheck(p)
      BY <3>2, <3>6 DEF PollRecheck
    <3>7. CASE PollSaved(p)
      BY <3>2, <3>7 DEF PollSaved
    <3> QED
      BY <1>7, <3>3, <3>4, <3>5, <3>6, <3>7
  <2>3. poll'[p].state = "exited" => ~leader
    BY <2>2 DEF ExitInv
  <2> QED
    BY <1>1, <2>1, <2>2, <2>3
<1>8. CASE Die
  <2>1. atExit' \in {atExit, written} /\ UNCHANGED row /\ jstate' = "running" /\ waiter' = "none"
    BY <1>8 DEF Die
  <2>2. \A p \in Poll : poll'[p].state = "none"
    BY <1>8 DEF Die, NoPoll
  <2> QED
    BY <1>1, <2>1, <2>2
<1>9. CASE Restart \/ Reconcile \/ Tick
  <2>1. UNCHANGED <<atExit, jstate, waiter, poll>>
    BY <1>9 DEF Restart, Reconcile, Tick, memory, group
  <2>2. row'.status = "exited" => row.status = "exited"
    BY <1>9 DEF Restart, Reconcile, Tick, TypeOK
  <2> QED
    BY <1>1, <2>1, <2>2
<1>10. CASE UNCHANGED vars
  BY <1>1, <1>10 DEF vars, memory, group
<1> QED
  BY <1>2, <1>3, <1>4, <1>5, <1>6, <1>7, <1>8, <1>9, <1>10 DEF Next, ReaperPass

(* What has been read stays good while the job goes on. *)
LEMMA CoversKept ==
  ASSUME IInv, [Next]_vars, Grows
  PROVE  /\ waiter = "read" => Covers(wtail, atExit', written', log')
         /\ row.status = "exited" => Covers(row.tail, atExit', written', log')
         /\ \A p \in Poll : poll[p].pc = "saved" /\ poll[p].state = "exited" =>
              Covers(poll[p].tail, atExit', written', log')
         /\ \A p \in Poll : poll[p].answer = "page" /\ poll[p].state = "exited" =>
              Shows(poll[p].lines, atExit', log')
<1>1. /\ atExit \in Nat /\ written \in Nat /\ written' \in Nat /\ written <= written'
  BY StepTyped DEF IInv, TypeOK, Grows
<1>2. ASSUME NEW tail, ~leader, Covers(tail, atExit, written, log)
      PROVE  Covers(tail, atExit', written', log')
  <2>1. atExit' = atExit /\ (log = NoFile => log' = NoFile)
    BY <1>2 DEF Grows
  <2>2. \A n \in atExit..written : n \in atExit'..written'
    BY <1>1, <2>1
  <2> QED
    BY <1>2, <2>1, <2>2 DEF Covers
<1>3. waiter = "read" => Covers(wtail, atExit', written', log')
  BY <1>2 DEF IInv, TailInv, ExitInv
<1>4. row.status = "exited" => Covers(row.tail, atExit', written', log')
  BY <1>2 DEF IInv, TailInv, ExitInv
<1>5. ASSUME NEW p \in Poll, poll[p].pc = "saved", poll[p].state = "exited"
      PROVE  Covers(poll[p].tail, atExit', written', log')
  BY <1>2, <1>5 DEF IInv, TailInv, ExitInv
<1>6. ASSUME NEW p \in Poll, poll[p].answer = "page", poll[p].state = "exited"
      PROVE  Shows(poll[p].lines, atExit', log')
  BY <1>6 DEF IInv, PollInv, ExitInv, Shows, Grows
<1> QED
  BY <1>3, <1>4, <1>5, <1>6
LEMMA TailKept == ASSUME IInv, [Next]_vars, Grows PROVE TailInv'
<1> USE DEF IInv
<1>1. ASSUME waiter' = "read" => waiter = "read" /\ wtail' = wtail,
             row'.status = "exited" => row.status = "exited" /\ row' = row,
             \A p \in Poll : poll'[p].pc = "saved" => poll'[p] = poll[p]
      PROVE  TailInv'
  BY <1>1, CoversKept DEF TailInv
<1>2. CASE Write \/ LeaderExits \/ ChildExits
  BY <1>1, <1>2 DEF Write, LeaderExits, ChildExits, memory
<1>3. CASE WaiterRecord
  BY <1>1, <1>3 DEF WaiterRecord, waiterFrame
<1>4. CASE WaiterTail
  <2>1. UNCHANGED <<written, atExit, log, row, poll>> /\ wtail' = LogTail
    BY <1>4 DEF WaiterTail, waiterFrame, group, files
  <2>2. log = NoFile => LogTail = <<>>
    BY DEF LogTail
  <2>3. log # NoFile => LogTail = LastLines(OutputUpto(written), TailLines)
    BY LogTailIsOutput DEF LogTail, LogInv, TypeOK, Files
  <2>4. written \in atExit..written
    BY DEF ExitInv, TypeOK
  <2>5. Covers(wtail, atExit, written, log)'
    BY <2>1, <2>2, <2>3, <2>4 DEF Covers
  <2> QED
    BY <2>1, <2>5 DEF TailInv
<1>5. CASE WaiterUpdate
  <2>1. UNCHANGED <<written, atExit, log, poll>> /\ waiter' = "through"
    BY <1>5 DEF WaiterUpdate, waiterFrame, group, files
  <2>2. row' = row \/ row'.tail = wtail
    BY <1>5 DEF WaiterUpdate
  <2>3. Covers(wtail, atExit, written, log)
    BY <1>5 DEF WaiterUpdate, TailInv
  <2> QED
    BY <2>1, <2>2, <2>3 DEF TailInv
<1>6. CASE ReapStale
  <2>1. UNCHANGED <<memory, row, poll>>
    BY <1>6 DEF ReapStale
  <2> QED
    BY <1>1, <2>1 DEF memory
<1>7. CASE ReapDelete
  <2>1. row' = row \/ row'.status = "absent"
    BY <1>7 DEF ReapDelete
  <2> QED
    BY <1>1, <1>7, <2>1 DEF ReapDelete, reapFrame, memory
<1>8. CASE \/ ReapDrop \/ ReapUnlink \/ OrphanKnown \/ OrphanSweep
           \/ CompactRows \/ CompactLook \/ CompactProbe
           \/ TrimRead \/ TrimCreate \/ TrimWrite \/ TrimRename
  <2>1. UNCHANGED <<waiter, wtail, row, poll>>
    BY <1>8 DEF ReapDrop, ReapUnlink, OrphanKnown, OrphanSweep, CompactRows, CompactLook,
                CompactProbe, TrimRead, TrimCreate, TrimWrite, TrimRename, reapFrame, memory
  <2> QED
    BY <1>1, <2>1
<1>9. ASSUME NEW p \in Poll,
             \/ PollStart(p) \/ PollState(p) \/ PollPage(p)
             \/ PollRecheck(p) \/ PollSaved(p) \/ PollAgain(p)
      PROVE  TailInv'
  <2>1. UNCHANGED <<waiter, wtail, row>>
    BY <1>9 DEF PollStart, PollState, PollPage, PollRecheck, PollSaved, PollAgain, pollFrame, memory
  <2>2. poll \in [Poll -> Polls]
    BY DEF TypeOK
  <2>3. poll'[p].pc # "saved" /\ \A q \in Poll \ {p} : poll'[q] = poll[q]
    <3>1. ASSUME NEW kind, NEW state, NEW lines, Answer(p, kind, state, lines)
          PROVE  poll'[p].pc = "answered" /\ \A q \in Poll \ {p} : poll'[q] = poll[q]
      BY <2>2, <3>1 DEF Answer, NoPoll
    <3>2. CASE PollStart(p) \/ PollState(p) \/ PollAgain(p)
      BY <2>2, <3>2 DEF PollStart, PollState, PollAgain, NoPoll, Polls
    <3>3. CASE PollPage(p)
      <4>1. \/ poll' = [poll EXCEPT ![p].pc = "recheck"]
            \/ Answer(p, "page", poll[p].state, LastLines(log.lines, Limit))
        BY <3>3 DEF PollPage
      <4> QED
        BY <2>2, <3>1, <4>1 DEF Polls
    <3>4. CASE PollRecheck(p) \/ PollSaved(p)
      BY <3>1, <3>4 DEF PollRecheck, PollSaved
    <3> QED
      BY <1>9, <3>2, <3>3, <3>4
  <2> QED
    BY <1>1, <2>1, <2>3
<1>10. ASSUME NEW p \in Poll, PollFind(p) PROVE TailInv'
  <2>1. UNCHANGED <<waiter, wtail, row, written, atExit, log>>
    BY <1>10 DEF PollFind, pollFrame, memory, group, files
  <2>2. poll \in [Poll -> Polls]
    BY DEF TypeOK
  <2>3. CASE Answer(p, "unknown", "none", <<>>)
    <3>1. poll'[p].pc = "answered" /\ \A q \in Poll \ {p} : poll'[q] = poll[q]
      BY <2>2, <2>3 DEF Answer, NoPoll
    <3> QED
      BY <1>1, <2>1, <3>1
  <2>4. CASE poll' = [poll EXCEPT ![p].pc = "saved", ![p].state = row.status, ![p].tail = row.tail]
    <3>1. /\ poll'[p].state = row.status /\ poll'[p].tail = row.tail
          /\ \A q \in Poll \ {p} : poll'[q] = poll[q]
      BY <2>2, <2>4 DEF Polls
    <3> QED
      BY <2>1, <3>1 DEF TailInv
  <2> QED
    BY <1>10, <2>3, <2>4 DEF PollFind
<1>11. CASE Die
  <2>1. UNCHANGED row /\ waiter' = "none"
    BY <1>11 DEF Die
  <2>2. \A p \in Poll : poll'[p].pc = "idle"
    BY <1>11 DEF Die, NoPoll
  <2> QED
    BY <1>1, <2>1, <2>2
<1>12. CASE Restart \/ Reconcile \/ Tick
  <2>1. UNCHANGED <<waiter, wtail, poll>>
    BY <1>12 DEF Restart, Reconcile, Tick, memory
  <2>2. row' = row \/ row'.status = "failed"
    BY <1>12 DEF Restart, Reconcile, Tick, TypeOK
  <2> QED
    BY <1>1, <2>1, <2>2
<1>13. CASE UNCHANGED vars
  BY <1>1, <1>13 DEF vars, memory
<1> QED
  BY <1>2, <1>3, <1>4, <1>5, <1>6, <1>7, <1>8, <1>9, <1>10, <1>11, <1>12, <1>13
     DEF Next, ReaperPass
LEMMA PageShows ==
  ASSUME NEW lines \in Lines, NEW w \in Nat, Holds(lines, w), NEW low \in Nat, low <= w, NEW file
  PROVE  Shows(LastLines(lines, Limit), low, file)
<1> DEFINE page == LastLines(lines, Limit)
<1>1. /\ Len(lines) \in Nat
      /\ Len(page) = IF Len(lines) <= Limit THEN Len(lines) ELSE Limit
      /\ \A i \in 1..Len(page) : page[i] = lines[Len(lines) - Len(page) + i]
      /\ page \in Seq(0..MaxLines)
  <2>1. lines \in Seq(0..MaxLines)
    BY DEF Lines
  <2> QED
    BY <2>1, LastLinesFacts
<1> HIDE DEF page
<1>2. CASE page = <<>>
  <2>1. Len(lines) = 0
    BY <1>1, <1>2, EmptySeq
  <2>2. w = 0
    BY <2>1 DEF Holds, Whole, Trimmed
  <2> QED
    BY <1>2, <2>2 DEF Shows, page
<1>3. CASE page # <<>>
  <2>1. Len(page) \in Nat \ {0} /\ Len(lines) # 0
    BY <1>1, <1>3, EmptySeq
  <2>2. page[Len(page)] = lines[Len(lines)]
    <3>1. Len(page) \in 1..Len(page) /\ Len(lines) - Len(page) + Len(page) = Len(lines)
      BY <1>1, <2>1
    <3> QED
      BY <1>1, <3>1
  <2>3. lines[Len(lines)] = w
    <3>1. CASE Whole(lines, w)
      BY <1>1, <2>1, <3>1 DEF Whole
    <3>2. CASE Trimmed(lines, w)
      <4>1. Len(lines) \in 2..Len(lines)
        BY <1>1, <3>2 DEF Trimmed
      <4> QED
        BY <1>1, <3>2, <4>1 DEF Trimmed
    <3> QED
      BY <3>1, <3>2 DEF Holds
  <2> QED
    BY <1>3, <2>2, <2>3 DEF Shows, page
<1> QED
  BY <1>2, <1>3

(* The same of numbers. *)
LEMMA LastNumbers ==
  ASSUME NEW s \in Seq(Nat), NEW n \in Nat
  PROVE  /\ Len(LastLines(s, n)) = IF Len(s) <= n THEN Len(s) ELSE n
         /\ \A i \in 1..Len(LastLines(s, n)) :
              LastLines(s, n)[i] = s[Len(s) - Len(LastLines(s, n)) + i]
<1>1. Len(s) \in Nat
  OBVIOUS
<1>2. CASE Len(s) <= n
  BY <1>1, <1>2 DEF LastLines
<1>3. CASE ~(Len(s) <= n)
  <2>1. LastLines(s, n) = SubSeq(s, Len(s) - n + 1, Len(s))
    BY <1>3 DEF LastLines
  <2>2. Len(LastLines(s, n)) = n
    BY <1>1, <1>3, <2>1
  <2> QED
    BY <1>1, <1>3, <2>1, <2>2
<1> QED
  BY <1>2, <1>3

LEMMA TailShows ==
  ASSUME NEW tail \in Lines, NEW low \in Nat, NEW high \in Nat, Covers(tail, low, high, NoFile)
  PROVE  Shows(LastLines(tail, Limit), low, NoFile)
<1>1. CASE tail = <<>>
  BY <1>1 DEF LastLines, Shows
<1>2. CASE tail # <<>>
  <2>1. PICK n \in low..high : tail = LastLines(OutputUpto(n), TailLines)
    BY <1>2 DEF Covers
  <2> n \in Nat /\ low <= n
    OBVIOUS
  <2>t. TailLines \in Nat
    BY LogConstants
  <2>2. /\ Len(tail) \in Nat \ {0} /\ Len(tail) <= n
        /\ tail[Len(tail)] = n
    <3>1. /\ OutputUpto(n) \in Seq(Nat) /\ Len(OutputUpto(n)) = n
          /\ \A i \in 1..n : OutputUpto(n)[i] = i
      BY OutputUptoFacts
    <3>2. /\ Len(tail) = IF n <= TailLines THEN n ELSE TailLines
          /\ \A i \in 1..Len(tail) : tail[i] = OutputUpto(n)[n - Len(tail) + i]
      <4>1. /\ Len(LastLines(OutputUpto(n), TailLines)) = IF n <= TailLines THEN n ELSE TailLines
            /\ \A i \in 1..Len(LastLines(OutputUpto(n), TailLines)) :
                 LastLines(OutputUpto(n), TailLines)[i] =
                   OutputUpto(n)[n - Len(LastLines(OutputUpto(n), TailLines)) + i]
        <5>1. PICK s \in Seq(Nat), t \in Nat : s = OutputUpto(n) /\ t = TailLines
          BY <2>t, <3>1
        <5>2. /\ Len(LastLines(s, t)) = IF Len(s) <= t THEN Len(s) ELSE t
              /\ \A i \in 1..Len(LastLines(s, t)) :
                   LastLines(s, t)[i] = s[Len(s) - Len(LastLines(s, t)) + i]
          BY LastNumbers
        <5> QED
          BY <3>1, <5>1, <5>2
      <4> QED
        BY <2>1, <4>1
    <3>3. Len(tail) \in Nat \ {0}
      BY <1>2, EmptySeq DEF Lines
    <3>4. Len(tail) \in 1..Len(tail) /\ n - Len(tail) + Len(tail) = n /\ n \in 1..n
      BY <3>2, <3>3
    <3> QED
      BY <3>1, <3>2, <3>3, <3>4
  <2>3. /\ LastLines(tail, Limit) \in Seq(0..MaxLines)
        /\ Len(LastLines(tail, Limit)) = IF Len(tail) <= Limit THEN Len(tail) ELSE Limit
        /\ \A i \in 1..Len(LastLines(tail, Limit)) :
             LastLines(tail, Limit)[i] = tail[Len(tail) - Len(LastLines(tail, Limit)) + i]
    BY LastLinesFacts DEF Lines
  <2>4. LastLines(tail, Limit)[Len(LastLines(tail, Limit))] = n
    <3> DEFINE m == Len(LastLines(tail, Limit))
    <3>1. m \in 1..m /\ Len(tail) - m + m = Len(tail)
      BY <2>2, <2>3
    <3> QED
      BY <2>2, <2>3, <3>1
  <2>5. LastLines(tail, Limit) # <<>>
    BY <2>2, <2>3, EmptySeq
  <2> QED
    BY <2>4, <2>5 DEF Shows
<1> QED
  BY <1>1, <1>2

LEMMA PollKept == ASSUME IInv, [Next]_vars, Grows PROVE PollInv'
<1> USE DEF IInv
<1>0. poll \in [Poll -> Polls] /\ written \in Nat /\ atExit \in Nat /\ atExit <= written
  BY DEF TypeOK, ExitInv
<1> DEFINE Fine(q) ==
      /\ q.answer # "none" => q.pc = "answered"
      /\ q.answer # "error"
      /\ q.pc = "recheck" => log' = NoFile
      /\ q.answer = "page" /\ q.state = "exited" => Shows(q.lines, atExit', log')
<1>1. \A p \in Poll : Fine(poll[p])
  BY CoversKept DEF PollInv, Grows
<1>2. ASSUME \A p \in Poll : Fine(poll'[p]) PROVE PollInv'
  BY <1>2 DEF PollInv
<1> HIDE DEF Fine
<1>3. ASSUME UNCHANGED poll PROVE PollInv'
  BY <1>1, <1>2, <1>3
<1>4. ASSUME NEW p \in Poll, Fine(poll'[p]), \A q \in Poll \ {p} : poll'[q] = poll[q]
      PROVE  PollInv'
  BY <1>1, <1>2, <1>4
<1>5. ASSUME NEW p \in Poll, NEW kind \in {"page", "unknown"}, NEW state, NEW lines,
             Answer(p, kind, state, lines),
             kind = "page" /\ state = "exited" => Shows(lines, atExit', log')
      PROVE  PollInv'
  <2>1. /\ poll'[p] = [NoPoll EXCEPT !.pc = "answered", !.answer = kind,
                                     !.state = state, !.lines = lines]
        /\ \A q \in Poll \ {p} : poll'[q] = poll[q]
    BY <1>0, <1>5 DEF Answer
  <2>2. Fine(poll'[p])
    BY <1>5, <2>1 DEF Fine, NoPoll
  <2> QED
    BY <1>4, <2>1, <2>2
<1>6. ASSUME NEW p \in Poll, PollStart(p) \/ PollState(p) \/ PollAgain(p) PROVE PollInv'
  <2>1. /\ poll'[p].answer = "none" /\ poll'[p].pc # "recheck"
        /\ \A q \in Poll \ {p} : poll'[q] = poll[q]
    <3>1. CASE PollStart(p) \/ PollState(p)
      BY <1>0, <3>1 DEF PollStart, PollState, PollStep, PollInv, Polls
    <3>2. CASE PollAgain(p)
      BY <1>0, <3>2 DEF PollAgain, NoPoll
    <3> QED
      BY <1>6, <3>1, <3>2
  <2> QED
    BY <1>4, <2>1 DEF Fine
<1>7. ASSUME NEW p \in Poll, PollFind(p) PROVE PollInv'
  <2>1. CASE Answer(p, "unknown", "none", <<>>)
    BY <1>5, <2>1
  <2>2. CASE /\ poll' = [poll EXCEPT ![p].pc = "saved", ![p].state = row.status, ![p].tail = row.tail]
    <3>1. /\ poll'[p].answer = "none" /\ poll'[p].pc = "saved"
          /\ \A q \in Poll \ {p} : poll'[q] = poll[q]
      BY <1>0, <1>7, <2>2 DEF PollFind, PollStep, PollInv, Polls
    <3> QED
      BY <1>4, <3>1 DEF Fine
  <2> QED
    BY <1>7, <2>1, <2>2 DEF PollFind
<1>8. ASSUME NEW p \in Poll, PollPage(p) PROVE PollInv'
  <2>1. UNCHANGED <<log, atExit>>
    BY <1>8 DEF PollPage, pollFrame, group, files
  <2>2. CASE log = NoFile
    <3>1. /\ poll'[p].answer = "none" /\ poll'[p].pc = "recheck"
          /\ \A q \in Poll \ {p} : poll'[q] = poll[q]
      BY <1>0, <1>8, <2>2 DEF PollPage, PollStep, PollInv, Polls
    <3> QED
      BY <1>4, <2>1, <2>2, <3>1 DEF Fine
  <2>3. CASE log # NoFile
    <3>1. Answer(p, "page", poll[p].state, LastLines(log.lines, Limit))
      BY <1>8, <2>3 DEF PollPage
    <3>2. Shows(LastLines(log.lines, Limit), atExit', log')
      BY <1>0, <2>1, <2>3, PageShows DEF LogInv, TypeOK, Files
    <3> QED
      BY <1>5, <3>1, <3>2
  <2> QED
    BY <2>2, <2>3
<1>9. ASSUME NEW p \in Poll, PollRecheck(p) PROVE PollInv'
  <2>1. ~tracked
    BY <1>9 DEF PollRecheck, PollStep, PollInv, MapInv
  <2>2. Answer(p, "unknown", "none", <<>>)
    BY <1>9, <2>1 DEF PollRecheck
  <2> QED
    BY <1>5, <2>2
<1>10. ASSUME NEW p \in Poll, PollSaved(p) PROVE PollInv'
  <2>1. UNCHANGED <<log, atExit>>
    BY <1>10 DEF PollSaved, pollFrame, group, files
  <2>2. Answer(p, "page", poll[p].state,
               LastLines(IF log = NoFile THEN poll[p].tail ELSE log.lines, Limit))
    BY <1>10 DEF PollSaved
  <2>3. ASSUME poll[p].state = "exited"
        PROVE  Shows(LastLines(IF log = NoFile THEN poll[p].tail ELSE log.lines, Limit),
                     atExit', log')
    <3>1. CASE log # NoFile
      BY <1>0, <2>1, <3>1, PageShows DEF LogInv, TypeOK, Files
    <3>2. CASE log = NoFile
      <4>1. Covers(poll[p].tail, atExit, written, NoFile) /\ poll[p].tail \in Lines
        BY <1>0, <1>10, <2>3, <3>2 DEF PollSaved, PollStep, TailInv, Polls, UpTo
      <4>2. Shows(LastLines(poll[p].tail, Limit), atExit, NoFile)
        BY <1>0, <4>1, TailShows
      <4> QED
        BY <2>1, <3>2, <4>2
    <3> QED
      BY <3>1, <3>2
  <2> QED
    BY <1>5, <2>2, <2>3
<1>11. CASE Die
  <2>1. \A p \in Poll : poll'[p] = NoPoll
    BY <1>11 DEF Die
  <2> QED
    BY <1>2, <2>1 DEF Fine, NoPoll
<1>12. CASE Write \/ LeaderExits \/ ChildExits \/ WaiterRecord \/ WaiterTail \/ WaiterUpdate
  BY <1>3, <1>12 DEF Write, LeaderExits, ChildExits, WaiterRecord, WaiterTail, WaiterUpdate,
                     waiterFrame
<1>13. CASE ReaperPass
  BY <1>3, <1>13 DEF ReaperPass, ReapStale, ReapDelete, ReapDrop, ReapUnlink, CompactRows,
                     CompactLook, CompactProbe, TrimRead, TrimCreate, TrimWrite, TrimRename,
                     OrphanKnown, OrphanSweep, reapFrame
<1>14. CASE Restart \/ Reconcile \/ Tick \/ UNCHANGED vars
  BY <1>3, <1>14 DEF Restart, Reconcile, Tick, vars
<1> QED
  BY <1>6, <1>7, <1>8, <1>9, <1>10, <1>11, <1>12, <1>13, <1>14 DEF Next

-----------------------------------------------------------------------------
(* The conjunction is an invariant of the log. *)
THEOREM Invariance == Spec => []IInv
<1>1. ASSUME IInv, [Next]_vars PROVE IInv'
  BY <1>1, StepGrows, StepTyped, LogKept, MapKept, ExitKept, TailKept, PollKept DEF IInv
<1> QED
  BY <1>1, InitHolds, PTL DEF Spec

(* Every variable keeps its type: no tail and no page is ever longer than  *)
(* it may be.                                                              *)
THEOREM LogIsTyped == Spec => []TypeOK
<1>1. IInv => TypeOK
  BY DEF IInv
<1> QED
  BY <1>1, Invariance, PTL

(* Appends, trims, evictions and crashes leave a log that ends with the    *)
(* last line written and goes back from there without a gap.               *)
THEOREM LogIsContinuous == Spec => []LogEndsAtLastLine
<1>1. ASSUME IInv PROVE LogEndsAtLastLine
  <2>1. CASE log # NoFile
    <3> DEFINE lines == Output(log.lines)
               out == OutputUpto(written)
    <3>1. /\ lines \in Seq(Nat) /\ Len(lines) \in Nat /\ Len(lines) <= written
          /\ \A i \in 1..Len(lines) : lines[i] = written - Len(lines) + i
          /\ Len(lines) = written \/ (Head(log.lines) = 0 /\ Len(lines) >= AgedKeep)
      <4>1. log.lines \in Lines /\ written \in Nat /\ Holds(log.lines, written)
        BY <1>1, <2>1 DEF IInv, LogInv, TypeOK, Files
      <4>2. PICK l \in Lines, w \in Nat : l = log.lines /\ w = written /\ Holds(l, w)
        BY <4>1
      <4>3. /\ Output(l) \in Lines /\ Len(Output(l)) \in Nat /\ Len(Output(l)) <= w
            /\ \A i \in 1..Len(Output(l)) : Output(l)[i] = w - Len(Output(l)) + i
            /\ \/ Len(Output(l)) = w
               \/ Head(l) = 0 /\ Len(Output(l)) >= AgedKeep
        <5> HIDE DEF Output
        <5> QED
          BY <4>2, OutputFacts
      <4>4. Output(l) \in Seq(Nat)
        BY <4>3 DEF Lines
      <4>5. lines = Output(l)
        BY <4>2
      <4> HIDE DEF lines
      <4> QED
        BY <4>2, <4>3, <4>4, <4>5
    <3>2. /\ out \in Seq(Nat) /\ Len(out) = written
          /\ \A i \in 1..written : out[i] = i
      BY <1>1, OutputUptoFacts DEF IInv, TypeOK
    <3> HIDE DEF lines, out
    <3>3. /\ LastLines(out, Len(lines)) \in Seq(Nat)
          /\ Len(LastLines(out, Len(lines))) = Len(lines)
          /\ \A i \in 1..Len(lines) :
               LastLines(out, Len(lines))[i] = out[written - Len(lines) + i]
      <4>1. /\ Len(LastLines(out, Len(lines))) = IF Len(out) <= Len(lines) THEN Len(out) ELSE Len(lines)
            /\ LastLines(out, Len(lines)) \in Seq(Nat)
            /\ \A i \in 1..Len(LastLines(out, Len(lines))) :
                 LastLines(out, Len(lines))[i] =
                   out[Len(out) - Len(LastLines(out, Len(lines))) + i]
        <5>1. PICK s \in Seq(Nat), n \in Nat : s = out /\ n = Len(lines)
          BY <3>1, <3>2
        <5>2. /\ Len(LastLines(s, n)) = IF Len(s) <= n THEN Len(s) ELSE n
              /\ LastLines(s, n) \in Seq(Nat)
              /\ \A i \in 1..Len(LastLines(s, n)) :
                   LastLines(s, n)[i] = s[Len(s) - Len(LastLines(s, n)) + i]
          BY LastLinesFacts
        <5> QED
          BY <5>1, <5>2
      <4>2. Len(LastLines(out, Len(lines))) = Len(lines)
        BY <3>1, <3>2, <4>1
      <4> QED
        BY <3>2, <4>1, <4>2
    <3>4. ASSUME NEW i \in 1..Len(lines) PROVE lines[i] = LastLines(out, Len(lines))[i]
      <4>1. written \in Nat /\ written - Len(lines) + i \in 1..written
        BY <1>1, <3>1 DEF IInv, TypeOK
      <4> QED
        BY <3>1, <3>2, <3>3, <4>1
    <3>5. lines = LastLines(out, Len(lines))
      BY <3>1, <3>3, <3>4, SeqEqual
    <3> QED
      BY <2>1, <3>1, <3>5 DEF LogEndsAtLastLine, lines, out
  <2> QED
    BY <2>1 DEF LogEndsAtLastLine
<1> QED
  BY <1>1, Invariance, PTL

(* The tail saved with an exit covers the exit. *)
THEOREM TailsCoverExits == Spec => []TailCoversExit
<1>1. IInv => TailCoversExit
  BY DEF IInv, TailInv, Covers, TailCoversExit
<1> QED
  BY <1>1, Invariance, PTL

(* A poll that says `exited` shows the last output before the exit.        *)
THEOREM ExitedPollsAreComplete == Spec => []ExitedPollIsComplete
<1>1. IInv => ExitedPollIsComplete
  BY DEF IInv, PollInv, Shows, ExitedPollIsComplete
<1> QED
  BY <1>1, Invariance, PTL

(* A poll that races an eviction never answers with an error.              *)
THEOREM PollsNeverErr == Spec => []PollNeverErrors
<1>1. IInv => PollNeverErrors
  BY DEF IInv, PollInv, PollNeverErrors
<1> QED
  BY <1>1, Invariance, PTL

=============================================================================
