----------------------------- MODULE FileOps_proofs -----------------------------
(***************************************************************************)
(* However many calls of the file tool interleave over whatever tree, an   *)
(* append that was answered is in its file, and an answer about a path was *)
(* true during the call.                                                   *)
(***************************************************************************)
EXTENDS FileOps, TLAPS

USE TreeConstants

-----------------------------------------------------------------------------
(* The invariant                                                           *)

Sound == {e \in Entries : /\ e.kind = "none" => e = Nothing
                          /\ e.kind = "file" => e.file \in File
                          /\ e.kind = "link" => e.to \in Path}

Typed ==
  /\ entry \in [Path -> Sound]
  /\ data \in [File -> Seq(Op)] /\ files \in Nat
  /\ call \in [Op -> Calls]

(* What a call at each of its places has been called with. *)
Stage(c) ==
  /\ c.pc # "idle" => c.path \in Path
  /\ c.action = "move" => c.dest \in Path
  /\ c.pc = "stat" => c.action \in {"delete", "read"}
  /\ c.pc \in {"unlink", "clear", "rmdir"} => c.action = "delete"
  /\ c.pc \in {"look", "rename"} => c.action = "move"
  /\ c.pc = "fill" => c.action = "write"
  /\ c.pc = "put" => c.action = "append"
  /\ c.pc \in {"fill", "put"} => c.file \in File
  /\ c.pc = "mkdir" => c.action \in {"write", "append", "move"}
  /\ c.pc = "open" => c.action \in {"write", "append", "read"}
  /\ c.answer # "none" => c.pc = "over"

Staged == \A o \in Op : Stage(call[o])

(* A call in progress has seen what its paths are now, and a move that is  *)
(* past its look at the target has seen it free.                           *)
Seen ==
  \A o \in Op : call[o].pc \notin {"idle", "over"} =>
    /\ KindOf(entry, call[o].path) \in was[o].path
    /\ TargetOf(entry, call[o].path) \in was[o].target
    /\ KindOf(entry, call[o].dest) \in was[o].dest
    /\ call[o].action = "move" /\ call[o].pc # "look" => "none" \in was[o].dest

(* The bytes of a call are in no file before it puts them there, and those *)
(* of an append that was answered are in the file it opened.               *)
Kept ==
  /\ \A o \in Op : call[o].pc # "over" => \A f \in File : \A i \in DOMAIN data[f] : data[f][i] # o
  /\ \A o \in Op : call[o].action = "append" /\ call[o].answer = "done" => call[o].file \in File
  /\ AppendsSurvive

IInv == Typed /\ Staged /\ Seen /\ Kept /\ AnswersWereTrue

-----------------------------------------------------------------------------
(* Records                                                                 *)

Pcs == {"idle", "mkdir", "open", "fill", "put", "stat", "unlink", "clear", "rmdir",
        "look", "rename", "over"}
Results == {"none", "done", "not found", "exists", "is a directory", "error", "hung up"}

LEMMA Entered ==
  /\ Nothing \in Sound /\ Nothing.kind = "none"
  /\ Directory \in Sound /\ Directory.kind = "dir"
  /\ \A f \in File : AFile(f) \in Sound /\ AFile(f).kind = "file" /\ AFile(f).file = f
  /\ \A p \in Path : ALink(p) \in Sound /\ ALink(p).kind = "link"
  BY DEF Sound, Entries, Nothing, Directory, AFile, ALink

LEMMA Went == ASSUME NEW c \in Calls, NEW pc \in Pcs
              PROVE LET d == [c EXCEPT !.pc = pc] IN
                      /\ d \in Calls /\ d.pc = pc
                      /\ d.action = c.action /\ d.path = c.path /\ d.dest = c.dest
                      /\ d.file = c.file /\ d.answer = c.answer
  BY DEF Calls, Pcs

LEMMA Answered == ASSUME NEW c \in Calls, NEW result \in Results
                  PROVE LET d == [c EXCEPT !.pc = "over", !.answer = result] IN
                          /\ d \in Calls /\ d.pc = "over" /\ d.answer = result
                          /\ d.action = c.action /\ d.path = c.path /\ d.dest = c.dest
                          /\ d.file = c.file
  BY SMTT(30), ZenonT(60) DEF Calls, Results

-----------------------------------------------------------------------------
(* What a step of call o does to the calls, and what it says               *)

Own(o) ==
  /\ call' \in [Op -> Calls] /\ Stage(call'[o])
  /\ call[o].pc # "over" /\ call'[o].pc # "idle"
  /\ \A x \in Op \ {o} : call'[x] = [call[x] EXCEPT !.left = call'[x].left]
  /\ call[o].pc # "idle" =>
       call'[o].action = call[o].action /\ call'[o].path = call[o].path /\ call'[o].dest = call[o].dest

Says(o) ==
  /\ call'[o].answer # "none" => call[o].pc # "idle"
  /\ call'[o].answer = "not found" =>
       "none" = IF call[o].action = "read" THEN TargetOf(entry, call[o].path)
                ELSE KindOf(entry, call[o].path)
  /\ call'[o].answer = "exists" => KindOf(entry, call[o].dest) # "none"
  /\ call'[o].answer = "is a directory" => TargetOf(entry, call[o].path) = "dir"
  /\ call'[o].answer = "done" /\ call'[o].action = "delete" =>
       KindOf(entry, call[o].path) # "none" /\ KindOf(entry', call[o].path) = "none"
  /\ call'[o].answer = "done" /\ call'[o].action = "move" =>
       call[o].pc = "rename" /\ KindOf(entry, call[o].path) # "none"
  /\ call'[o].action = "move" /\ call'[o].pc \notin {"look", "over"} =>
       \/ call[o].pc \notin {"idle", "look", "over"}
       \/ KindOf(entry', call'[o].dest) = "none"

Effect(o) ==
  /\ Own(o) /\ Says(o)
  /\ entry' \in [Path -> Sound] /\ data' \in [File -> Seq(Op)] /\ files' \in Nat

(* The two ways a call goes on, once for all actions. *)
LEMMA GoesOn ==
  ASSUME Typed, Staged, NEW o \in Op, call[o].pc \notin {"idle", "over"},
         NEW pc \in Pcs \ {"idle", "over"}, Goto(o, pc),
         Stage([call[o] EXCEPT !.pc = pc]),
         call[o].action = "move" /\ pc # "look" =>
           call[o].pc # "look" \/ KindOf(entry', call[o].dest) = "none"
  PROVE Own(o) /\ Says(o)
<1>1. call[o] \in Calls
  BY DEF Typed
<1>2. call' = [call EXCEPT ![o] = [call[o] EXCEPT !.pc = pc]] /\ call \in [Op -> Calls]
  BY DEF Goto, Typed
<1>3. call'[o] = [call[o] EXCEPT !.pc = pc] /\ \A x \in Op \ {o} : call'[x] = call[x]
  BY <1>2
<1>4. \A x \in Op : call[x] = [call[x] EXCEPT !.left = call[x].left]
  BY <1>2 DEF Calls
<1>5. call[o].answer = "none"
  BY DEF Staged, Stage
<1>6. /\ call'[o] \in Calls /\ call'[o].pc = pc /\ call'[o].answer = "none"
      /\ call'[o].action = call[o].action /\ call'[o].path = call[o].path
      /\ call'[o].dest = call[o].dest
  BY <1>1, <1>3, <1>5, Went
<1>7. Own(o)
  <2>1. call' \in [Op -> Calls]
    BY <1>2, <1>3, <1>6
  <2> QED
    BY <2>1, <1>3, <1>4, <1>6 DEF Own
<1>8. Says(o)
  BY <1>6 DEF Says
<1> QED
  BY <1>7, <1>8

LEMMA GivesAnswer ==
  ASSUME Typed, Staged, NEW o \in Op, call[o].pc \notin {"idle", "over"},
         NEW result \in Results, Answer(o, result)
  PROVE /\ Own(o)
        /\ call'[o].answer = result /\ call'[o].pc = "over" /\ call'[o].action = call[o].action
        /\ call'[o].path = call[o].path /\ call'[o].dest = call[o].dest
        /\ call'[o].file = call[o].file
<1>1. call[o] \in Calls
  BY DEF Typed
<1> DEFINE d == [call[o] EXCEPT !.pc = "over", !.answer = result]
<1>2. call' = [call EXCEPT ![o] = d] /\ call \in [Op -> Calls]
  BY DEF Answer, Typed
<1>3. call'[o] = d /\ \A x \in Op \ {o} : call'[x] = call[x]
  BY <1>2
<1>4. \A x \in Op : call[x] = [call[x] EXCEPT !.left = call[x].left]
  BY <1>2 DEF Calls
<1>6. /\ d \in Calls /\ d.pc = "over" /\ d.answer = result
      /\ d.action = call[o].action /\ d.path = call[o].path
      /\ d.dest = call[o].dest /\ d.file = call[o].file
  BY <1>1, Answered
<1>5. Stage(d)
  <2>1. Stage(call[o])
    BY DEF Staged
  <2> QED
    BY <2>1, <1>6 DEF Stage
<1>7. Own(o)
  <2>1. call' \in [Op -> Calls]
    BY <1>2, <1>3, <1>6
  <2> QED
    BY <2>1, <1>3, <1>4, <1>5, <1>6 DEF Own
<1> QED
  BY <1>7, <1>3, <1>6

(* Where a path leads is a path, and what is there is what TargetOf says. *)
LEMMA Leads ==
  ASSUME Typed, NEW p \in Path
  PROVE /\ Resolve(p) \in Path /\ entry[Resolve(p)].kind = TargetOf(entry, p)
        /\ KindOf(entry, p) = entry[p].kind
        /\ p # None
<1>1. entry[p] \in Sound
  BY DEF Typed
<1>2. entry[p].kind = "link" => entry[p].to \in Path
  BY <1>1 DEF Sound
<1>3. p # None
  OBVIOUS
<1> QED
  BY <1>2, <1>3 DEF Resolve, TargetOf, KindOf

-----------------------------------------------------------------------------
(* Each step's effect                                                      *)

LEMMA CallEffect ==
  ASSUME Typed, Staged, NEW o \in Op,
         NEW action \in {"write", "append", "delete", "move", "read"}, NEW p \in Path,
         NEW q \in Name \cup {None}, Call(o, action, p, q)
  PROVE Effect(o)
<1> DEFINE d == [Idle EXCEPT !.pc = First(action), !.action = action, !.path = p, !.dest = q]
<1>1. call' = [call EXCEPT ![o] = d] /\ call \in [Op -> Calls]
  BY DEF Call, Typed
<1>2. call'[o] = d /\ \A x \in Op \ {o} : call'[x] = call[x]
  BY <1>1
<1>3. /\ d.pc = First(action) /\ d.action = action /\ d.path = p /\ d.dest = q
      /\ d.file = None /\ d.left = {} /\ d.answer = "none"
  BY DEF Idle
<1>4. /\ action \in {"write", "append"} => First(action) = "mkdir"
      /\ action \in {"delete", "read"} => First(action) = "stat"
      /\ action = "move" => First(action) = "look"
  BY DEF First
<1>5. d \in Calls
  <2>1. Idle \in Calls
    BY DEF Idle, Calls
  <2>2. First(action) \in {"mkdir", "stat", "look"}
    BY <1>4
  <2>3. q \in Path \cup {None}
    BY DEF Path
  <2> QED
    BY <2>1, <2>2, <2>3 DEF Calls
<1>6. Stage(d)
  <2>1. action = "move" => q \in Path
    BY DEF Call, Path
  <2> QED
    BY <2>1, <1>3, <1>4 DEF Stage
<1>7. Own(o)
  <2>1. call' \in [Op -> Calls]
    BY <1>1, <1>5
  <2>2. \A x \in Op : call[x] = [call[x] EXCEPT !.left = call[x].left]
    BY <1>1 DEF Calls
  <2>3. call[o].pc = "idle"
    BY DEF Call, At
  <2>4. First(action) # "idle"
    BY <1>4
  <2> QED
    BY <2>1, <2>2, <2>3, <2>4, <1>2, <1>3, <1>6 DEF Own
<1>8. Says(o)
  BY <1>2, <1>3, <1>4 DEF Says
<1> QED
  BY <1>7, <1>8 DEF Effect, Typed, Call, fs

LEMMA EnsureParentEffect == ASSUME Typed, Staged, NEW o \in Op, EnsureParent(o) PROVE Effect(o)
<1> DEFINE move == call[o].action = "move"
           p == IF move THEN call[o].dest ELSE call[o].path
           next == IF move THEN "rename" ELSE "open"
<1>1. call[o].pc = "mkdir" /\ Stage(call[o]) /\ call[o] \in Calls
  BY DEF EnsureParent, At, Staged, Typed
<1>2. /\ p \in Path /\ call[o].action \in {"write", "append", "move"}
      /\ call[o].path \in Path /\ (move => call[o].dest \in Path)
  BY <1>1 DEF Stage
<1>3. data' = data /\ files' = files
  BY DEF EnsureParent
<1>4. entry' \in [Path -> Sound]
  <2>1. entry' = entry \/ (~Reachable(p) /\ entry' = [entry EXCEPT ![In[p]] = Directory])
    BY DEF EnsureParent
  <2> QED
    BY <2>1, Entered DEF Typed
<1>5. CASE Goto(o, next)
  <2>1. Stage([call[o] EXCEPT !.pc = next])
    BY <1>1, <1>2, Went DEF Stage, Pcs
  <2>2. Own(o) /\ Says(o)
    BY <1>1, <1>5, <2>1, GoesOn DEF Pcs
  <2> QED
    BY <2>2, <1>3, <1>4 DEF Effect, Typed
<1>6. CASE Answer(o, "error")
  <2>1. /\ Own(o) /\ call'[o].answer = "error" /\ call'[o].pc = "over"
    BY <1>1, <1>6, GivesAnswer DEF Results
  <2>2. Says(o)
    BY <2>1, <1>1 DEF Says
  <2> QED
    BY <2>1, <2>2, <1>3, <1>4 DEF Effect, Typed
<1>7. Goto(o, next) \/ Answer(o, "error")
  BY DEF EnsureParent
<1> QED
  BY <1>5, <1>6, <1>7

(* The steps that only answer or only go on. *)
LEMMA OpenTyped ==
  ASSUME Typed, Staged, NEW o \in Op, NEW f \in File,
         call[o].pc = "open", call[o].action \in {"write", "append"}, Opened(o, f)
  PROVE /\ Own(o) /\ Says(o) /\ call'[o].pc # "over"
        /\ call'[o].answer = "none"
<1> DEFINE pc == IF call[o].action = "write" THEN "fill" ELSE "put"
           d == [call[o] EXCEPT !.file = f, !.pc = pc]
<1>1. call[o] \in Calls /\ Stage(call[o]) /\ call \in [Op -> Calls]
  BY DEF Typed, Staged
<1>2. call' = [call EXCEPT ![o] = d]
  BY <1>1 DEF Opened
<1>3. call[o].answer = "none" /\ call[o].path \in Path
  BY <1>1 DEF Stage
<1>4. /\ d \in Calls /\ d.pc = pc /\ d.file = f /\ d.action = call[o].action
      /\ d.path = call[o].path /\ d.dest = call[o].dest /\ d.answer = "none"
  BY <1>1, <1>3 DEF Calls
<1>5. Stage(d)
  BY <1>3, <1>4 DEF Stage
<1>6. call'[o] = d /\ \A x \in Op \ {o} : call'[x] = call[x]
  BY <1>1, <1>2
<1>7. \A x \in Op : call[x] = [call[x] EXCEPT !.left = call[x].left]
  BY <1>1 DEF Calls
<1>8. Own(o)
  <2>1. call' \in [Op -> Calls]
    BY <1>1, <1>2, <1>4
  <2>2. call[o].pc \notin {"idle", "over"} /\ pc \notin {"idle", "over"}
    OBVIOUS
  <2> HIDE DEF d, pc
  <2> QED
    BY <2>1, <2>2, <1>4, <1>5, <1>6, <1>7 DEF Own
<1>9. call[o].pc = "open" /\ pc \notin {"idle", "over"} /\ call[o].action # "move"
  OBVIOUS
<1> HIDE DEF d, pc
<1> QED
  BY <1>4, <1>6, <1>8, <1>9 DEF Says

LEMMA OpenEffect == ASSUME Typed, Staged, NEW o \in Op, Open(o) PROVE Effect(o)
<1> DEFINE p == Resolve(call[o].path)
<1>1. call[o].pc = "open" /\ call[o].action \in {"write", "append"} /\ call[o].path \in Path
  BY DEF Open, At, Staged, Stage
<1>2. p \in Path /\ entry[p] \in Sound
  BY <1>1, Leads DEF Typed
<1>3. CASE entry[p].kind = "file" /\ Opened(o, entry[p].file) /\ Truncated(o, entry[p].file)
           /\ UNCHANGED <<entry, files>>
  <2>1. entry[p].file \in File
    BY <1>2, <1>3 DEF Sound
  <2>2. data' \in [File -> Seq(Op)]
    <3>1. data' = data \/ data' = [data EXCEPT ![entry[p].file] = <<>>]
      BY <1>3 DEF Truncated
    <3>2. <<>> \in Seq(Op)
      OBVIOUS
    <3> QED
      BY <2>1, <3>1, <3>2 DEF Typed
  <2> QED
    BY <1>1, <1>3, <2>1, <2>2, OpenTyped DEF Effect, Typed
<1>4. CASE /\ files + 1 \in File /\ files' = files + 1
           /\ entry' = [entry EXCEPT ![p] = AFile(files + 1)]
           /\ Opened(o, files + 1)
           /\ UNCHANGED <<data, wiped>>
  <2>1. entry' \in [Path -> Sound]
    BY <1>2, <1>4, Entered DEF Typed
  <2> QED
    BY <1>1, <1>4, <2>1, OpenTyped DEF Effect, Typed
<1>5. CASE Answer(o, "error") /\ UNCHANGED <<fs, wiped>>
  <2>1. Own(o) /\ call'[o].answer = "error" /\ call'[o].pc = "over"
    BY <1>1, <1>5, GivesAnswer DEF Results
  <2>2. Says(o)
    BY <2>1, <1>1 DEF Says
  <2> QED
    BY <2>1, <2>2, <1>5 DEF Effect, Typed, fs
<1> QED
  BY <1>3, <1>4, <1>5 DEF Open

LEMMA FillEffect == ASSUME Typed, Staged, NEW o \in Op, Fill(o) PROVE Effect(o)
<1>1. call[o].pc = "fill" /\ call[o].action = "write" /\ call[o].file \in File
  BY DEF Fill, At, Staged, Stage
<1>2. data' \in [File -> Seq(Op)]
  <2>1. data[call[o].file] \in Seq(Op)
    BY <1>1 DEF Typed
  <2>2. \A old \in Seq(Op) : (IF old = <<>> THEN <<o>> ELSE [old EXCEPT ![1] = o]) \in Seq(Op)
    OBVIOUS
  <2> QED
    BY <2>1, <2>2 DEF Fill, Typed
<1>3. Own(o) /\ call'[o].answer = "done" /\ call'[o].pc = "over" /\ call'[o].action = "write"
  BY <1>1, GivesAnswer DEF Results, Fill
<1>4. Says(o)
  BY <1>1, <1>3 DEF Says
<1> QED
  BY <1>2, <1>3, <1>4 DEF Effect, Typed, Fill

LEMMA PutEffect == ASSUME Typed, Staged, NEW o \in Op, Put(o) PROVE Effect(o)
<1>1. call[o].pc = "put" /\ call[o].action = "append" /\ call[o].file \in File
  BY DEF Put, At, Staged, Stage
<1>2. data' \in [File -> Seq(Op)]
  <2>1. \A s \in Seq(Op) : PutAtEnd(o, s) \in Seq(Op)
    BY DEF PutAtEnd
  <2> QED
    BY <1>1, <2>1 DEF Put, Typed
<1>3. Own(o) /\ call'[o].answer = "done" /\ call'[o].pc = "over" /\ call'[o].action = "append"
  BY <1>1, GivesAnswer DEF Results, Put
<1>4. Says(o)
  BY <1>1, <1>3 DEF Says
<1> QED
  BY <1>2, <1>3, <1>4 DEF Effect, Typed, Put

LEMMA DeleteStatEffect == ASSUME Typed, Staged, NEW o \in Op, DeleteStat(o) PROVE Effect(o)
<1> DEFINE p == call[o].path
           kind == KindAt(p)
<1>1. call[o].pc = "stat" /\ call[o].action = "delete" /\ p \in Path /\ Stage(call[o])
      /\ call[o] \in Calls
  BY DEF DeleteStat, At, Staged, Stage, Typed
<1>2. UNCHANGED <<fs, wiped>>
  BY DEF DeleteStat
<1>3. CASE kind = "none" /\ Answer(o, "not found")
  <2>1. Own(o) /\ call'[o].answer = "not found" /\ call'[o].pc = "over"
        /\ call'[o].action = "delete"
    BY <1>1, <1>3, GivesAnswer DEF Results
  <2>2. KindOf(entry, p) = "none"
    BY <1>1, <1>3, Leads DEF KindAt
  <2>3. Says(o)
    BY <1>1, <2>1, <2>2 DEF Says
  <2> QED
    BY <2>1, <2>3, <1>2 DEF Effect, Typed, fs
<1>4. CASE Goto(o, IF kind = "dir" THEN "clear" ELSE "unlink")
  <2>1. \A pc \in {"clear", "unlink"} : Stage([call[o] EXCEPT !.pc = pc])
    BY <1>1, Went DEF Stage, Pcs
  <2>2. Own(o) /\ Says(o)
    BY <1>1, <1>4, <2>1, GoesOn DEF Pcs
  <2> QED
    BY <2>2, <1>2 DEF Effect, Typed, fs
<1> QED
  BY <1>3, <1>4 DEF DeleteStat

LEMMA UnlinkEffect == ASSUME Typed, Staged, NEW o \in Op, Unlink(o) PROVE Effect(o)
<1> DEFINE p == call[o].path
<1>1. call[o].pc = "unlink" /\ call[o].action = "delete" /\ p \in Path
  BY DEF Unlink, At, Staged, Stage
<1>2. KindOf(entry, p) = entry[p].kind /\ p # None
  BY <1>1, Leads
<1>3. data' = data /\ files' = files
  BY DEF Unlink
<1>4. CASE /\ entry[p].kind \in {"file", "link"}
           /\ entry' = [entry EXCEPT ![p] = Nothing] /\ Answer(o, "done")
  <2>1. Own(o) /\ call'[o].answer = "done" /\ call'[o].pc = "over" /\ call'[o].action = "delete"
    BY <1>1, <1>4, GivesAnswer DEF Results
  <2>2. entry' \in [Path -> Sound] /\ KindOf(entry', p) = "none"
    BY <1>1, <1>2, <1>4, Entered DEF Typed, KindOf
  <2>3. Says(o)
    BY <1>1, <1>2, <1>4, <2>1, <2>2 DEF Says
  <2> QED
    BY <2>1, <2>2, <2>3, <1>3 DEF Effect, Typed
<1>5. CASE entry[p] = Nothing /\ Answer(o, "not found") /\ UNCHANGED entry
  <2>1. Own(o) /\ call'[o].answer = "not found" /\ call'[o].pc = "over"
        /\ call'[o].action = "delete"
    BY <1>1, <1>5, GivesAnswer DEF Results
  <2>2. Says(o)
    BY <1>1, <1>2, <1>5, <2>1, Entered DEF Says
  <2> QED
    BY <2>1, <2>2, <1>3, <1>5 DEF Effect, Typed
<1>6. CASE Answer(o, "error") /\ UNCHANGED entry
  <2>1. Own(o) /\ call'[o].answer = "error" /\ call'[o].pc = "over"
    BY <1>1, <1>6, GivesAnswer DEF Results
  <2>2. Says(o)
    BY <2>1, <1>1 DEF Says
  <2> QED
    BY <2>1, <2>2, <1>3, <1>6 DEF Effect, Typed
<1> QED
  BY <1>4, <1>5, <1>6 DEF Unlink

(* A call whose list of what is left to remove changes. *)
LEMMA Relisted ==
  ASSUME NEW c \in Calls, NEW left \in SUBSET Path
  PROVE LET d == [c EXCEPT !.left = left] IN
          /\ d \in Calls /\ d.pc = c.pc /\ d.action = c.action /\ d.path = c.path
          /\ d.dest = c.dest /\ d.file = c.file /\ d.answer = c.answer /\ d.left = left
          /\ Stage(c) => Stage(d)
<1> DEFINE d == [c EXCEPT !.left = left]
<1>1. /\ d \in Calls /\ d.pc = c.pc /\ d.action = c.action /\ d.path = c.path
      /\ d.dest = c.dest /\ d.file = c.file /\ d.answer = c.answer /\ d.left = left
  BY DEF Calls
<1>2. Stage(c) => Stage(d)
  BY <1>1 DEF Stage
<1> QED
  BY <1>1, <1>2

(* An answer that says nothing about the paths. *)
LEMMA SaysNothing ==
  ASSUME Typed, Staged, NEW o \in Op, call[o].pc \notin {"idle", "over"},
         NEW result \in {"error", "hung up"}, Answer(o, result), UNCHANGED <<entry, data, files>>
  PROVE Effect(o)
<1>1. Own(o) /\ call'[o].answer = result /\ call'[o].pc = "over"
  BY GivesAnswer DEF Results
<1>2. Says(o)
  BY <1>1 DEF Says
<1> QED
  BY <1>1, <1>2 DEF Effect, Typed

(* `not found` of a call that does not read. *)
LEMMA SaysGone ==
  ASSUME Typed, Staged, NEW o \in Op, call[o].pc \notin {"idle", "over"},
         call[o].action # "read", KindOf(entry, call[o].path) = "none",
         Answer(o, "not found"), UNCHANGED <<entry, data, files>>
  PROVE Effect(o)
<1>1. Own(o) /\ call'[o].answer = "not found" /\ call'[o].pc = "over"
  BY GivesAnswer DEF Results
<1>2. Says(o)
  BY <1>1 DEF Says
<1> QED
  BY <1>1, <1>2 DEF Effect, Typed

LEMMA HangUpEffect == ASSUME Typed, Staged, NEW o \in Op, HangUp(o) PROVE Effect(o)
<1>1. call[o].pc \notin {"idle", "over"}
  BY DEF HangUp
<1> QED
  BY <1>1, SaysNothing DEF HangUp, fs

LEMMA ClearStartEffect == ASSUME Typed, Staged, NEW o \in Op, ClearStart(o) PROVE Effect(o)
<1> DEFINE p == call[o].path
<1>1. /\ call[o].pc = "clear" /\ call[o].action = "delete" /\ p \in Path /\ Stage(call[o])
      /\ call[o] \in Calls /\ call \in [Op -> Calls]
  BY DEF ClearStart, At, Staged, Stage, Typed
<1>2. UNCHANGED <<entry, data, files>>
  BY DEF ClearStart, fs
<1>3. CASE call' = [call EXCEPT ![o].pc = "rmdir", ![o].left = Inside(p)]
  <2> DEFINE c == [call[o] EXCEPT !.pc = "rmdir"]
             d == [c EXCEPT !.left = Inside(p)]
  <2>1. c \in Calls /\ Stage(c) /\ c.pc = "rmdir" /\ c.action = "delete" /\ c.path = p
        /\ c.dest = call[o].dest /\ c.answer = call[o].answer
    <3>1. /\ c \in Calls /\ c.pc = "rmdir" /\ c.action = call[o].action /\ c.path = p
          /\ c.dest = call[o].dest /\ c.file = call[o].file /\ c.answer = call[o].answer
      BY <1>1, Went DEF Pcs
    <3> QED
      BY <3>1, <1>1 DEF Stage
  <2>2. Inside(p) \subseteq Path
    BY DEF Inside
  <2>3. /\ d \in Calls /\ d.pc = "rmdir" /\ d.action = "delete" /\ d.path = p
        /\ d.dest = call[o].dest /\ d.answer = call[o].answer /\ Stage(d)
    <3> HIDE DEF c
    <3>1. Inside(p) \in SUBSET Path
      BY <2>2
    <3> QED
      BY <2>1, <3>1, Relisted
  <2>4. call'[o] = d /\ \A x \in Op \ {o} : call'[x] = call[x]
    BY <1>1, <1>3
  <2>5. \A x \in Op : call[x] = [call[x] EXCEPT !.left = call[x].left]
    BY <1>1 DEF Calls
  <2>6. call' \in [Op -> Calls]
    BY <1>1, <1>3, <2>3
  <2>7. call[o].answer = "none"
    BY <1>1 DEF Stage
  <2> HIDE DEF c, d
  <2>8. Own(o)
    BY <1>1, <2>3, <2>4, <2>5, <2>6 DEF Own
  <2>9. Says(o)
    BY <2>3, <2>4, <2>7 DEF Says
  <2> QED
    BY <2>8, <2>9, <1>2 DEF Effect, Typed
<1>4. CASE entry[p] = Nothing /\ Answer(o, "not found")
  BY <1>1, <1>2, <1>4, SaysGone, Leads, Entered
<1>5. CASE Answer(o, "error")
  BY <1>1, <1>2, <1>5, SaysNothing
<1> QED
  BY <1>3, <1>4, <1>5 DEF ClearStart

LEMMA ClearNextEffect == ASSUME Typed, Staged, NEW o \in Op, ClearNext(o) PROVE Effect(o)
<1>1. /\ call[o].pc = "rmdir" /\ call[o].action = "delete" /\ Stage(call[o])
      /\ call[o] \in Calls /\ call \in [Op -> Calls] /\ call[o].answer = "none"
  BY DEF ClearNext, At, Staged, Stage, Typed
<1>2. PICK p \in call[o].left \cup Inside(call[o].path) :
        /\ entry' = [entry EXCEPT ![p] = Nothing]
        /\ call' = [call EXCEPT ![o].left = @ \ {p}]
  BY DEF ClearNext
<1> DEFINE d == [call[o] EXCEPT !.left = call[o].left \ {p}]
<1>3. call[o].left \ {p} \in SUBSET Path
  BY <1>1 DEF Calls
<1>4. /\ d \in Calls /\ d.pc = "rmdir" /\ d.action = "delete" /\ d.path = call[o].path
      /\ d.dest = call[o].dest /\ d.answer = "none" /\ Stage(d)
  BY <1>1, <1>3, Relisted
<1>5. call' = [call EXCEPT ![o] = d]
  BY <1>1, <1>2
<1>6. call'[o] = d /\ (\A x \in Op \ {o} : call'[x] = call[x]) /\ call' \in [Op -> Calls]
  BY <1>1, <1>4, <1>5
<1>7. \A x \in Op : call[x] = [call[x] EXCEPT !.left = call[x].left]
  BY <1>1 DEF Calls
<1>8. entry' \in [Path -> Sound]
  BY <1>2, Entered DEF Typed
<1> HIDE DEF d
<1>9. Own(o) /\ Says(o)
  BY <1>1, <1>4, <1>6, <1>7 DEF Own, Says
<1> QED
  BY <1>8, <1>9 DEF Effect, Typed, ClearNext

LEMMA RemoveDirEffect == ASSUME Typed, Staged, NEW o \in Op, RemoveDir(o) PROVE Effect(o)
<1> DEFINE p == call[o].path
<1>1. /\ call[o].pc = "rmdir" /\ call[o].action = "delete" /\ p \in Path /\ Stage(call[o])
      /\ call[o] \in Calls /\ call \in [Op -> Calls]
  BY DEF RemoveDir, At, Staged, Stage, Typed
<1>2. UNCHANGED <<data, files>>
  BY DEF RemoveDir
<1>3. KindOf(entry, p) = entry[p].kind
  BY <1>1, Leads
<1>4. CASE /\ entry[p] = Directory
           /\ entry' = [entry EXCEPT ![p] = Nothing]
           /\ call' = [x \in Op |->
                IF x = o THEN [call[o] EXCEPT !.pc = "over", !.answer = "done"]
                ELSE [call[x] EXCEPT !.left = IF call[x].path = p THEN {} ELSE @]]
  <2> DEFINE d == [call[o] EXCEPT !.pc = "over", !.answer = "done"]
             left(x) == IF call[x].path = p THEN {} ELSE call[x].left
  <2>1. /\ d \in Calls /\ d.pc = "over" /\ d.answer = "done" /\ d.action = "delete"
        /\ d.path = p /\ d.dest = call[o].dest /\ d.file = call[o].file
    BY <1>1, Answered, ZenonT(60) DEF Results
  <2>2. Stage(d)
    BY <1>1, <2>1 DEF Stage
  <2>3. call'[o] = d /\ \A x \in Op \ {o} : call'[x] = [call[x] EXCEPT !.left = left(x)]
    BY <1>4
  <2>4. \A x \in Op : left(x) \in SUBSET Path /\ call[x] \in Calls
    BY <1>1 DEF Calls
  <2>5. ASSUME NEW x \in Op \ {o} PROVE call'[x] \in Calls /\ call'[x].left = left(x)
    <3> HIDE DEF left
    <3>1. call[x] \in Calls /\ left(x) \in SUBSET Path
      BY <2>4
    <3>2. PICK l \in SUBSET Path : l = left(x)
      BY <3>1
    <3>3. call'[x] = [call[x] EXCEPT !.left = l]
      BY <2>3, <3>2
    <3> QED
      BY <3>1, <3>2, <3>3, Relisted
  <2>6. call' \in [Op -> Calls]
    BY <1>4, <2>1, <2>3, <2>5
  <2>7. entry' \in [Path -> Sound] /\ KindOf(entry', p) = "none"
    BY <1>1, <1>4, Entered, Leads DEF Typed, KindOf
  <2>8. KindOf(entry, p) = "dir"
    BY <1>3, <1>4, Entered
  <2> HIDE DEF d, left
  <2>9. Own(o)
    BY <1>1, <2>1, <2>2, <2>3, <2>5, <2>6 DEF Own
  <2>10. Says(o)
    BY <1>1, <2>1, <2>3, <2>7, <2>8 DEF Says
  <2> QED
    BY <2>7, <2>9, <2>10, <1>2 DEF Effect, Typed
<1>5. CASE entry[p] = Nothing /\ Answer(o, "not found") /\ UNCHANGED entry
  BY <1>1, <1>2, <1>3, <1>5, SaysGone, Entered
<1>6. CASE Answer(o, "error") /\ UNCHANGED entry
  BY <1>1, <1>2, <1>6, SaysNothing
<1> QED
  BY <1>4, <1>5, <1>6 DEF RemoveDir

LEMMA MoveLookEffect == ASSUME Typed, Staged, NEW o \in Op, MoveLook(o) PROVE Effect(o)
<1> DEFINE q == call[o].dest
<1>1. /\ call[o].pc = "look" /\ call[o].action = "move" /\ q \in Path /\ Stage(call[o])
      /\ call[o] \in Calls
  BY DEF MoveLook, At, Staged, Stage, Typed
<1>2. UNCHANGED <<entry, data, files>>
  BY DEF MoveLook, fs
<1>3. KindOf(entry, q) = KindAt(q) /\ KindOf(entry', q) = KindAt(q)
  BY <1>1, <1>2, Leads DEF KindAt, KindOf
<1>4. CASE KindAt(q) # "none" /\ Answer(o, "exists")
  <2>1. Own(o) /\ call'[o].answer = "exists" /\ call'[o].pc = "over"
    BY <1>1, <1>4, GivesAnswer DEF Results
  <2>2. Says(o)
    BY <1>1, <1>3, <1>4, <2>1 DEF Says
  <2> QED
    BY <2>1, <2>2, <1>2 DEF Effect, Typed
<1>5. CASE KindAt(q) = "none" /\ Goto(o, "mkdir")
  <2>1. Stage([call[o] EXCEPT !.pc = "mkdir"])
    BY <1>1, Went DEF Stage, Pcs
  <2>2. Own(o) /\ Says(o)
    BY <1>1, <1>3, <1>5, <2>1, GoesOn DEF Pcs
  <2> QED
    BY <2>2, <1>2 DEF Effect, Typed
<1> QED
  BY <1>4, <1>5 DEF MoveLook

LEMMA RenameEffect == ASSUME Typed, Staged, NEW o \in Op, Rename(o) PROVE Effect(o)
<1> DEFINE p == call[o].path
           q == call[o].dest
<1>1. /\ call[o].pc = "rename" /\ call[o].action = "move" /\ p \in Path /\ q \in Path
  BY DEF Rename, At, Staged, Stage
<1>2. UNCHANGED <<data, files>>
  BY DEF Rename
<1>3. KindOf(entry, p) = entry[p].kind /\ entry[p] \in Sound
  BY <1>1, Leads DEF Typed
<1>4. CASE /\ entry[p] # Nothing
           /\ entry' = [entry EXCEPT ![q] = entry[p], ![p] = IF p = q THEN @ ELSE Nothing]
           /\ Answer(o, "done")
  <2>1. Own(o) /\ call'[o].answer = "done" /\ call'[o].pc = "over" /\ call'[o].action = "move"
    BY <1>1, <1>4, GivesAnswer DEF Results
  <2>2. KindOf(entry, p) # "none"
    BY <1>3, <1>4 DEF Sound
  <2>3. entry' \in [Path -> Sound]
    BY <1>1, <1>3, <1>4, Entered DEF Typed
  <2>4. Says(o)
    BY <1>1, <2>1, <2>2 DEF Says
  <2> QED
    BY <2>1, <2>3, <2>4, <1>2 DEF Effect, Typed
<1>5. CASE entry[p] = Nothing /\ Answer(o, "not found") /\ UNCHANGED entry
  BY <1>1, <1>2, <1>3, <1>5, SaysGone, Entered
<1>6. CASE Answer(o, "error") /\ UNCHANGED entry
  BY <1>1, <1>2, <1>6, SaysNothing
<1> QED
  BY <1>4, <1>5, <1>6 DEF Rename

LEMMA ReadStatEffect == ASSUME Typed, Staged, NEW o \in Op, ReadStat(o) PROVE Effect(o)
<1> DEFINE p == call[o].path
           kind == entry[Resolve(p)].kind
<1>1. /\ call[o].pc = "stat" /\ call[o].action = "read" /\ p \in Path /\ Stage(call[o])
      /\ call[o] \in Calls
  BY DEF ReadStat, At, Staged, Stage, Typed
<1>2. UNCHANGED <<entry, data, files>>
  BY DEF ReadStat, fs
<1>3. TargetOf(entry, p) = kind
  BY <1>1, Leads
<1>4. ASSUME NEW result \in {"not found", "is a directory"}, Answer(o, result),
             result = "not found" => kind = "none", result = "is a directory" => kind = "dir"
      PROVE Effect(o)
  <2>1. Own(o) /\ call'[o].answer = result /\ call'[o].pc = "over" /\ call'[o].action = "read"
    BY <1>1, <1>4, GivesAnswer DEF Results
  <2>2. Says(o)
    BY <1>1, <1>3, <1>4, <2>1 DEF Says
  <2> QED
    BY <2>1, <2>2, <1>2 DEF Effect, Typed
<1>5. CASE Goto(o, "open")
  <2>1. Stage([call[o] EXCEPT !.pc = "open"])
    BY <1>1, Went DEF Stage, Pcs
  <2>2. Own(o) /\ Says(o)
    BY <1>1, <1>5, <2>1, GoesOn DEF Pcs
  <2> QED
    BY <2>2, <1>2 DEF Effect, Typed
<1> QED
  BY <1>4, <1>5 DEF ReadStat

LEMMA ReadOpenEffect == ASSUME Typed, Staged, NEW o \in Op, ReadOpen(o) PROVE Effect(o)
<1> DEFINE p == call[o].path
           kind == entry[Resolve(p)].kind
<1>1. call[o].pc = "open" /\ call[o].action = "read" /\ p \in Path
  BY DEF ReadOpen, At, Staged, Stage
<1>2. UNCHANGED <<entry, data, files>>
  BY DEF ReadOpen, fs
<1>3. TargetOf(entry, p) = kind
  BY <1>1, Leads
<1>4. ASSUME NEW result \in {"done", "not found", "error"}, Answer(o, result),
             result = "not found" => kind = "none"
      PROVE Effect(o)
  <2>1. Own(o) /\ call'[o].answer = result /\ call'[o].pc = "over" /\ call'[o].action = "read"
    BY <1>1, <1>4, GivesAnswer DEF Results
  <2>2. Says(o)
    BY <1>1, <1>3, <1>4, <2>1 DEF Says
  <2> QED
    BY <2>1, <2>2, <1>2 DEF Effect, Typed
<1> QED
  BY <1>4 DEF ReadOpen

LEMMA StepEffect == ASSUME Typed, Staged, NEW o \in Op, Step(o) PROVE Effect(o)
  BY CallEffect, EnsureParentEffect, OpenEffect, FillEffect, PutEffect, DeleteStatEffect,
     UnlinkEffect, ClearStartEffect, ClearNextEffect, RemoveDirEffect, MoveLookEffect,
     RenameEffect, ReadStatEffect, ReadOpenEffect, HangUpEffect DEF Step

-----------------------------------------------------------------------------
(* The invariant is inductive                                              *)

LEMMA Others ==
  ASSUME Typed, NEW o \in Op, Own(o), NEW x \in Op \ {o}
  PROVE /\ call'[x].pc = call[x].pc /\ call'[x].action = call[x].action
        /\ call'[x].path = call[x].path /\ call'[x].dest = call[x].dest
        /\ call'[x].file = call[x].file /\ call'[x].answer = call[x].answer
        /\ Stage(call[x]) => Stage(call'[x])
<1>1. call[x] \in Calls /\ call'[x] \in Calls
  BY DEF Typed, Own
<1>2. PICK left \in SUBSET Path : left = call'[x].left
  BY <1>1 DEF Calls
<1>3. call'[x] = [call[x] EXCEPT !.left = left]
  BY <1>2 DEF Own
<1> QED
  BY <1>1, <1>3, Relisted

(* What a call has seen stays seen. *)
LEMMA WasGrows ==
  ASSUME Watch, NEW o \in Op
  PROVE /\ was[o].path \subseteq was'[o].path
        /\ was[o].target \subseteq was'[o].target
        /\ was[o].dest \subseteq was'[o].dest
        /\ call'[o].pc # "idle" /\ call[o].pc # "over" =>
             /\ KindOf(entry', call'[o].path) \in was'[o].path
             /\ TargetOf(entry', call'[o].path) \in was'[o].target
             /\ KindOf(entry', call'[o].dest) \in was'[o].dest
  BY DEF Watch

LEMMA SeenStep ==
  ASSUME Typed, Staged, Seen, NEW o \in Op, Effect(o), Watch
  PROVE Seen'
<1> SUFFICES ASSUME NEW x \in Op, call'[x].pc \notin {"idle", "over"}
             PROVE /\ KindOf(entry', call'[x].path) \in was'[x].path
                   /\ TargetOf(entry', call'[x].path) \in was'[x].target
                   /\ KindOf(entry', call'[x].dest) \in was'[x].dest
                   /\ call'[x].action = "move" /\ call'[x].pc # "look" => "none" \in was'[x].dest
  BY DEF Seen, KindOf, TargetOf
<1>1. call[x].pc # "over"
  BY Others DEF Effect, Own
<1>2. /\ KindOf(entry', call'[x].path) \in was'[x].path
      /\ TargetOf(entry', call'[x].path) \in was'[x].target
      /\ KindOf(entry', call'[x].dest) \in was'[x].dest
  BY <1>1, WasGrows
<1>3. CASE x # o
  <2>1. call'[x].pc = call[x].pc /\ call'[x].action = call[x].action
    BY <1>3, Others DEF Effect
  <2>2. call[x].action = "move" /\ call[x].pc # "look" => "none" \in was[x].dest
    BY <2>1 DEF Seen
  <2> QED
    BY <1>2, <2>1, <2>2, WasGrows
<1>4. CASE x = o
  <2>1. ASSUME call'[o].action = "move", call'[o].pc # "look" PROVE "none" \in was'[o].dest
    <3>1. \/ call[o].pc \notin {"idle", "look", "over"}
          \/ KindOf(entry', call'[o].dest) = "none"
      BY <1>4, <2>1 DEF Effect, Says
    <3>2. CASE call[o].pc \notin {"idle", "look", "over"}
      <4>1. call[o].action = "move"
        BY <2>1, <3>2 DEF Effect, Own
      <4>2. "none" \in was[o].dest
        BY <3>2, <4>1 DEF Seen
      <4> QED
        BY <4>2, WasGrows
    <3>3. CASE KindOf(entry', call'[o].dest) = "none"
      BY <1>2, <1>4, <3>3
    <3> QED
      BY <3>1, <3>2, <3>3
  <2> QED
    BY <1>2, <1>4, <2>1
<1> QED
  BY <1>3, <1>4

(* An answer was true when it was given, and the call has seen it be so. *)
TrueOf(o) ==
  /\ call[o].answer = "not found" =>
       "none" \in IF call[o].action = "read" THEN was[o].target ELSE was[o].path
  /\ call[o].answer = "exists" => was[o].dest \ {"none"} # {}
  /\ call[o].answer = "is a directory" => "dir" \in was[o].target
  /\ call[o].answer = "done" /\ call[o].action = "delete" =>
       "none" \in was[o].path /\ was[o].path \ {"none"} # {}
  /\ call[o].answer = "done" /\ call[o].action = "move" =>
       was[o].path \ {"none"} # {} /\ "none" \in was[o].dest

LEMMA AnswersStep ==
  ASSUME Typed, Staged, Seen, AnswersWereTrue, NEW o \in Op, Effect(o), Watch
  PROVE AnswersWereTrue'
<1> SUFFICES ASSUME NEW x \in Op PROVE TrueOf(x)'
  BY DEF AnswersWereTrue, TrueOf
<1>1. CASE x # o
  <2>1. TrueOf(x)
    BY DEF AnswersWereTrue, TrueOf
  <2>2. call'[x].answer = call[x].answer /\ call'[x].action = call[x].action
    BY <1>1, Others DEF Effect
  <2> QED
    BY <2>1, <2>2, WasGrows DEF TrueOf
<1>2. CASE x = o /\ call[o].pc = "idle"
  <2>1. call'[o].answer = "none"
    BY <1>2 DEF Effect, Says
  <2> QED
    BY <1>2, <2>1 DEF TrueOf
<1>3. CASE x = o /\ call[o].pc # "idle"
  <2>1. /\ call'[o].action = call[o].action /\ call'[o].path = call[o].path
        /\ call'[o].dest = call[o].dest /\ call'[o].pc # "idle" /\ call[o].pc # "over"
    BY <1>3 DEF Effect, Own
  <2>2. /\ KindOf(entry, call[o].path) \in was'[o].path
        /\ TargetOf(entry, call[o].path) \in was'[o].target
        /\ KindOf(entry, call[o].dest) \in was'[o].dest
        /\ call[o].pc = "rename" /\ call[o].action = "move" => "none" \in was'[o].dest
    BY <1>3, <2>1, WasGrows DEF Seen
  <2>3. KindOf(entry', call[o].path) \in was'[o].path
    BY <2>1, WasGrows
  <2> QED
    BY <1>3, <2>1, <2>2, <2>3 DEF Effect, Says, TrueOf
<1> QED
  BY <1>1, <1>2, <1>3

-----------------------------------------------------------------------------
(* The bytes                                                               *)

(* What a step does to the files: it leaves them, truncates one for a      *)
(* write, puts a write over the start of one, or an append at its end.     *)
Unwritten(o) ==
  /\ UNCHANGED <<data, wiped>>
  /\ call'[o].answer = "done" => call'[o].action # "append"

Emptied(o) ==
  \E f \in File : /\ data' = [data EXCEPT ![f] = <<>>] /\ wiped' = wiped \cup ToSet(data[f])
                  /\ call'[o].answer = "none"

Overwritten(o) ==
  \E f \in File :
    /\ data' = [data EXCEPT ![f] = IF data[f] = <<>> THEN <<o>> ELSE [data[f] EXCEPT ![1] = o]]
    /\ wiped' = IF data[f] = <<>> THEN wiped ELSE wiped \cup {data[f][1]}
    /\ call'[o].action = "write" /\ call'[o].pc = "over"

Appended(o) ==
  /\ call[o].file \in File /\ call'[o].file = call[o].file
  /\ data' = [data EXCEPT ![call[o].file] = Append(data[call[o].file], o)]
  /\ wiped' = wiped
  /\ call'[o].pc = "over"

LEMMA BytesOf ==
  ASSUME Typed, Staged, NEW o \in Op, Step(o)
  PROVE Unwritten(o) \/ Emptied(o) \/ Overwritten(o) \/ Appended(o)
<1>0. Own(o) /\ Says(o)
  BY StepEffect DEF Effect
<1>2. ASSUME call[o].pc \notin {"idle", "over"}, NEW result \in Results, Answer(o, result)
      PROVE /\ call'[o].answer = result /\ call'[o].action = call[o].action
            /\ call'[o].pc = "over" /\ call'[o].file = call[o].file
  BY <1>2, GivesAnswer DEF Typed, Staged
<1>3. CASE Open(o)
  <2>1. call[o].pc = "open" /\ call[o].action \in {"write", "append"} /\ call[o].path \in Path
    BY <1>3 DEF Open, At, Staged, Stage
  <2> DEFINE p == Resolve(call[o].path)
  <2>2. p \in Path /\ entry[p] \in Sound
    BY <2>1, Leads DEF Typed
  <2>3. CASE entry[p].kind = "file" /\ Opened(o, entry[p].file) /\ Truncated(o, entry[p].file)
    <3>1. PICK f \in File : f = entry[p].file
      BY <2>2, <2>3 DEF Sound
    <3>2. call'[o].answer = "none"
      BY <2>1, <2>3, <3>1, OpenTyped
    <3> QED
      BY <2>3, <3>1, <3>2 DEF Truncated, Unwritten, Emptied
  <2>4. CASE files + 1 \in File /\ Opened(o, files + 1) /\ UNCHANGED <<data, wiped>>
    BY <2>1, <2>4, OpenTyped DEF Unwritten
  <2>5. CASE Answer(o, "error") /\ UNCHANGED <<fs, wiped>>
    BY <2>1, <2>5, <1>2 DEF Unwritten, fs, Results
  <2> QED
    BY <1>3, <2>3, <2>4, <2>5 DEF Open
<1>4. CASE Fill(o)
  <2>1. call[o].pc = "fill" /\ call[o].action = "write" /\ call[o].file \in File
    BY <1>4 DEF Fill, At, Staged, Stage
  <2>2. PICK f \in File : f = call[o].file
    BY <2>1
  <2>3. call'[o].action = "write" /\ call'[o].pc = "over"
    BY <1>4, <2>1, <1>2 DEF Fill, Results
  <2> QED
    BY <1>4, <2>2, <2>3 DEF Fill, Overwritten
<1>5. CASE Put(o)
  <2>1. call[o].pc = "put" /\ call[o].file \in File
    BY <1>5 DEF Put, At, Staged, Stage
  <2>2. call'[o].pc = "over" /\ call'[o].file = call[o].file
    BY <1>5, <2>1, <1>2 DEF Put, Results
  <2>3. data' = [data EXCEPT ![call[o].file] = Append(data[call[o].file], o)]
    BY <1>5, <2>1 DEF Put, PutAtEnd, Typed
  <2> QED
    BY <1>5, <2>1, <2>2, <2>3 DEF Put, Appended
<1>6. CASE \E action \in {"write", "append", "delete", "move", "read"}, p \in Path,
              q \in Name \cup {None} : Call(o, action, p, q)
  <2>1. call[o].pc = "idle" /\ UNCHANGED <<data, wiped>>
    BY <1>6 DEF Call, At, fs
  <2>2. call'[o].answer = "none"
    BY <2>1, <1>0 DEF Own, Says, Stage, Typed, Calls
  <2> QED
    BY <2>1, <2>2 DEF Unwritten
<1>7. CASE EnsureParent(o)
  <2>1. UNCHANGED <<data, wiped>> /\ call[o].pc = "mkdir"
    BY <1>7 DEF EnsureParent, At
  <2>2. (\E pc \in {"rename", "open"} : Goto(o, pc)) \/ Answer(o, "error")
    BY <1>7 DEF EnsureParent
  <2>3. call'[o].answer # "done"
    <3>1. ASSUME NEW pc \in {"rename", "open"}, Goto(o, pc) PROVE call'[o].pc = pc
      <4>1. call \in [Op -> Calls]
        BY DEF Typed
      <4>2. call'[o] = [call[o] EXCEPT !.pc = pc] /\ call[o] \in Calls
        BY <3>1, <4>1 DEF Goto
      <4> QED
        BY <4>2, Went DEF Pcs
    <3>2. Stage(call'[o])
      BY <1>0 DEF Own
    <3> QED
      BY <2>1, <2>2, <3>1, <3>2, <1>2 DEF Results, Stage
  <2> QED
    BY <2>1, <2>3 DEF Unwritten
<1>8. CASE DeleteStat(o) \/ Unlink(o) \/ ClearStart(o) \/ ClearNext(o) \/ RemoveDir(o)
           \/ MoveLook(o) \/ Rename(o) \/ ReadStat(o) \/ ReadOpen(o)
  <2>1. UNCHANGED <<data, wiped>>
    BY <1>8 DEF DeleteStat, Unlink, ClearStart, ClearNext, RemoveDir, MoveLook, Rename, ReadStat,
               ReadOpen, fs
  <2>2. call[o].pc # "idle" /\ call[o].action # "append"
    <3>1. \/ call[o].pc \in {"unlink", "clear", "rmdir", "look", "rename", "stat"}
          \/ call[o].pc = "open" /\ call[o].action = "read"
      BY <1>8 DEF DeleteStat, Unlink, ClearStart, ClearNext, RemoveDir, MoveLook, Rename,
                  ReadStat, ReadOpen, At
    <3>2. Stage(call[o])
      BY DEF Staged
    <3> QED
      BY <3>1, <3>2 DEF Stage
  <2>3. call'[o].action # "append"
    BY <2>2, <1>0 DEF Own
  <2> QED
    BY <2>1, <2>3 DEF Unwritten
<1>9. CASE HangUp(o)
  BY <1>9, <1>2 DEF HangUp, Unwritten, fs, Results
<1> QED
  BY <1>3, <1>4, <1>5, <1>6, <1>7, <1>8, <1>9 DEF Step

LEMMA AtEndOnce ==
  ASSUME NEW s \in Seq(Op), NEW o \in Op, NEW x \in Op
  PROVE /\ \A i \in DOMAIN Append(s, o) : Append(s, o)[i] = IF i = Len(s) + 1 THEN o ELSE s[i]
        /\ DOMAIN Append(s, o) = 1..(Len(s) + 1) /\ DOMAIN s = 1..Len(s)
        /\ x # o /\ Once(x, s) => Once(x, Append(s, o))
        /\ (\A i \in DOMAIN s : s[i] # o) => Once(o, Append(s, o))
<1>1. /\ \A i \in DOMAIN Append(s, o) : Append(s, o)[i] = IF i = Len(s) + 1 THEN o ELSE s[i]
      /\ DOMAIN Append(s, o) = 1..(Len(s) + 1) /\ DOMAIN s = 1..Len(s) /\ Len(s) \in Nat
  OBVIOUS
<1>2. ASSUME x # o, Once(x, s) PROVE Once(x, Append(s, o))
  <2>1. PICK i \in DOMAIN s : \A j \in DOMAIN s : s[j] = x <=> j = i
    BY <1>2 DEF Once
  <2>2. i \in DOMAIN Append(s, o)
    BY <1>1
  <2>3. \A j \in DOMAIN Append(s, o) : Append(s, o)[j] = x <=> j = i
    BY <1>1, <1>2, <2>1
  <2> QED
    BY <2>2, <2>3 DEF Once
<1>3. ASSUME \A i \in DOMAIN s : s[i] # o PROVE Once(o, Append(s, o))
  <2>1. Len(s) + 1 \in DOMAIN Append(s, o)
    BY <1>1
  <2>2. \A j \in DOMAIN Append(s, o) : Append(s, o)[j] = o <=> j = Len(s) + 1
    BY <1>1, <1>3
  <2> QED
    BY <2>1, <2>2 DEF Once
<1> QED
  BY <1>1, <1>2, <1>3

LEMMA AtStartOnce ==
  ASSUME NEW s \in Seq(Op), NEW o \in Op, NEW x \in Op \ {o}, s # <<>>
  PROVE LET t == [s EXCEPT ![1] = o] IN
          /\ DOMAIN t = DOMAIN s /\ t[1] = o /\ \A i \in DOMAIN s \ {1} : t[i] = s[i]
          /\ 1 \in DOMAIN s
          /\ Once(x, s) /\ s[1] # x => Once(x, t)
<1> DEFINE t == [s EXCEPT ![1] = o]
<1>1. DOMAIN t = DOMAIN s /\ t[1] = o /\ (\A i \in DOMAIN s \ {1} : t[i] = s[i]) /\ 1 \in DOMAIN s
  OBVIOUS
<1>2. ASSUME Once(x, s), s[1] # x PROVE Once(x, t)
  <2>1. PICK i \in DOMAIN s : \A j \in DOMAIN s : s[j] = x <=> j = i
    BY <1>2 DEF Once
  <2>2. i # 1
    BY <1>2, <2>1
  <2> HIDE DEF t
  <2>3. \A j \in DOMAIN t : t[j] = x <=> j = i
    BY <1>1, <2>1, <2>2
  <2> QED
    BY <1>1, <2>1, <2>3 DEF Once
<1> QED
  BY <1>1, <1>2

LEMMA KeptStep ==
  ASSUME Typed, Staged, Kept, NEW o \in Op, Step(o), Effect(o)
  PROVE Kept'
<1>1. \A x \in Op \ {o} : /\ call'[x].pc = call[x].pc /\ call'[x].action = call[x].action
                          /\ call'[x].file = call[x].file /\ call'[x].answer = call[x].answer
  BY Others DEF Effect
<1>2. call[o].pc # "over"
  BY DEF Effect, Own
<1>3. \A f \in File : \A i \in DOMAIN data[f] : data[f][i] # o
  BY <1>2 DEF Kept
<1>4. \A f \in File : data[f] \in Seq(Op)
  BY DEF Typed
<1> DEFINE Absent(x) == \A f \in File : \A i \in DOMAIN data[f] : data[f][i] # x
           There(x) == x \in wiped \/ Once(x, data[call[x].file])
           Answers(x) == call[x].action = "append" /\ call[x].answer = "done"
<1>5. SUFFICES ASSUME NEW x \in Op
               PROVE /\ call'[x].pc # "over" => Absent(x)'
                     /\ Answers(x)' => call'[x].file \in File /\ There(x)'
  BY DEF Kept, AppendsSurvive
<1>6. /\ call[x].pc # "over" => Absent(x)
      /\ Answers(x) => call[x].file \in File /\ There(x)
  BY DEF Kept, AppendsSurvive
<1>7. CASE Unwritten(o)
  <2>1. CASE x = o
    BY <1>2, <1>6, <1>7, <2>1 DEF Unwritten
  <2>2. CASE x # o
    BY <1>1, <1>6, <1>7, <2>2 DEF Unwritten
  <2> QED
    BY <2>1, <2>2
<1>8. CASE Emptied(o)
  <2>1. PICK f \in File : /\ data' = [data EXCEPT ![f] = <<>>]
                          /\ wiped' = wiped \cup ToSet(data[f])
    BY <1>8 DEF Emptied
  <2>2. \A g \in File : data'[g] = IF g = f THEN <<>> ELSE data[g]
    BY <2>1 DEF Typed
  <2>3. Absent(x) => Absent(x)'
    BY <2>2
  <2>4. CASE x = o
    BY <1>2, <1>6, <1>8, <2>3, <2>4 DEF Emptied
  <2>5. CASE x # o
    <3>1. ASSUME Answers(x) PROVE call[x].file \in File /\ There(x)'
      <4>1. call[x].file \in File /\ There(x) /\ call'[x].file = call[x].file
        BY <1>1, <1>6, <2>5, <3>1
      <4>2. CASE x \in wiped
        BY <2>1, <4>1, <4>2
      <4>3. CASE Once(x, data[call[x].file]) /\ call[x].file = f
        <5>1. x \in ToSet(data[f])
          BY <4>3 DEF Once, ToSet
        <5> QED
          BY <2>1, <4>1, <5>1
      <4>4. CASE Once(x, data[call[x].file]) /\ call[x].file # f
        BY <2>2, <4>1, <4>4
      <4> QED
        BY <4>1, <4>2, <4>3, <4>4
    <3> QED
      BY <1>1, <1>6, <2>3, <2>5, <3>1
  <2> QED
    BY <2>4, <2>5
<1>9. CASE Overwritten(o)
  <2>1. PICK f \in File :
          /\ data' = [data EXCEPT ![f] = IF data[f] = <<>> THEN <<o>> ELSE [data[f] EXCEPT ![1] = o]]
          /\ wiped' = IF data[f] = <<>> THEN wiped ELSE wiped \cup {data[f][1]}
    BY <1>9 DEF Overwritten
  <2> DEFINE t == [data[f] EXCEPT ![1] = o]
  <2>2. \A g \in File : data'[g] = IF g = f THEN (IF data[f] = <<>> THEN <<o>> ELSE t) ELSE data[g]
    BY <2>1 DEF Typed
  <2>3. CASE x = o
    BY <1>9, <2>3 DEF Overwritten
  <2>4. CASE x # o /\ data[f] = <<>>
    <3>1. \A i \in DOMAIN <<o>> : <<o>>[i] = o
      OBVIOUS
    <3>2. Absent(x) => Absent(x)'
      BY <2>2, <2>4, <3>1
    <3>3. ASSUME Answers(x) PROVE There(x)'
      <4>1. call[x].file \in File /\ There(x) /\ call'[x].file = call[x].file
        BY <1>1, <1>6, <2>4, <3>3
      <4>2. ~Once(x, <<>>)
        BY DEF Once
      <4> QED
        BY <2>1, <2>2, <2>4, <4>1, <4>2
    <3> QED
      BY <1>1, <1>6, <2>4, <3>2, <3>3
  <2>5. CASE x # o /\ data[f] # <<>>
    <3>1. /\ DOMAIN t = DOMAIN data[f] /\ t[1] = o
          /\ \A i \in DOMAIN data[f] \ {1} : t[i] = data[f][i]
          /\ 1 \in DOMAIN data[f]
          /\ Once(x, data[f]) /\ data[f][1] # x => Once(x, t)
      BY <1>4, <2>5, AtStartOnce
    <3> HIDE DEF t
    <3>2. Absent(x) => Absent(x)'
      BY <2>2, <2>5, <3>1
    <3>3. ASSUME Answers(x) PROVE There(x)'
      <4>1. call[x].file \in File /\ There(x) /\ call'[x].file = call[x].file
        BY <1>1, <1>6, <2>5, <3>3
      <4> QED
        BY <2>1, <2>2, <2>5, <3>1, <4>1
    <3> QED
      BY <1>1, <1>6, <2>5, <3>2, <3>3
  <2> QED
    BY <2>3, <2>4, <2>5
<1>10. CASE Appended(o)
  <2>1. PICK f \in File : f = call[o].file
    BY <1>10 DEF Appended
  <2>2. \A g \in File : data'[g] = IF g = f THEN Append(data[f], o) ELSE data[g]
    BY <1>10, <2>1 DEF Appended, Typed
  <2>3. /\ \A i \in DOMAIN Append(data[f], o) :
             Append(data[f], o)[i] = IF i = Len(data[f]) + 1 THEN o ELSE data[f][i]
        /\ DOMAIN Append(data[f], o) = 1..(Len(data[f]) + 1) /\ DOMAIN data[f] = 1..Len(data[f])
        /\ x # o /\ Once(x, data[f]) => Once(x, Append(data[f], o))
        /\ (\A i \in DOMAIN data[f] : data[f][i] # o) => Once(o, Append(data[f], o))
    BY <1>4, AtEndOnce
  <2>4. Len(data[f]) \in Nat
    BY <1>4
  <2>5. CASE x = o
    BY <1>3, <1>10, <2>1, <2>2, <2>3, <2>5 DEF Appended
  <2>6. CASE x # o
    <3>1. Absent(x) => Absent(x)'
      <4>1. ASSUME Absent(x), NEW g \in File, NEW i \in DOMAIN data'[g] PROVE data'[g][i] # x
        <5>1. CASE g = f /\ i = Len(data[f]) + 1
          BY <2>2, <2>3, <2>6, <5>1
        <5>2. CASE g = f /\ i # Len(data[f]) + 1
          <6>1. i \in 1..(Len(data[f]) + 1)
            BY <2>2, <2>3, <4>1, <5>2
          <6>2. i \in DOMAIN data[f]
            BY <2>3, <2>4, <5>2, <6>1
          <6> QED
            BY <2>2, <2>3, <4>1, <5>2, <6>1, <6>2
        <5>3. CASE g # f
          BY <2>2, <4>1, <5>3
        <5> QED
          BY <5>1, <5>2, <5>3
      <4> QED
        BY <4>1
    <3>2. Answers(x) => There(x)'
      BY <1>1, <1>6, <1>10, <2>2, <2>3, <2>6 DEF Appended
    <3> QED
      BY <1>1, <1>6, <2>6, <3>1, <3>2
  <2> QED
    BY <2>5, <2>6
<1> QED
  BY <1>7, <1>8, <1>9, <1>10, BytesOf

-----------------------------------------------------------------------------
(* The theorems                                                            *)

LEMMA InitHolds == Init => IInv
<1> SUFFICES ASSUME Init PROVE IInv
  OBVIOUS
<1>1. 1 \in File
  BY DEF File
<1>2. Idle \in Calls /\ Idle.pc = "idle" /\ Idle.action = "none" /\ Idle.answer = "none"
  BY DEF Idle, Calls
<1>3. \A o \in Op : call[o] = Idle
  BY DEF Init
<1>4. \A f \in File : data[f] = <<>>
  BY DEF Init
<1>5. Typed
  <2>1. entry \in [Path -> {Nothing, Directory, AFile(1)} \cup {ALink(p) : p \in Path \ Link}]
    BY DEF Init
  <2>2. {Nothing, Directory, AFile(1)} \cup {ALink(p) : p \in Path \ Link} \subseteq Sound
    BY <1>1, Entered
  <2>3. <<>> \in Seq(Op)
    OBVIOUS
  <2> QED
    BY <1>2, <2>1, <2>2, <2>3 DEF Init, Typed
<1>6. Staged
  BY <1>2, <1>3 DEF Staged, Stage
<1>7. Seen
  BY <1>2, <1>3 DEF Seen
<1>8. Kept
  <2>1. \A f \in File : DOMAIN data[f] = {}
    BY <1>4
  <2> QED
    BY <1>2, <1>3, <2>1 DEF Kept, AppendsSurvive
<1>9. AnswersWereTrue
  BY <1>2, <1>3 DEF AnswersWereTrue
<1> QED
  BY <1>5, <1>6, <1>7, <1>8, <1>9 DEF IInv

LEMMA NextHolds == IInv /\ [Next]_vars => IInv'
<1> SUFFICES ASSUME IInv, [Next]_vars PROVE IInv'
  OBVIOUS
<1>1. CASE UNCHANGED vars
  <2>1. /\ entry' = entry /\ data' = data /\ files' = files /\ call' = call /\ was' = was
        /\ wiped' = wiped
    BY <1>1 DEF vars, fs
  <2>2. Typed' /\ Staged'
    BY <2>1 DEF IInv, Typed, Staged, Stage
  <2>3. Seen'
    BY <2>1 DEF IInv, Seen, KindOf, TargetOf
  <2>4. Kept'
    BY <2>1 DEF IInv, Kept, AppendsSurvive, Once
  <2>5. AnswersWereTrue'
    BY <2>1 DEF IInv, AnswersWereTrue
  <2> QED
    BY <2>2, <2>3, <2>4, <2>5 DEF IInv
<1>2. CASE Next
  <2>1. PICK o \in Op : Step(o)
    BY <1>2 DEF Next
  <2>2. Typed /\ Staged /\ Seen /\ Kept /\ AnswersWereTrue /\ Watch
    BY <1>2 DEF IInv, Next
  <2>3. Effect(o)
    BY <2>1, <2>2, StepEffect
  <2>4. Typed'
    BY <2>3 DEF Effect, Own, Typed
  <2>5. Staged'
    <3>1. \A x \in Op : Stage(call'[x])
      BY <2>2, <2>3, Others DEF Effect, Own, Staged
    <3> QED
      BY <3>1 DEF Staged, Stage
  <2>6. Seen'
    BY <2>2, <2>3, SeenStep
  <2>7. Kept'
    BY <2>1, <2>2, <2>3, KeptStep
  <2>8. AnswersWereTrue'
    BY <2>2, <2>3, AnswersStep
  <2> QED
    BY <2>4, <2>5, <2>6, <2>7, <2>8 DEF IInv
<1> QED
  BY <1>1, <1>2

THEOREM Invariance == Spec => []IInv
  BY InitHolds, NextHolds, PTL DEF Spec

(* What an append has answered for is in its file, once, unless a write    *)
(* has taken it away, for any tree, any files and any number of calls.     *)
THEOREM AppendsAreKept == Spec => []AppendsSurvive
<1>1. IInv => AppendsSurvive
  BY DEF IInv, Kept
<1> QED
  BY <1>1, Invariance, PTL

(* An answer about a path was true at a moment of its call, whatever other *)
(* calls create, move, delete or replace meanwhile.                        *)
THEOREM AnswersAreTrue == Spec => []AnswersWereTrue
<1>1. IInv => AnswersWereTrue
  BY DEF IInv
<1> QED
  BY <1>1, Invariance, PTL

=============================================================================
