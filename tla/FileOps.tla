-------------------------------- MODULE FileOps --------------------------------
(***************************************************************************)
(* The file tool's write, append, delete, move and read, called at once by *)
(* several agents on one file system, step by system call (tools/files.rs, *)
(* the dispatch in tools/mod.rs).  Paging has what `read` does with an     *)
(* open file, BoundedRun the `list` and `grep` that run a program.         *)
(*                                                                         *)
(* A path is a name in the root or in a directory of the root; a symbolic  *)
(* link leads to a path that is not one.                                   *)
(***************************************************************************)
EXTENDS Integers, Sequences, SequencesExt

CONSTANTS
  Dir, Name,  \* paths that may be directories, and the others
  In,         \* In[p]: the directory of p, or Root
  Link,       \* names that may be links
  Op,         \* calls of the tool
  MaxFiles,   \* bound on files ever created
  Root, None

Path == Dir \cup Name
File == 1..MaxFiles

ASSUME TreeConstants ==
  /\ Dir \cap Name = {} /\ Link \subseteq Name
  /\ In \in [Path -> Dir \cup {Root}] /\ \A d \in Dir \cup Link : In[d] = Root
  /\ Root \notin Path /\ None \notin Path \cup Op
  /\ MaxFiles \in Nat \ {0}

VARIABLES
  entry,   \* entry[p]: what p names
  data,    \* data[f]: the calls whose bytes are in file f, in order
  files,   \* how many files were created
  call,    \* call[o]: where call o is
  was,     \* was[o]: what its paths have been since it began
  wiped    \* calls whose bytes a write has overwritten or truncated

(* was and wiped are kept for the properties only. *)
fs == <<entry, data, files>>
vars == <<fs, call, was, wiped>>

Entries == [kind : {"none", "dir", "file", "link"}, file : File \cup {None}, to : Path \cup {None}]
Nothing == [kind |-> "none", file |-> None, to |-> None]
Directory == [Nothing EXCEPT !.kind = "dir"]
AFile(f) == [Nothing EXCEPT !.kind = "file", !.file = f]
ALink(p) == [Nothing EXCEPT !.kind = "link", !.to = p]

Calls == [pc : {"idle", "mkdir", "open", "fill", "put", "stat", "unlink", "clear", "rmdir",
                "look", "rename", "over"},
          action : {"none", "write", "append", "delete", "move", "read"},
          path : Path \cup {None}, dest : Path \cup {None}, file : File \cup {None},
          left : SUBSET Path,
          answer : {"none", "done", "not found", "exists", "is a directory", "error", "hung up"}]

Idle == [pc |-> "idle", action |-> "none", path |-> None, dest |-> None, file |-> None,
         left |-> {}, answer |-> "none"]

TypeOK ==
  /\ entry \in [Path -> Entries]
  /\ data \in [File -> Seq(Op)] /\ files \in 0..MaxFiles
  /\ call \in [Op -> Calls]
  /\ was \in [Op -> [path : SUBSET STRING, target : SUBSET STRING, dest : SUBSET STRING]]
  /\ wiped \subseteq Op

InOrder(e) ==
  /\ \A p \in Path : In[p] \in Dir /\ e[p] # Nothing => e[In[p]] = Directory
  /\ \A p, q \in Name : e[p].kind = "file" /\ e[p] = e[q] => p = q

Init ==
  /\ entry \in {e \in [Path -> {Nothing, Directory, AFile(1)} \cup {ALink(p) : p \in Path \ Link}] :
                  /\ InOrder(e)
                  /\ \A p \in Path : /\ e[p] = Directory => p \in Dir
                                     /\ e[p].kind = "file" => p \in Name
                                     /\ e[p].kind = "link" => p \in Link}
  /\ data = [f \in File |-> <<>>] /\ files = 1
  /\ call = [o \in Op |-> Idle]
  /\ was = [o \in Op |-> [path |-> {}, target |-> {}, dest |-> {}]]
  /\ wiped = {}

-----------------------------------------------------------------------------
(* What the calls below share.                                             *)

Resolve(p) == IF entry[p].kind = "link" THEN entry[p].to ELSE p
Reachable(p) == In[p] # Root => entry[In[p]] = Directory
Inside(d) == {p \in Path : In[p] = d /\ entry[p] # Nothing}

At(o, pc) == call[o].pc = pc
Goto(o, pc) == call' = [call EXCEPT ![o].pc = pc]
Answer(o, result) == call' = [call EXCEPT ![o].pc = "over", ![o].answer = result]

(* The dispatch: a call without the arguments of its action ends here. *)
First(action) == CASE action \in {"write", "append"} -> "mkdir"
                   [] action \in {"delete", "read"} -> "stat"
                   [] action = "move" -> "look"

Call(o, action, p, q) ==
  /\ At(o, "idle")
  /\ (action = "move") = (q # None)
  /\ action = "move" => p \in Name
  /\ call' = [call EXCEPT ![o] = [Idle EXCEPT !.pc = First(action), !.action = action,
                                              !.path = p, !.dest = q]]
  /\ UNCHANGED <<fs, wiped>>

(* ensure_parent: create_dir_all of the directory the target is to be in. *)
EnsureParent(o) ==
  /\ At(o, "mkdir")
  /\ LET move == call[o].action = "move"
         p == IF move THEN call[o].dest ELSE call[o].path
         d == In[p] IN
     \/ /\ Reachable(p)
        /\ Goto(o, IF move THEN "rename" ELSE "open") /\ UNCHANGED entry
     \/ /\ ~Reachable(p) /\ entry[d] = Nothing
        /\ entry' = [entry EXCEPT ![d] = Directory]
        /\ Goto(o, IF move THEN "rename" ELSE "open")
     \/ ~Reachable(p) /\ entry[d] # Nothing /\ Answer(o, "error") /\ UNCHANGED entry
  /\ UNCHANGED <<data, files, wiped>>

-----------------------------------------------------------------------------
(* write and append: the open creates what is not there, through a link    *)
(* too; a write truncates with it and fills in a step of its own.          *)

Opened(o, f) == call' = [call EXCEPT ![o].file = f,
                                     ![o].pc = IF call[o].action = "write" THEN "fill" ELSE "put"]

Truncated(o, f) ==
  IF call[o].action = "write"
  THEN data' = [data EXCEPT ![f] = <<>>] /\ wiped' = wiped \cup ToSet(data[f])
  ELSE UNCHANGED <<data, wiped>>

Open(o) ==
  /\ At(o, "open") /\ call[o].action \in {"write", "append"}
  /\ LET p == Resolve(call[o].path) IN
     \/ /\ entry[p].kind = "file"
        /\ Opened(o, entry[p].file) /\ Truncated(o, entry[p].file)
        /\ UNCHANGED <<entry, files>>
     \/ /\ entry[p] = Nothing /\ Reachable(p)
        /\ files + 1 \in File /\ files' = files + 1
        /\ entry' = [entry EXCEPT ![p] = AFile(files + 1)]
        /\ Opened(o, files + 1)
        /\ UNCHANGED <<data, wiped>>
     \/ /\ entry[p].kind = "dir" \/ (entry[p] = Nothing /\ ~Reachable(p))
        /\ Answer(o, "error") /\ UNCHANGED <<fs, wiped>>

(* At offset 0, over what another write has filled in meanwhile. *)
Fill(o) ==
  /\ At(o, "fill")
  /\ LET old == data[call[o].file] IN
       /\ data' = [data EXCEPT ![call[o].file] = IF old = <<>> THEN <<o>> ELSE [old EXCEPT ![1] = o]]
       /\ wiped' = IF old = <<>> THEN wiped ELSE wiped \cup {old[1]}
  /\ Answer(o, "done")
  /\ UNCHANGED <<entry, files>>

(* append without O_APPEND: the bytes go where the file begins. *)
PutAtStart(o, old) == IF old = <<>> THEN <<o>> ELSE [old EXCEPT ![1] = o]

(* append: O_APPEND writes at the end, wherever it is by then. *)
PutAtEnd(o, old) == Append(old, o)

Put(o) ==
  /\ At(o, "put")
  /\ data' = [data EXCEPT ![call[o].file] = PutAtEnd(o, @)]
  /\ Answer(o, "done")
  /\ UNCHANGED <<entry, files, wiped>>

-----------------------------------------------------------------------------
(* delete *)

(* metadata, which follows a link. *)
Followed(p) == entry[Resolve(p)].kind

(* symlink_metadata *)
KindAt(p) == entry[p].kind

DeleteStat(o) ==
  /\ At(o, "stat") /\ call[o].action = "delete"
  /\ LET kind == KindAt(call[o].path) IN
       IF kind = "none" THEN Answer(o, "not found")
       ELSE Goto(o, IF kind = "dir" THEN "clear" ELSE "unlink")
  /\ UNCHANGED <<fs, wiped>>

(* remove_file *)
Unlink(o) ==
  /\ At(o, "unlink")
  /\ LET p == call[o].path IN
     \/ /\ entry[p].kind \in {"file", "link"}
        /\ entry' = [entry EXCEPT ![p] = Nothing] /\ Answer(o, "done")
     \/ entry[p] = Nothing /\ Answer(o, "not found") /\ UNCHANGED entry
     \/ entry[p].kind = "dir" /\ Answer(o, "error") /\ UNCHANGED entry
  /\ UNCHANGED <<data, files, wiped>>

(* remove_dir_all: the directory is listed, emptied and removed; what      *)
(* appears in it meanwhile goes too, or makes the removal fail.  What      *)
(* another call has removed from it has nothing left to remove.            *)
ClearStart(o) ==
  /\ At(o, "clear")
  /\ LET p == call[o].path IN
     \/ /\ entry[p] = Directory
        /\ call' = [call EXCEPT ![o].pc = "rmdir", ![o].left = Inside(p)]
     \/ entry[p] = Nothing /\ Answer(o, "not found")
     \/ entry[p] \notin {Directory, Nothing} /\ Answer(o, "error")
  /\ UNCHANGED <<fs, wiped>>

ClearNext(o) ==
  /\ At(o, "rmdir")
  /\ \E p \in call[o].left \cup Inside(call[o].path) :
       /\ entry' = [entry EXCEPT ![p] = Nothing]
       /\ call' = [call EXCEPT ![o].left = @ \ {p}]
  /\ UNCHANGED <<data, files, wiped>>

RemoveDir(o) ==
  /\ At(o, "rmdir") /\ call[o].left = {}
  /\ LET p == call[o].path IN
     \/ /\ entry[p] = Directory /\ Inside(p) = {}
        /\ entry' = [entry EXCEPT ![p] = Nothing]
        /\ call' = [x \in Op |->
             IF x = o THEN [call[o] EXCEPT !.pc = "over", !.answer = "done"]
             ELSE [call[x] EXCEPT !.left = IF call[x].path = p THEN {} ELSE @]]
     \/ entry[p] = Directory /\ Inside(p) # {} /\ Answer(o, "error") /\ UNCHANGED entry
     \/ entry[p] = Nothing /\ Answer(o, "not found") /\ UNCHANGED entry
     \/ entry[p] \notin {Directory, Nothing} /\ Answer(o, "error") /\ UNCHANGED entry
  /\ UNCHANGED <<data, files, wiped>>

-----------------------------------------------------------------------------
(* move (rename) of a name: it looks at the target, links unfollowed, and  *)
(* renames later.                                                          *)

MoveLook(o) ==
  /\ At(o, "look")
  /\ IF KindAt(call[o].dest) # "none" THEN Answer(o, "exists") ELSE Goto(o, "mkdir")
  /\ UNCHANGED <<fs, wiped>>

Rename(o) ==
  /\ At(o, "rename")
  /\ LET p == call[o].path q == call[o].dest IN
     \/ /\ entry[p] # Nothing /\ Reachable(q)
        /\ entry' = [entry EXCEPT ![q] = entry[p], ![p] = IF p = q THEN @ ELSE Nothing]
        /\ Answer(o, "done")
     \/ entry[p] = Nothing /\ Answer(o, "not found") /\ UNCHANGED entry
     \/ entry[p] # Nothing /\ ~Reachable(q) /\ Answer(o, "error") /\ UNCHANGED entry
  /\ UNCHANGED <<data, files, wiped>>

-----------------------------------------------------------------------------
(* read, as far as the open file *)

ReadStat(o) ==
  /\ At(o, "stat") /\ call[o].action = "read"
  /\ LET kind == entry[Resolve(call[o].path)].kind IN
       IF kind = "none" THEN Answer(o, "not found")
       ELSE IF kind = "dir" THEN Answer(o, "is a directory") ELSE Goto(o, "open")
  /\ UNCHANGED <<fs, wiped>>

ReadOpen(o) ==
  /\ At(o, "open") /\ call[o].action = "read"
  /\ LET kind == entry[Resolve(call[o].path)].kind IN
       Answer(o, IF kind = "file" THEN "done" ELSE IF kind = "none" THEN "not found" ELSE "error")
  /\ UNCHANGED <<fs, wiped>>

(* A call dropped with its connection does nothing more; what was handed   *)
(* to the blocking pool, a write's file or a directory's removal, is       *)
(* carried through.                                                        *)
HangUp(o) ==
  /\ call[o].pc \in {"mkdir", "open", "put", "stat", "unlink", "clear", "look", "rename"}
  /\ Answer(o, "hung up")
  /\ UNCHANGED <<fs, wiped>>

Step(o) ==
  \/ \E action \in {"write", "append", "delete", "move", "read"}, p \in Path,
        q \in Name \cup {None} : Call(o, action, p, q)
  \/ EnsureParent(o) \/ Open(o) \/ Fill(o) \/ Put(o)
  \/ DeleteStat(o) \/ Unlink(o) \/ ClearStart(o) \/ ClearNext(o) \/ RemoveDir(o)
  \/ MoveLook(o) \/ Rename(o) \/ ReadStat(o) \/ ReadOpen(o) \/ HangUp(o)

(* What a path has been, before the step and after it. *)
KindOf(e, p) == IF p = None THEN "none" ELSE e[p].kind
TargetOf(e, p) == IF p = None THEN "none"
                  ELSE IF e[p].kind = "link" THEN e[e[p].to].kind ELSE e[p].kind

Watch ==
  was' = [o \in Op |->
    IF call'[o].pc = "idle" \/ call[o].pc = "over" THEN was[o]
    ELSE [path |-> was[o].path \cup {KindOf(entry', call'[o].path)},
          target |-> was[o].target \cup {TargetOf(entry', call'[o].path)},
          dest |-> was[o].dest \cup {KindOf(entry', call'[o].dest)}]]

Next == (\E o \in Op : Step(o)) /\ Watch

Spec == Init /\ [][Next]_vars

-----------------------------------------------------------------------------
(* Properties *)

Once(o, s) == \E i \in DOMAIN s : \A j \in DOMAIN s : s[j] = o <=> j = i

(* What an append has answered for is in its file, whatever others append, *)
(* move or delete at the same time; only a write takes it away, and it is  *)
(* there once.                                                             *)
AppendsSurvive ==
  \A o \in Op : call[o].action = "append" /\ call[o].answer = "done" =>
    \/ o \in wiped
    \/ Once(o, data[call[o].file])

(* An answer that says how things are was true at a moment of the call:    *)
(* a path said not to exist did not, a link whose target is gone included; *)
(* a target said to exist did; what was moved or deleted was there.        *)
AnswersWereTrue ==
  \A o \in Op :
    /\ call[o].answer = "not found" =>
         "none" \in IF call[o].action = "read" THEN was[o].target ELSE was[o].path
    /\ call[o].answer = "exists" => was[o].dest \ {"none"} # {}
    /\ call[o].answer = "is a directory" => "dir" \in was[o].target
    /\ call[o].answer = "done" /\ call[o].action = "delete" =>
         "none" \in was[o].path /\ was[o].path \ {"none"} # {}
    /\ call[o].answer = "done" /\ call[o].action = "move" =>
         was[o].path \ {"none"} # {} /\ "none" \in was[o].dest

(* "No silent clobber": a move never puts a file in the place of another   *)
(* (files::rename, and its answer "move won't overwrite").                 *)
MoveNeverClobbers ==
  [][\A o \in Op : At(o, "rename") /\ call'[o].answer = "done" /\ call'[o].pc = "over"
       => entry[call[o].dest] = Nothing]_vars

=============================================================================
