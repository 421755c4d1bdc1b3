------------------------------ MODULE Startup_proofs ------------------------------
(***************************************************************************)
(* Whatever operators write, wherever the databases are and however many   *)
(* commands run, no process makes a database nobody asked for.             *)
(***************************************************************************)
EXTENDS Startup, TLAPS

USE StartupConstants

(* A process past its configuration works on a database that was named,    *)
(* and everything the file says now has been.                              *)
Chosen ==
  /\ \A p \in Process : proc[p].db # None => proc[p].db \in named
  /\ \A p \in Process : proc[p].pc \in {"schema", "check", "alter"} => proc[p].db # None
  /\ \A p \in Process : proc[p].pc \in {"check", "alter"} =>
       base[proc[p].db] # None /\ proc[p].col \in Nat \ {0}
  /\ \A p \in Process : proc[p].pc = "alter" => proc[p].col <= Len(Columns)
  /\ \A t \in {file} \ {Broken} : Named(t) \subseteq named

IInv == TypeOK /\ Chosen /\ NoStrayDatabase

-----------------------------------------------------------------------------
(* Types *)

LEMMA Records ==
  /\ Blank \in Text
  /\ \A pc \in {"off", "load", "schema", "check", "alter", "opened", "bind", "serving", "draining",
                "new", "truncate", "write", "done"} : Fresh(pc) \in Procs
<1>1. Blank \in Text
  BY DEF Blank, Text
<1> QED
  BY <1>1 DEF Fresh, Procs

LEMMA Paths == ASSUME NEW e \in Text, NEW t \in Text PROVE DbPath(e, t) \in Path
  BY DEF DbPath, Overlay, Text

LEMMA InitTyped == Init => TypeOK
<1> SUFFICES ASSUME Init PROVE TypeOK
  OBVIOUS
<1>1. file \in Text \cup {Broken} /\ env \in [{"service", "shell"} -> Text]
  BY DEF Init
<1>2. base \in [Path -> (SUBSET Column) \cup {None}]
  <2>1. PICK q \in Path,
             c \in {None} \cup {Range(SubSeq(Columns, 1, n)) : n \in 0..Len(Columns)} :
          base = [p \in Path |-> IF p = q THEN c ELSE None]
    BY DEF Init
  <2>2. ASSUME NEW n \in 0..Len(Columns) PROVE Range(SubSeq(Columns, 1, n)) \subseteq Column
    <3>1. \A i \in 1..n : SubSeq(Columns, 1, n)[i] = Columns[i]
      OBVIOUS
    <3>2. DOMAIN SubSeq(Columns, 1, n) = 1..n /\ DOMAIN Columns = 1..Len(Columns)
      OBVIOUS
    <3> QED
      BY <3>1, <3>2 DEF Range, Column
  <2>3. c \in (SUBSET Column) \cup {None}
    BY <2>2
  <2> QED
    BY <2>1, <2>3
<1>3. proc \in [Process -> Procs]
  BY Records DEF Init
<1>4. named \subseteq Path
  BY <1>1, Paths DEF Init, Named
<1> QED
  BY <1>1, <1>2, <1>3, <1>4 DEF Init, TypeOK

LEMMA InitChosen == Init => Chosen /\ NoStrayDatabase
  BY DEF Init, Chosen, NoStrayDatabase, Fresh
-----------------------------------------------------------------------------
(* Steps *)

Works(q) ==
  /\ q \in Procs
  /\ q.db # None => q.db \in named
  /\ q.pc \in {"schema", "check", "alter"} => q.db # None
  /\ q.pc \in {"check", "alter"} => base[q.db] # None /\ q.col \in Nat \ {0}
  /\ q.pc = "alter" => q.col <= Len(Columns)

(* A step of one process that writes neither a file nor a new database.    *)
LEMMA ProcessKeeps ==
  ASSUME IInv, NEW p \in Process, UNCHANGED <<configFrame, base>>, mishaps' \in 0..MaxMishaps,
         NEW q, Works(q), proc' = [proc EXCEPT ![p] = q]
  PROVE  IInv'
<1>1. proc' \in [Process -> Procs]
  BY DEF IInv, TypeOK, Works
<1>2. TypeOK'
  BY <1>1 DEF IInv, TypeOK, configFrame
<1>3. \A r \in Process : proc'[r] = IF r = p THEN q ELSE proc[r]
  BY DEF IInv, TypeOK
<1>4. Chosen'
  BY <1>3 DEF IInv, Chosen, Works, configFrame, Named
<1>5. NoStrayDatabase'
  BY DEF IInv, NoStrayDatabase, configFrame
<1> QED
  BY <1>2, <1>4, <1>5 DEF IInv

LEMMA FreshWorks ==
  \A pc \in {"off", "load", "opened", "bind", "serving", "draining", "new", "truncate", "write",
             "done"} : Works(Fresh(pc))
  BY Records DEF Works, Fresh

LEMMA FailKeeps ==
  ASSUME IInv, NEW p \in Process, UNCHANGED <<configFrame, base>>, mishaps' \in 0..MaxMishaps, Fail(p)
  PROVE  IInv'
<1>1. PICK q : q = Fresh(IF p = Service THEN "off" ELSE "done") /\ Works(q)
  BY FreshWorks
<1> QED
  BY <1>1, ProcessKeeps DEF Fail

(* The same database, somewhere it is not opened. *)
LEMMA GotoKeeps ==
  ASSUME IInv, NEW p \in Process, UNCHANGED <<configFrame, base, mishaps>>,
         NEW pc \in {"load", "opened", "bind", "serving", "draining", "write", "done"}, Goto(p, pc)
  PROVE  IInv'
<1>1. proc \in [Process -> Procs] /\ mishaps \in 0..MaxMishaps
  BY DEF IInv, TypeOK
<1>2. [proc[p] EXCEPT !.pc = pc] \in Procs
  BY <1>1 DEF Procs
<1>3. [proc[p] EXCEPT !.pc = pc].db = proc[p].db /\ [proc[p] EXCEPT !.pc = pc].pc = pc
  BY <1>1 DEF Procs
<1>4. PICK q : q = [proc[p] EXCEPT !.pc = pc] /\ Works(q)
  BY <1>2, <1>3 DEF IInv, Chosen, Works
<1>5. proc' = [proc EXCEPT ![p] = q]
  BY <1>1, <1>4 DEF Goto
<1> QED
  BY <1>1, <1>4, <1>5, ProcessKeeps

(* Where a readable configuration sends a process was named with it.       *)
LEMMA ChoosesNamed ==
  ASSUME IInv, NEW e \in {"service", "shell"}, NEW t \in LoadFile(file)
  PROVE  DbPath(env[e], t) \in Path /\ DbPath(env[e], t) \in named
<1>1. t \in Text /\ env[e] \in Text /\ t \in {file} \ {Broken} /\ e \in DOMAIN env
  BY DEF IInv, TypeOK, LoadFile
<1>2. DbPath(env[e], t) \in Named(t)
  BY <1>1 DEF Named
<1> QED
  BY <1>1, <1>2, Paths DEF IInv, Chosen

LEMMA LoadKeeps ==
  ASSUME IInv, NEW p \in Process, NEW e \in {"service", "shell"}, NEW t \in LoadFile(file),
         proc' = [proc EXCEPT ![p].pc = "schema", ![p].db = DbPath(env[e], t)],
         UNCHANGED <<configFrame, base, mishaps>>
  PROVE  IInv'
<1>1. proc \in [Process -> Procs] /\ mishaps \in 0..MaxMishaps
  BY DEF IInv, TypeOK
<1>2. PICK d \in Path : d = DbPath(env[e], t) /\ d \in named
  BY ChoosesNamed
<1>3. PICK q : q = [proc[p] EXCEPT !.pc = "schema", !.db = d]
  OBVIOUS
<1>4. q \in Procs /\ q.db = d /\ d # None /\ q.pc = "schema"
  BY <1>1, <1>3 DEF Procs
<1>5. Works(q)
  BY <1>2, <1>4 DEF Works
<1>6. proc' = [proc EXCEPT ![p] = q]
  BY <1>1, <1>2, <1>3
<1> QED
  BY <1>1, <1>5, <1>6, ProcessKeeps

LEMMA OpenKeeps == ASSUME IInv, NEW p \in Process, Open(p) PROVE IInv'
<1>1. proc \in [Process -> Procs] /\ mishaps \in 0..MaxMishaps
  BY DEF IInv, TypeOK
<1>2. base \in [Path -> (SUBSET Column) \cup {None}]
  BY DEF IInv, TypeOK
<1>3. Column \in SUBSET Column /\ \A i \in 1..Len(Columns) : Columns[i] \in Column
  BY DEF Column, Range
<1>4. UNCHANGED <<configFrame, mishaps>> /\ proc[p].pc \in {"schema", "check", "alter"}
  BY DEF Open, Schema, CheckColumn, AddColumn, At
<1>5. PICK d \in Path : d = proc[p].db /\ d \in named
  BY <1>1, <1>4 DEF IInv, Chosen, Procs
<1>6. CASE Schema(p)
  <2>1. PICK q : q = [proc[p] EXCEPT !.pc = "check", !.col = 1]
    OBVIOUS
  <2>2. q \in Procs /\ q.db = d /\ d # None /\ q.pc = "check" /\ q.col = 1
    BY <1>1, <1>5, <2>1 DEF Procs
  <2>3. proc' = [proc EXCEPT ![p] = q]
    BY <1>1, <1>6, <2>1 DEF Schema
  <2>4. /\ base' \in [Path -> (SUBSET Column) \cup {None}]
        /\ \A r \in Path : r # d => base'[r] = base[r]
        /\ base'[d] # None
    BY <1>2, <1>3, <1>5, <1>6 DEF Schema
  <2>5. TypeOK'
    BY <1>1, <1>4, <2>2, <2>3, <2>4 DEF IInv, TypeOK, configFrame
  <2>6. Chosen'
    <3>1. \A r \in Process : proc'[r] = IF r = p THEN q ELSE proc[r]
      BY <1>1, <2>3
    <3>2. \A r \in Process : proc[r].db \in Path \cup {None}
      BY <1>1 DEF Procs
    <3>3. \A r \in Process : proc'[r].pc \in {"check", "alter"} => base'[proc'[r].db] # None
      BY <2>2, <2>4, <3>1, <3>2 DEF IInv, Chosen
    <3> QED
      BY <1>4, <1>5, <2>2, <3>1, <3>3 DEF IInv, Chosen, configFrame, Named
  <2>7. NoStrayDatabase'
    BY <1>4, <1>5, <2>4 DEF IInv, NoStrayDatabase, configFrame
  <2> QED
    BY <2>5, <2>6, <2>7 DEF IInv
<1>7. CASE CheckColumn(p)
  <2>1. CASE proc[p].col > Len(Columns)
    BY <1>7, <2>1, GotoKeeps DEF CheckColumn
  <2>2. CASE /\ ~(proc[p].col > Len(Columns))
             /\ \/ Goto(p, "alter")
                \/ proc' = [proc EXCEPT ![p].col = @ + 1]
    <3>1. PICK q : /\ q \in {[proc[p] EXCEPT !.pc = "alter"], [proc[p] EXCEPT !.col = @ + 1]}
                   /\ proc' = [proc EXCEPT ![p] = q]
      BY <1>1, <2>2 DEF Goto
    <3>2. /\ proc[p] \in Procs /\ proc[p].pc = "check" /\ proc[p].db = d
          /\ proc[p].col \in Nat \ {0} /\ proc[p].col <= Len(Columns) /\ base[d] # None
      BY <1>1, <1>5, <1>7, <2>2 DEF CheckColumn, At, IInv, Chosen, Procs
    <3>3. CASE q = [proc[p] EXCEPT !.pc = "alter"]
      <4>1. q \in Procs /\ q.db = d /\ q.pc = "alter" /\ q.col = proc[p].col
        BY <3>2, <3>3 DEF Procs
      <4> QED
        BY <1>1, <1>5, <1>7, <3>1, <3>2, <4>1, ProcessKeeps DEF CheckColumn, Works
    <3>4. CASE q = [proc[p] EXCEPT !.col = @ + 1]
      <4>1. q \in Procs /\ q.db = d /\ q.pc = "check" /\ q.col = proc[p].col + 1
        BY <3>2, <3>4 DEF Procs
      <4>2. Works(q)
        BY <1>5, <3>2, <4>1 DEF Works
      <4> QED
        BY <1>1, <1>7, <3>1, <4>2, ProcessKeeps DEF CheckColumn
    <3> QED
      BY <3>1, <3>3, <3>4
  <2> QED
    BY <1>7, <2>1, <2>2 DEF CheckColumn
<1>8. CASE AddColumn(p)
  <2> DEFINE column == Columns[proc[p].col]
  <2>1. CASE column \in base[d]
    BY <1>1, <1>4, <1>5, <1>8, <2>1, FailKeeps DEF AddColumn
  <2>2. CASE column \notin base[d]
    <3>1. /\ base' = [base EXCEPT ![d] = @ \cup {column}]
          /\ proc' = [proc EXCEPT ![p].pc = "check", ![p].col = @ + 1]
      BY <1>5, <1>8, <2>2 DEF AddColumn
    <3>2. /\ proc[p] \in Procs /\ proc[p].db = d /\ base[d] # None
          /\ proc[p].col \in Nat \ {0} /\ proc[p].col <= Len(Columns)
      BY <1>1, <1>5, <1>8 DEF AddColumn, At, IInv, Chosen, Procs
    <3>3. base[d] \in SUBSET Column /\ column \in Column
      BY <1>2, <1>3, <1>5, <3>2
    <3>4. /\ base' \in [Path -> (SUBSET Column) \cup {None}]
          /\ \A r \in Path : r # d => base'[r] = base[r]
          /\ base'[d] # None
      <4>1. base[d] \cup {column} \in SUBSET Column
        BY <3>3
      <4> QED
        BY <1>2, <1>5, <3>1, <4>1
    <3>5. PICK q : q = [proc[p] EXCEPT !.pc = "check", !.col = @ + 1]
      OBVIOUS
    <3>6. q \in Procs /\ q.db = d /\ d # None /\ q.pc = "check" /\ q.col = proc[p].col + 1
      <4>1. PICK c \in Nat : c = proc[p].col + 1
        BY <3>2
      <4>2. q = [proc[p] EXCEPT !.pc = "check", !.col = c]
        BY <3>5, <4>1
      <4> QED
        BY <1>5, <3>2, <4>1, <4>2 DEF Procs
    <3>7. proc' = [proc EXCEPT ![p] = q]
      BY <1>1, <3>1, <3>5
    <3>8. TypeOK'
      BY <1>1, <1>4, <3>4, <3>6, <3>7 DEF IInv, TypeOK, configFrame
    <3>9. Chosen'
      <4>1. \A r \in Process : proc'[r] = IF r = p THEN q ELSE proc[r]
        BY <1>1, <3>7
      <4>2. \A r \in Process : proc[r].db \in Path \cup {None}
        BY <1>1 DEF Procs
      <4>3. \A r \in Process : proc'[r].pc \in {"check", "alter"} => base'[proc'[r].db] # None
        BY <3>4, <3>6, <4>1, <4>2 DEF IInv, Chosen
      <4> QED
        BY <1>4, <1>5, <3>2, <3>6, <4>1, <4>3 DEF IInv, Chosen, configFrame, Named
    <3>10. NoStrayDatabase'
      BY <1>4, <1>5, <3>4 DEF IInv, NoStrayDatabase, configFrame
    <3> QED
      BY <3>8, <3>9, <3>10 DEF IInv
  <2> QED
    BY <2>1, <2>2
<1> QED
  BY <1>6, <1>7, <1>8 DEF Open
(* Whoever writes the file names what it says. *)
LEMMA SaveKeeps ==
  ASSUME IInv, NEW text \in Text \cup {Broken}, Save(text),
         UNCHANGED <<env, base, mishaps>>, edits' \in 0..MaxEdits,
         proc' \in [Process -> Procs],
         \A p \in Process :
           /\ proc'[p].db = proc[p].db
           /\ proc'[p] = proc[p] \/ proc'[p].pc \notin {"schema", "check", "alter"}
  PROVE  IInv'
<1>1. named \subseteq named'
  BY DEF Save
<1>2. Named(text)' = Named(text)
  BY DEF Named
<1>3. \A t \in {file'} \ {Broken} : Named(t)' \subseteq named'
  BY <1>2 DEF Save
<1>4. named' \subseteq Path
  <2>1. \A t \in {text} \ {Broken} : Named(t) \subseteq Path
    BY Paths DEF IInv, TypeOK, Named
  <2> QED
    BY <2>1 DEF Save, IInv, TypeOK
<1>5. TypeOK'
  BY <1>4 DEF Save, IInv, TypeOK
<1>6. Chosen'
  BY <1>1, <1>3 DEF IInv, Chosen
<1>7. NoStrayDatabase'
  BY <1>1 DEF IInv, NoStrayDatabase
<1> QED
  BY <1>5, <1>6, <1>7 DEF IInv

LEMMA ServiceKeeps ==
  ASSUME IInv, Start \/ Load \/ NewStore \/ Bind \/ Terminate \/ Drained
  PROVE  IInv'
<1>1. Service \in Process /\ mishaps \in 0..MaxMishaps
  BY DEF Process, IInv, TypeOK
<1>2. CASE Start \/ NewStore \/ Bind \/ Terminate
  BY <1>1, <1>2, GotoKeeps DEF Start, NewStore, Bind, Terminate
<1>3. CASE Drained
  BY <1>1, <1>3, FailKeeps DEF Drained
<1>4. CASE Load
  <2>1. CASE Fail(Service)
    BY <1>1, <1>4, <2>1, FailKeeps DEF Load
  <2>2. CASE \E t \in LoadFile(file) :
               proc' = [proc EXCEPT ![Service].pc = "schema",
                                    ![Service].db = DbPath(env["service"], t)]
    BY <1>1, <1>4, <2>2, LoadKeeps DEF Load
  <2> QED
    BY <1>4, <2>1, <2>2 DEF Load
<1> QED
  BY <1>2, <1>3, <1>4

LEMMA AdminKeeps == ASSUME IInv, NEW c \in Command, AdminLoad(c) \/ AdminDone(c) PROVE IInv'
<1>1. c \in Process /\ mishaps \in 0..MaxMishaps
  BY DEF Process, IInv, TypeOK
<1>2. CASE AdminDone(c)
  BY <1>1, <1>2, GotoKeeps DEF AdminDone
<1>3. CASE AdminLoad(c)
  <2>1. CASE Fail(c)
    BY <1>1, <1>3, <2>1, FailKeeps DEF AdminLoad
  <2>2. CASE \E t \in LoadFile(file) :
               proc' = [proc EXCEPT ![c].pc = "schema", ![c].db = DbPath(env["shell"], t)]
    BY <1>1, <1>3, <2>2, LoadKeeps DEF AdminLoad
  <2> QED
    BY <1>3, <2>1, <2>2 DEF AdminLoad
<1> QED
  BY <1>2, <1>3

LEMMA SetAuthKeeps == ASSUME IInv, NEW c \in Command, SetAuth(c) PROVE IInv'
<1>1. c \in Process /\ mishaps \in 0..MaxMishaps /\ proc \in [Process -> Procs]
  BY DEF Process, IInv, TypeOK
<1>2. CASE SetAuthLoad(c)
  <2>1. CASE Fail(c)
    BY <1>1, <1>2, <2>1, FailKeeps DEF SetAuthLoad
  <2>2. CASE \E t \in LoadFile(file) :
               proc' = [proc EXCEPT ![c].pc = "truncate",
                                    ![c].text = [t EXCEPT !.auth = {"user", "pass"}]]
    <3>1. PICK t \in LoadFile(file) :
            proc' = [proc EXCEPT ![c].pc = "truncate",
                                 ![c].text = [t EXCEPT !.auth = {"user", "pass"}]]
      BY <2>2
    <3>2. t \in Text
      BY DEF LoadFile, IInv, TypeOK
    <3>3. PICK u \in Text : u = [t EXCEPT !.auth = {"user", "pass"}]
      BY <3>2 DEF Text
    <3>4. PICK q : q = [proc[c] EXCEPT !.pc = "truncate", !.text = u]
      OBVIOUS
    <3>5. q \in Procs /\ q.db = proc[c].db /\ q.pc = "truncate"
      BY <1>1, <3>4 DEF Procs
    <3>6. Works(q)
      BY <1>1, <3>5 DEF Works, IInv, Chosen
    <3>7. proc' = [proc EXCEPT ![c] = q]
      BY <1>1, <3>1, <3>3, <3>4
    <3> QED
      BY <1>1, <1>2, <3>6, <3>7, ProcessKeeps DEF SetAuthLoad
  <2> QED
    BY <1>2, <2>1, <2>2 DEF SetAuthLoad
<1>3. ASSUME NEW pc \in {"write", "done"}, Goto(c, pc)
      PROVE  /\ proc' \in [Process -> Procs]
             /\ \A p \in Process :
                  /\ proc'[p].db = proc[p].db
                  /\ proc'[p] = proc[p] \/ proc'[p].pc \notin {"schema", "check", "alter"}
  <2>1. PICK q : q = [proc[c] EXCEPT !.pc = pc]
    OBVIOUS
  <2>2. q \in Procs /\ q.db = proc[c].db /\ q.pc = pc
    BY <1>1, <2>1 DEF Procs
  <2>3. proc' = [proc EXCEPT ![c] = q]
    BY <1>1, <1>3, <2>1 DEF Goto
  <2>4. \A p \in Process : proc'[p] = IF p = c THEN q ELSE proc[p]
    BY <1>1, <2>3
  <2> QED
    BY <1>1, <2>2, <2>3, <2>4
<1>4. CASE Truncate(c)
  <2>1. Save(Blank) /\ Goto(c, "write") /\ UNCHANGED <<env, base, mishaps, edits>>
    BY <1>4 DEF Truncate
  <2> QED
    BY <1>3, <2>1, Records, SaveKeeps DEF IInv, TypeOK
<1>5. CASE WriteSecret(c)
  <2>1. PICK t \in {proc[c].text} \cup {Broken} : Save(t)
    BY <1>5 DEF WriteSecret
  <2>2. t \in Text \cup {Broken}
    BY <1>1 DEF Procs
  <2>3. Goto(c, "done") /\ UNCHANGED <<env, base, mishaps, edits>>
    BY <1>5 DEF WriteSecret
  <2> QED
    BY <1>3, <2>1, <2>2, <2>3, SaveKeeps DEF IInv, TypeOK
<1> QED
  BY <1>2, <1>4, <1>5 DEF SetAuth

LEMMA EditKeeps == ASSUME IInv, Edit PROVE IInv'
<1>1. PICK t \in Text \cup {Broken} : Save(t)
  BY DEF Edit
<1>2. UNCHANGED <<env, base, proc, mishaps>> /\ edits' \in 0..MaxEdits
  BY DEF Edit, IInv, TypeOK
<1> QED
  BY <1>1, <1>2, SaveKeeps DEF IInv, TypeOK

LEMMA StepKeeps == ASSUME IInv, [Next]_vars PROVE IInv'
<1>1. ASSUME NEW p \in Process, Mishap(p) PROVE IInv'
  <2>1. mishaps' \in 0..MaxMishaps
    BY <1>1 DEF Mishap, IInv, TypeOK
  <2> QED
    BY <1>1, <2>1, FailKeeps DEF Mishap
<1>2. CASE UNCHANGED vars
  BY <1>2 DEF vars, IInv, TypeOK, Chosen, NoStrayDatabase, Named
<1>3. Service \in Process /\ Command \subseteq Process
  BY DEF Process
<1> QED
  BY <1>1, <1>2, <1>3, ServiceKeeps, OpenKeeps, AdminKeeps, SetAuthKeeps, EditKeeps
     DEF Next, Serve, Admin

-----------------------------------------------------------------------------
(* The conjunction is an invariant of the program and its operators. *)
THEOREM Invariance == Spec => []IInv
<1>1. Init => IInv
  BY InitTyped, InitChosen DEF IInv
<1>2. IInv /\ [Next]_vars => IInv'
  BY StepKeeps
<1> QED
  BY <1>1, <1>2, PTL DEF Spec

(* No process makes a database where no readable configuration put it.     *)
THEOREM NoDatabaseStrays == Spec => []NoStrayDatabase
<1>1. IInv => NoStrayDatabase
  BY DEF IInv
<1> QED
  BY <1>1, Invariance, PTL

=============================================================================
