-------------------------------- MODULE Startup --------------------------------
(***************************************************************************)
(* From `mcp-ssh serve` to a socket that answers, kept up by systemd, with *)
(* the admin commands and `set-auth` run beside it: the configuration file *)
(* they share, rewritten in place, and the database each of them opens and *)
(* migrates (main.rs, config.rs, db.rs, admin.rs).                         *)
(*                                                                         *)
(* A setting is unset (None), or one of the cases the code tells apart;    *)
(* credentials are the set of those given.                                 *)
(***************************************************************************)
EXTENDS Integers, Sequences, Functions

CONSTANTS
  Service,     \* the server systemd keeps running
  Command,     \* commands an operator runs
  Path, Usual, \* where a database may be; where it is unless configured
  Columns,     \* the columns `jobs` was given over time, in order
  Texts, Envs, \* what operators write in the file; what the environments set
  MaxEdits, MaxMishaps, None, Broken

Process == {Service} \cup Command
Column == Range(Columns)

Text == [bind : {None, "loopback", "public", "invalid"}, hosts : {None, "empty", "listed"},
         auth : SUBSET {"user", "pass"}, db : Path \cup {None}]

ASSUME StartupConstants ==
  /\ Service \notin Command /\ Usual \in Path
  /\ None \notin Path /\ \A cs \in SUBSET Column : cs # None
  /\ Columns \in Seq(Column) /\ IsInjective(Columns)
  /\ Texts \subseteq Text /\ Envs \subseteq Text /\ Broken \notin Text
  /\ MaxEdits \in Nat /\ MaxMishaps \in Nat

VARIABLES
  file,    \* the configuration file: a text, or Broken
  env,     \* the environment of the service, and of an operator's shell
  base,    \* base[p]: the columns of the database at p; None if there is none
  proc,    \* proc[p]: where process p is
  named,   \* the databases that were there, or that a configuration has named
  edits, mishaps

vars == <<file, env, base, proc, named, edits, mishaps>>

Blank == [bind |-> None, hosts |-> None, auth |-> {}, db |-> None]
Fresh(pc) == [pc |-> pc, db |-> None, col |-> 0, text |-> Blank]

Procs == [pc : {"off", "load", "schema", "check", "alter", "opened", "bind", "serving", "draining",
                "new", "truncate", "write", "done"},
          db : Path \cup {None}, col : Nat, text : Text]

TypeOK ==
  /\ file \in Text \cup {Broken} /\ env \in [{"service", "shell"} -> Text]
  /\ base \in [Path -> {None} \cup SUBSET Column]
  /\ proc \in [Process -> Procs]
  /\ named \subseteq Path /\ edits \in 0..MaxEdits /\ mishaps \in 0..MaxMishaps

-----------------------------------------------------------------------------
(* Config::from_env and db_path_in                                         *)

(* A file that cannot be read or parsed, taken as an empty one. *)
OrDefault(text) == {IF text = Broken THEN Blank ELSE text}

(* load_file: what the file says, or an error; a missing one says nothing. *)
LoadFile(text) == {text} \ {Broken}

(* env wins. *)
Overlay(e, text) ==
  [bind |-> IF e.bind = None THEN text.bind ELSE e.bind,
   hosts |-> IF e.hosts = None THEN text.hosts ELSE e.hosts,
   auth |-> text.auth \cup e.auth,
   db |-> IF e.db = None THEN text.db ELSE e.db]

(* The address, and the port that may replace its own (env_port), parse. *)
Addressed(c) == c.bind # "invalid"

(* normalize_hosts: a list of blanks is no list. *)
Listed(c) == c.hosts = "listed"

(* Off loopback the hosts must be listed. *)
Guarded(c) == Listed(c) \/ c.bind # "public"

Accepted(e, text) ==
  LET c == Overlay(e, text) IN
    Addressed(c) /\ c.auth = {"user", "pass"} /\ Guarded(c)

DbPath(e, text) == LET d == Overlay(e, text).db IN IF d = None THEN Usual ELSE d

Named(text) == {DbPath(env[e], text) : e \in DOMAIN env}

Init ==
  /\ file \in Texts /\ env \in [{"service", "shell"} -> Envs]
  /\ base \in {[p \in Path |-> IF p = q THEN c ELSE None] :
                 q \in Path, c \in {None} \cup {Range(SubSeq(Columns, 1, n)) : n \in 0..Len(Columns)}}
  /\ proc = [p \in Process |-> Fresh(IF p = Service THEN "off" ELSE "new")]
  /\ named = {p \in Path : base[p] # None} \cup Named(file)
  /\ edits = 0 /\ mishaps = 0

-----------------------------------------------------------------------------
At(p, pc) == proc[p].pc = pc
Goto(p, pc) == proc' = [proc EXCEPT ![p].pc = pc]

(* A process that ends with an error; systemd starts the service again. *)
Fail(p) == proc' = [proc EXCEPT ![p] = Fresh(IF p = Service THEN "off" ELSE "done")]

(* Whoever writes the file. *)
Save(text) ==
  /\ file' = text
  /\ named' = named \cup UNION {Named(t) : t \in {text} \ {Broken}}

configFrame == <<file, env, named, edits>>

Start ==
  /\ At(Service, "off") /\ Goto(Service, "load")
  /\ UNCHANGED <<configFrame, base, mishaps>>

(* serve, up to the path of its database *)
Load ==
  /\ At(Service, "load")
  /\ IF \E t \in LoadFile(file) : Accepted(env["service"], t)
     THEN \E t \in LoadFile(file) :
            proc' = [proc EXCEPT ![Service].pc = "schema", ![Service].db = DbPath(env["service"], t)]
     ELSE Fail(Service)
  /\ UNCHANGED <<configFrame, base, mishaps>>

(* `jobs`, `job kill` and `sessions` need no credentials to find theirs. *)
AdminLoad(c) ==
  /\ At(c, "new")
  /\ IF LoadFile(file) = {} THEN Fail(c)
     ELSE \E t \in LoadFile(file) :
            proc' = [proc EXCEPT ![c].pc = "schema", ![c].db = DbPath(env["shell"], t)]
  /\ UNCHANGED <<configFrame, base, mishaps>>

-----------------------------------------------------------------------------
(* Db::open, statement by statement                                        *)

(* CREATE TABLE IF NOT EXISTS *)
Schema(p) ==
  /\ At(p, "schema")
  /\ base' = [base EXCEPT ![proc[p].db] = IF @ = None THEN Column ELSE @]
  /\ proc' = [proc EXCEPT ![p].pc = "check", ![p].col = 1]
  /\ UNCHANGED <<configFrame, mishaps>>

(* Every column added anew on every open. *)
AlwaysMissing(p) == TRUE

(* ensure_column: not in the table's list of columns. *)
Missing(p) == Columns[proc[p].col] \notin base[proc[p].db]

CheckColumn(p) ==
  /\ At(p, "check")
  /\ IF proc[p].col > Len(Columns) THEN Goto(p, "opened")
     ELSE IF Missing(p) THEN Goto(p, "alter")
     ELSE proc' = [proc EXCEPT ![p].col = @ + 1]
  /\ UNCHANGED <<configFrame, base, mishaps>>

(* ALTER TABLE, which fails if another process was quicker. *)
AddColumn(p) ==
  /\ At(p, "alter")
  /\ LET column == Columns[proc[p].col] d == proc[p].db IN
       IF column \in base[d] THEN Fail(p) /\ UNCHANGED base
       ELSE /\ base' = [base EXCEPT ![d] = @ \cup {column}]
            /\ proc' = [proc EXCEPT ![p].pc = "check", ![p].col = @ + 1]
  /\ UNCHANGED <<configFrame, mishaps>>

Open(p) == Schema(p) \/ CheckColumn(p) \/ AddColumn(p)

-----------------------------------------------------------------------------
(* The rest of serve.  The job store starts its tasks before the bind.     *)

NewStore ==
  /\ At(Service, "opened") /\ Goto(Service, "bind")
  /\ UNCHANGED <<configFrame, base, mishaps>>

Bind ==
  /\ At(Service, "bind") /\ Goto(Service, "serving")
  /\ UNCHANGED <<configFrame, base, mishaps>>

(* shutdown_signal: `systemctl restart` *)
Terminate ==
  /\ At(Service, "serving") /\ Goto(Service, "draining")
  /\ UNCHANGED <<configFrame, base, mishaps>>

Drained ==
  /\ At(Service, "draining") /\ Fail(Service)
  /\ UNCHANGED <<configFrame, base, mishaps>>

Serve == Start \/ Load \/ Open(Service) \/ NewStore \/ Bind \/ Drained

AdminDone(c) ==
  /\ At(c, "opened") /\ Goto(c, "done")
  /\ UNCHANGED <<configFrame, base, mishaps>>

-----------------------------------------------------------------------------
(* set-auth: it reads the file, truncates it and writes it again.          *)

SetAuthLoad(c) ==
  /\ At(c, "new")
  /\ IF LoadFile(file) = {} THEN Fail(c)
     ELSE \E t \in LoadFile(file) :
            proc' = [proc EXCEPT ![c].pc = "truncate", ![c].text = [t EXCEPT !.auth = {"user", "pass"}]]
  /\ UNCHANGED <<configFrame, base, mishaps>>

Truncate(c) ==
  /\ At(c, "truncate") /\ Goto(c, "write")
  /\ Save(Blank)
  /\ UNCHANGED <<env, edits, base, mishaps>>

(* Over what another has written since the truncation, whose end may stay. *)
WriteSecret(c) ==
  /\ At(c, "write") /\ Goto(c, "done")
  /\ \E t \in {proc[c].text} \cup IF file = Blank THEN {} ELSE {Broken} : Save(t)
  /\ UNCHANGED <<env, edits, base, mishaps>>

(* The commands of the program other than `serve`. *)
Admin(c) == AdminLoad(c) \/ Open(c) \/ AdminDone(c)
SetAuth(c) == SetAuthLoad(c) \/ Truncate(c) \/ WriteSecret(c)

(* An operator edits the file, for better or worse. *)
Edit ==
  /\ edits < MaxEdits /\ edits' = edits + 1
  /\ \E t \in Texts \cup {Broken} : Save(t)
  /\ UNCHANGED <<env, base, proc, mishaps>>

(* A statement, a bind or a write that fails, a kill, a crash. *)
Mishap(p) ==
  /\ proc[p].pc \notin {"off", "new", "done"}
  /\ mishaps < MaxMishaps /\ mishaps' = mishaps + 1
  /\ Fail(p)
  /\ UNCHANGED <<configFrame, base>>

Next ==
  \/ Serve \/ Terminate \/ Edit
  \/ \E c \in Command : Admin(c) \/ SetAuth(c)
  \/ \E p \in Process : Mishap(p)

Spec == Init /\ [][Next]_vars

(* systemd restarts what failed (Restart=on-failure) and ends a drain that *)
(* takes too long; the service's steps are its own.  No command must end.  *)
LiveSpec == Spec /\ WF_vars(Serve)

-----------------------------------------------------------------------------
(* Properties *)

(* A command or a server that loses a race to migrate the database, or     *)
(* fails half way, costs a restart and never the service: once the file is *)
(* one it accepts, it serves again and again (ensure_column, serve).       *)
Servable == \E t \in {file} \ {Broken} : Accepted(env["service"], t)
EventuallyServes == <>[]Servable => []<>(proc[Service].pc = "serving")

(* No process makes a database where no readable configuration put it: a   *)
(* broken file stops server and commands alike, instead of sending either  *)
(* to the usual place (db_path's comment).  An empty file is readable, so  *)
(* a set-auth under way or cut short does send them there.                 *)
NoStrayDatabase == {p \in Path : base[p] # None} \subseteq named

=============================================================================
