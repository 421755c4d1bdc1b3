# A TLA+ model of mcp-ssh

mcp-ssh is an MCP server that runs shell commands for an agent. It starts each
command in a process group of its own, answers at once if the command is fast,
and otherwise hands back a job id that is polled, listed and killed later, by
the server or by the `mcp-ssh job` command line, before or after a restart.
Beside the job engine it has a file tool, an OAuth 2.1 server and an hourly
reaper. This directory models the parts of it whose correctness depends on
order: tasks that interleave at every `await`, stores that describe one job and
are never updated together, files that change while they are read, processes
that outlive the server, and crashes between any two steps.

Paths below are relative to the repository.

## 1. Inventory

| component | state | operations | modelled by |
|---|---|---|---|
| **Job engine** `jobs/mod.rs` | the map id → `Job`, its lock | `run`, `reserve_log`, the waiter task, `poll`, `kill`, `reconcile_stale_running` | JobLaunch, JobEngine, JobLog |
| **Job rows** `jobs/store.rs`, `db.rs` | the `jobs` table in SQLite | `insert_running`, `finish`, `mark_killed`, `mark_restart_failed`, `delete`, the queries of the reaper and of `poll` | JobLaunch, JobEngine, JobLog; JobHistory is their abstract specification |
| **Signals** `jobs/signal.rs` | none of its own; the OS's process groups | `kill_job`, `kill_persisted`, `group_alive`, `signal_group` | ProcessGroups, JobEngine |
| **Reaper** `jobs/reaper.rs` | none of its own | `reap_once`, `compact_once`, `reap_orphans`, the token sweep | JobEngine (eviction, orphans), JobLog (the same on one log, and compaction), OAuthFlow (tokens) |
| **Job logs** `jobs/log.rs` | one append-only file per job | tails, trims, pages from either end | JobLog, Paging |
| **OAuth** `oauth/store.rs`, `oauth/flow.rs`, `auth.rs` | codes in memory, clients and token tables in SQLite | register, authorize, redeem, refresh, validate, sweep | OAuthStore, OAuthFlow; OAuthGrant is the abstract specification |
| **Bounded run** `tools/files/shell.rs` | a child, two pipes, a buffer, a deadline | `run_bounded`, `extend_bounded` | BoundedRun |
| **File tool** `tools/files.rs` | files on disk | write, append, delete, move, read; list and grep run a program | FileOps, Paging (the scan of a read), BoundedRun |
| **Configuration** `config.rs` | one TOML file | loading, the environment's overlay, `set-auth` | Startup |
| **Server wiring** `main.rs`, `app.rs`, `db.rs` | the database's schema | open, migrate, bind, serve, drain, restart | Startup |
| Tool surface `tools/mod.rs`, CLI `admin.rs`, `cli.rs` | none | dispatch, call the above, render | the dispatch, with the module of what it calls |
| Error reporting, OAuth metadata, deployment | none, constants | | not modelled |

How they interact. `run` reserves a log file, spawns the shell, enters the map,
writes the row and leaves a waiter behind; the waiter, `kill`, the reconcile of
the *next* incarnation and the reaper then all change the same row, while the
job's processes hold its log open. `kill` and the reconcile learn about
processes only by running the `kill` command. The CLI is a second process on the
same database and configuration that never sees the map. Row and log outlive the
server, and, unless systemd stops the unit with `KillMode=control-group`, so
does the process group. The OAuth handlers share the database with all of these
and keep codes in memory only. The file tool shares nothing with the rest but
the disk; its calls share it with each other.

What is hard about it: the order of the waiter's effects; launches against the
reconcile that runs beside them at boot; an exit racing a kill from another
process; a statement or a `kill` that fails half way through; ids that come
round again; a log renamed over while a descendant still appends; a poll that
reads its answer in three looks; cursors counted from an end that moves; single
use of codes and tokens over several awaits; checks of the disk that no longer
hold when they are used; two pipes and a deadline; two processes that migrate
one database. `PROJECT.json` lists these hazards line by line (40 of them) with
the properties that watch them, and says of the six that no property covers why.

What makes each component correct:

- *launch and waiter*: an id, its row and its log belong to one job; whoever is
  woken reads the final state; a recorded exit stays; `run` always returns.
- *reconcile*: rows of dead jobs are settled, those of survivors and of the
  server's own new jobs are not.
- *kill*: a row says `failed` only when the group is gone; an exit wins.
- *reaper*: every row ages out, every file of a dead job goes; a running job is
  not forgotten unkilled; the sweep takes no log a job still needs.
- *logs*: no line is lost to a trim or a tail while somebody writes; a poll that
  says *exited* has the whole output behind it; pages miss no line.
- *OAuth*: a login is one grant in one place; what works can be renewed; no
  token without a login; only its own use or its expiry takes a credential away.
- *bounded run*: it ends by its deadline, blocks on neither pipe, leaves nobody
  behind and passes no part off as the whole.
- *file tool*: an append that was answered is in its file; an answer about a
  path was true; pages tile a file; a move replaces nothing.
- *start-up*: lost races and failures cost a restart, not the service; nobody
  makes a database the configuration did not name.

## 2. Modules

```
ProcessGroups        groups, zombies, kill -0 / TERM / KILL
  JobLaunch          run, the waiter, the rows and logs, server death and restart
    JobEngine        + reconcile, kills, reaper: the whole job engine
      JobEngineProperties   properties, fairness, refinement to JobHistory
        MCJobEngine                symmetry for TLC
        JobEngine_proofs           typing, waking
          JobEngineSafety_proofs   every other safety property
JobHistory           what the job table promises its readers

JobLog               one job's log: writers, waiter, poll, eviction, compaction, sweep
  JobLogProperties
    JobLog_proofs
Paging               read's scan and pages, poll's pages
  Paging_proofs

OAuthStore           codes and token tables, statement by statement
  OAuthFlow          the requests, the reaper's sweep, crashes
    OAuthProperties  properties, refinement to OAuthGrant
      OAuth_proofs
OAuthGrant           what one login is worth

BoundedRun           the child, its pipes, the cap and the deadline
  BoundedRun_proofs
FileOps              write, append, delete, move, read, call by call
  MCFileOps, FileOps_proofs
Startup              configuration, database, serve, commands, systemd
  MCStartup, Startup_proofs
```

### The job engine

**ProcessGroups.** A launch leads one group: `leader` (unborn, alive, zombie,
gone) and one descendant `child`. One is enough to tell "the leader exited"
from "the group is gone". A zombie answers `kill -0` until its parent reaps it.
TERM is obeyed or not, by each process for itself; KILL always works. `misses`
counts `kill` commands that could not be started, which `group_alive` and
`signal_group` read as *false*.

**JobLaunch.** `jobs` is the map, `row` the table, `log` the directory, each by
id. A row carries its status, the launch whose pgid it names and the tick it
started in; the model splits the status `failed` by the text of `error`
(`killed`, `restarted`). `pc` follows a call of `run` from await to await
(`Reserve`, `Spawn`, `Track`, `Persist`, `Return`), `wpc` its waiter
(`WaiterReap`, `WaiterRecord`, `WaiterSignal`, `WaiterFinish`). An SQL statement
is one step, as `Db::call` runs it under the connection's lock; `Fault` makes it
fail, and a call of several statements fail half way; `faults` keeps whether an
INSERT or DELETE failed (`"rows"`: a row is missing, or there too long) or another
statement. `Die` ends the process between any two steps; what is then in progress
is lost. Nothing else drops a call of `run`: the service is stateful
(`http.stateful_mode`, `src/src/app.rs:15`), and rmcp, which is external, is taken to
answer a request in a task that outlives the client's connection. The code of
`run` takes that for granted as well: a future dropped between `command.spawn` and
the waiter's `tokio::spawn` would leave a group that nobody waits for, and
`exited_within` says that `done`'s sender is dropped only after an exit
(`src/src/jobs/signal.rs:182`). OAuthFlow does drop calls, since plain HTTP handlers
run them; BoundedRun and FileOps do although tools call them as they call `run`,
because that costs nothing there (`kill_on_drop`, one call on one path).

**JobEngine** adds the tasks beside `run`: `rec` (`ReconcileLock`,
`ReconcileQuery`, `ReconcileProbe`, `ReconcileMark`), `kill[k]` for calls of the
tool, runs of the CLI and the reaper's own kill (`KillJob…` for `kill_job`,
`Kill…` for `kill_persisted` and `kill_group`), and `reap` for a pass
(`ReapStart` … `ReapUnlink`, then `OrphanScan`, `OrphanRemove`, `OrphanEnd`).
Every value the code reads before an await and uses after it is a field of these
records: `rec.live`, `rec.todo`, `kill[k].job`, `reap.todo`, `reap.known`.

**JobHistory** is the abstract specification: per id, absent → running →
exited | killed | restarted → absent, where an exit may follow a kill another
process recorded but never the other way round. `ImplementsHistory` maps each
row to its status.

Time and simplifications. A tick of `clock` is hours: `Tick` waits for every
short activity (calls in progress, a pass, the reconcile) and `now_unix` reads
it; two boots in one tick are the crash loop within a second. `JobId::generate`
stamps ids with the time of day, so an id whose log is gone cannot be minted
again in the same tick (`freed`). The INSERT and the spawning of the waiter are
one step: no other task can see the row without the waiter and act on it
differently. In this module `finish` reads the tail and updates in one step and
the orphan sweep checks a file's age and removes it in one; JobLog takes the
first apart. The grace loop of `kill_group` is one poll, which may come at any
time. A job's wait error (`Failed`) counts as `exited`. Rows without a usable
pgid and pid reuse are left out; the code treats the first as dead, and its
comments argue the second away.

### Logs and pages

**JobLog** is one job, from its launch on, line by line. `log` and `temp` are
the files `<id>.log` and `<id>.log.trim` (their lines and age); `linked` says
whether the file the group holds open is still the one at the path, so a line
written after a rename over it goes where nobody reads. `waiter` runs the exit,
the tail and the UPDATE as three steps, `reap` a whole pass (`stale`, `delete`,
`drop`, `unlink`; `rows`, `look`, `probe`, `read`, `create`, `write`, `rename`
for `compact_once`; `known`, `sweep` for `reap_orphans`), and `poll[p]` the looks
of `JobStore::poll`: the map, the state, the page, the map again, the saved
tail. Lines are numbered, 0 is the marker a trim leaves. What JobEngine has in
full is a single step here (the kill, the reconcile); the INSERT succeeded; a
probe answers truly (`kill_unprobed` shows one that does not); the id is not
drawn again; descendants that leave the group by `setsid` are left out.

**Paging** has the arithmetic. A text is a sequence of lines (number, size) that
grows by bytes and newlines under its readers. `reader` is the file tool's
`read`: `ScanBytes`, `ScanLine`, `ScanEnd` are the chunks of the buffered reader
(`append_capped`, with the seal of a line that outgrew its cap and the split
character it drops), `ScanFull` the early stop, `ReadAnswer` `paginate` with
its byte budget, `more_remains` and the next cursor. `poller` is `bash`'s inline
answer followed by `job(poll)`, or polling alone: `paginate_tail`, whose cursor
counts from the newest line. `PageLength` and `TailLength` state what the loops
of the two functions compute: the most lines that fit, and never none.

### OAuth

**OAuthStore** has one operator per statement or critical section: the codes in
memory (`InsertCode` with its sweep, `TakeCode`), registration, the transaction
that inserts a pair, `TakeRefresh` (`DELETE … RETURNING`), `DropDead` (validate)
and the two sweeps. A pair's state is the expiry of its two rows, 0 for no row;
`origin` says which login it descends from. **OAuthFlow** strings them together:
`req[r]` is a request from await to await (`code`, `spent`, `commit`, with what
it read before), `Fault` fails a statement, `HangUp` drops the handler with its
connection at an await, while a closure handed to the blocking pool still runs,
and `DieAndRestart` keeps what was committed and forgets the codes. Tokens and
codes are numbers in the order drawn: that 256 random bits are not guessed is
assumed. **OAuthGrant** is the abstract specification: a login is unborn, then
held by its code, by a request, by a refresh token in turn, and over; never in
two places, never revived.

### The tools

**BoundedRun**: `ChildWrites`, `ChildExits` and so on are the program,
`wrote - took` is what lies in a pipe, `Read(s)`/`ReadEnd(s)` the branches of the
`select!`, `Extend` the cap; `capped`, `timeout` and `error` go through `Kill`
and `KillReaps`, the end of both streams through `WaitReaps`; `Cancel` drops the
future at any await, `kill_on_drop` and all. What `list` and `grep` make of the
exit status is `Outcome`.

**FileOps**: paths are names in a root or in a directory of the root, `entry`
says what they name and `data` which calls' bytes are in a file. Each system
call is a step: `EnsureParent`, `Open` (which creates and truncates), `Fill`,
`Put`; `DeleteStat`, `Unlink`, `ClearStart`, `ClearNext`, `RemoveDir`;
`MoveLook`, `Rename`; `ReadStat`, `ReadOpen`. Links lead to paths that are not
links; some calls follow them and some do not, as in the code. `HangUp` drops a
call at an await; a write's blocking part is carried through. Directories are
not moved, contents have one length, and each call runs once.

**Startup**: a process loads the configuration (`LoadFile`, `Overlay`,
`Accepted`), opens and migrates the database column by column (`ensure_column`:
look, then ALTER, which loses to whoever added the column first), and, if it is
the server, binds, serves, drains and is started again. Commands do the first
two or, as `set-auth`, read the file, truncate it and write it. `named` holds the
databases a configuration has named. The file's mode is left out, a missing
directory counts as a failed statement, and there is one server.

## 3. Runs

| run | instance | distinct states | shows |
|---|---|---|---|
| `engine` | 2 launches, 2 ids, 2 incarnations, 2 ticks, no failing statement or `kill`; symmetric | 1006639 | type correctness, `DoneAfterState`, `IdNamesOneJob`, `FinishedRowIsTerminal`, `BootSettlesRows`, `ReconcileSparesOwn`, `DeclaredDeadIsDead`, `SweepSparesJobs`, `ImplementsHistory` |
| `kill` | 1 launch, a tool kill, a CLI kill and the reaper's, 2 incarnations, 1 failed statement | 2105274 | `DeclaredDeadIsDead` and `ImplementsHistory` when kills race each other, the exit, the eviction and the restart |
| `engine_live` | 2 launches on 1 id, one after the other, 4 ticks, and 1 failed statement, 1 failed `kill` or 1 restart | 555054 | `RowsAgeOut`, `RunReturns`, `ForgetsOnlyDeadLeaders` |
| `joblog` | 1 job of 3 lines, 1 poll, trims that keep 2 lines and then 1, tails and pages of 1, 1 failed statement or crash | 447015 | `LogEndsAtLastLine`, `TailCoversExit`, `ExitedPollIsComplete`, `PollNeverErrors`, `DiskIsReclaimed` |
| `paging` | texts of at most 3 lines of 4 bytes, lines capped at 2, pages of 5, limits of 0 and 2 | 212470 | type correctness, `PagesTile`, `PollSkipsNothing`, `PagingEnds` |
| `oauth` | 2 requests at once, 2 codes, 2 pairs, 1 client, 2 URIs of which 1 may register, 2 verifiers, 4 moments, 1 failed statement or crash | 426887 | `OneHolder`, `Renewable`, `TokensTraceToLogin`, `CredentialsStay`, `ImplementsGrant`, `DeadRowsGo` |
| `boundedrun` | 2 pipes of 2 bytes, reads of 2, a cap of 3, up to 3 bytes a stream | 21108 | `NoOrphan`, `AnswerIsComplete`, `EndsByDeadline`, `NeitherPipeBlocks` |
| `fileops` | 2 calls of any kind on a directory, a file in it, one beside it, a link to either, 3 files in all | 278186 | `AppendsSurvive`, `AnswersWereTrue` |
| `startup` | the server and 2 commands, 2 databases, 2 columns, 2 texts of the file, 2 environments, 1 edit, 1 failure | 540498 | `NoStrayDatabase`, `EventuallyServes` |
| `evict_orphans`, `kill_unprobed`, `move_clobbers` | the smallest that show it | | a violation each, see below |

Every property has a mutant in `PROJECT.json`: a plausible bug in a mapped
definition (an inverted order, a dropped re-check, a swapped comparison) with
which the same run finds the property violated.

Why the bounds are enough.

- *Job engine*: every conflict in the code is between two launches (over an id
  or against the reconcile's query), between two incarnations, or between one
  job's waiter, kills and eviction; two of each reach them all. Two ticks make a
  row older than a retention of zero. In `engine` and `kill` no id comes round: an
  id given up is free again in a later tick only, and there is none. It does in
  `engine_live`: a job launched at tick 0 is evicted at 1, the next one gets its id
  at 2, and ages out at 3. What reuse of an id could do to the other properties is
  left to the proofs, which bound neither ticks nor ids (§4). One failure shows
  every error path, since the paths do not add up; `engine_live` has one of any
  kind (`OneMishap`, a constraint on what may go wrong; it cuts no step that
  fairness asks for, since each of these has its way without a failure). With
  `MaxClock` reached, reaper passes go on, so the liveness properties are not
  true by running out of time.
- *Job log*: three lines are more than an aged trim keeps plus its marker, so a
  log is trimmed, trimmed again and written to in between; a poll, the waiter, a
  writer and a pass are all there at once; a failure or crash may fall anywhere.
- *Paging*: with three bytes a line outgrows both caps, and a fourth goes to a
  line already sealed; a page's budget holds two short lines or one long one, so
  three lines take several pages either way, and a page ends by its limit, by
  its bytes or at the end. A limit of zero is
  what a client may ask for.
- *OAuth*: two requests over one code or token are the race; two pairs are a
  login and its refresh; tokens that live one moment and two, over four, give
  every order of expiry, presentation and sweep.
- *Bounded run*: an output of three is more than a pipe holds and fills the cap
  exactly, so both the full pipe and the boundary of the cap occur.
- *File operations*: the code keeps no state between calls, so every conflict is
  between one call's two steps and another call; two calls give each pair of
  actions, links and directories included.
- *Start-up*: two columns leave a database half migrated, and two commands
  besides the server lose every race there is.

**Fairness.** It is given to what the runtime, the kernel and systemd owe, never
to a client or a command.

- `engine_live`: weak fairness of each task: tokio polls a woken task again, and
  every await here ends (a statement, a `kill` command, a timer, the lock, which
  nobody holds for ever); of `EngineRestarts`, as the unit's
  `Restart=on-failure` brings a crashed server back and an operator a stopped
  one; strong fairness of `Tick`, which time passing and hourly passes justify:
  it is disabled only while short activities run. No command has to exit, obey a
  signal or write.
- `joblog`: weak fairness of the reaper's pass, of the waiter once the shell has
  exited, of the restart and of time.
- `paging`: of `Read` and `PollPage`. That an agent asks for its next page is the
  question's premise; that it then comes to an end is what is checked.
- `oauth`: of the sweep alone. No request has to come or finish.
- `boundedrun`: of the call's own steps and of a SIGKILL taking effect. That a
  child in uninterruptible sleep may outlast it is outside the model.
  `NeitherPipeBlocks` adds a child that goes on working, in its premise.
- `startup`: of the server's steps and its restart (`Serve`). No command has to
  end, and `EventuallyServes` asks only for a file that stays acceptable.

Deadlock is checked in the engine's and the log's runs and in `startup`, where
the reaper or the service always has a step; the other systems do stop, and
their cfgs say so.

**What the violations show.**

- `evict_orphans`: `kill_job` waits for the leader's exit alone
  (`src/src/jobs/signal.rs:41`). If the leader obeys TERM and a descendant of its
  group does not, it answers true with the group alive, though its comment says
  "the group is gone afterwards", and the reaper drops the row of a job that
  still runs, though "eviction never orphans its process group"
  (`src/src/jobs/reaper.rs:233`).
- `kill_unprobed`: a `kill -0` that cannot be started reads as "gone"
  (`src/src/jobs/signal.rs:154`), so `kill_persisted` records a kill of a job that
  was never signalled, against "only once the group is actually gone".
- `move_clobbers`: `rename` looks whether its target exists and renames two calls
  later (`src/src/tools/files.rs:267`); a file written there in between is
  replaced, against "No silent clobber" and "move won't overwrite".

**Known limits of what holds.** These are consequences of the code that the
models show or that became clear in reading it, and that no line of it denies.

- After a failed INSERT, which is only logged, a job runs without a row and the
  sweep takes its log once it is a retention old. Its id is free then, and the
  next launch that gets it takes the job's entry from the map. `IdNamesOneJob` and
  `SweepSparesJobs` rest on that INSERT (§4), and so does
  `ForgetsOnlyDeadLeaders`, which says so in its premise `RowsWritten`.
- The other half of that premise is the DELETE. After one that failed a pass may
  evict an old row together with a new job just launched under its id, and
  `engine_live` reaches that: without the premise TLC finds the job forgotten
  while its leader lives. In the program it takes a day without a pass.
- `ForgetsOnlyDeadLeaders` holds with one `kill` that cannot start; two in a row
  make a pass forget a job whose leader lives.
- A failed DELETE followed by a late `finish` of the evicted job saves an empty
  tail. The row that outlives its log frees the id, and what two jobs then do to
  one row breaks most of what is promised of rows; §4 says which promises rest
  on the DELETE. They fail only after the id has come round, a day later at least.
- `docs/architecture.md` says every job still running after a restart is marked
  failed; the code keeps survivors, and `BootSettlesRows` states what it does. A
  survivor's row stays `running` until it is evicted.
- A failure, a crash or a client that hangs up between the two statements of
  `refresh` ends the login, though the comment above it says that an
  actively used client never logs in again; OAuthGrant allows it as `Lose`. A code at its exact moment of expiry is
  swept by a new login and still redeemable without one.
- Polling pages backwards from the newest line, where `docs/architecture.md`
  lets an agent walk forward.
- Descendants that left the group by `setsid` lose what they write after a trim;
  the marker counts the lines of the last trim only.
- Output that exactly fills the bounded run's cap is reported as truncated, and
  a window that ends exactly at the end of a file offers a further, empty page.
- `set-auth` truncates the file in place: a crash there loses the settings it
  would have preserved, and a process that reads in the window sees an empty
  file and falls back to the default database.
- A second server started by hand runs its reconcile and its reaper before its
  bind fails.

## 4. Proofs

TLC checks the instances above; TLAPS proves the following for every value of
the constants under the named assumptions of each module (`None` is not a value,
bounds are naturals, the relations between limits that the code's constants
have, such as `TokenTtl <= RefreshTtl` or `AgedKeep <= RecentKeep`). The
engine's and the file tool's strengthenings were checked by TLC on the runs'
instances before they were proved.

**Job engine, typing** (`JobEngine_proofs`). `EngineIsTyped`: `TypeOK` is not
inductive, since a kill reads the row it names and a pass the id it unlinks;
`KillsNamed` and `PassNamed` say that these exist. (`RowsOwned`, in `TypeOK`, does
so for the rows whose launches the reconcile collects.) `WokenAfterState`: a
waiter past `WaiterRecord` has stored the state, and only such a waiter has sent `done`.

**Job engine, safety** (`JobEngineSafety_proofs`). Every safety property of the
engine, for any number of launches, ids, kills, incarnations and ticks, with
crashes at any step, and with any number of failing statements but those the
property rests on. The code only logs a failed statement, so what a theorem
assumes is a statement about that one call: `InsertsStand` (the INSERT of `run`
does not fail), `DeletesStand` (the reaper's DELETE), `UpdatesStand` (the
waiter's UPDATE), `ReconcileStands` (the reconcile's query and UPDATEs).

| theorem | property | INSERT | DELETE | UPDATE | reconcile | `kill`s that cannot start |
|---|---|---|---|---|---|---|
| `IdsNameOneJob` | `IdNamesOneJob` | x | x | | | any |
| `SweepSparesEveryJob` | `SweepSparesJobs` | x | | | | any |
| `FinishedIsTerminal` | `FinishedRowIsTerminal` | | | x | | any |
| `TableImplementsHistory` | `ImplementsHistory` | | x | | | any |
| `ReconcileSparesItsOwn` | `ReconcileSparesOwn` | | x | | | any |
| `BootSettles` | `BootSettlesRows` | | x | | x | any |
| `DeclaredDeadAreDead` | `DeclaredDeadIsDead` | | x | | | none |
| `ForgetsOnlyDead` | `ForgetsOnlyDeadLeaders` | x | x | | | at most one |

`ForgetsOnlyDead` assumes nothing of the kind: its crosses are the property's own
premise, that no INSERT and no DELETE has failed so far (`RowsWritten`), and a
step in which one fails is seen in `faults` (`WrittenBefore`).

Each cross is needed: with two launches on one id, two incarnations, and one
failure of one of these calls (and enough ticks for the id to come round), TLC
finds the property violated in every cell with a cross and in no empty one.
Likewise `kill_unprobed` shows why one `kill` that cannot start is too many for
`DeclaredDeadIsDead`, and two in a row make `kill_job` take a live leader for
dead. `NothingFails` says that where the database does not fail at all, as in
the run `engine`, every one of the hypotheses holds. The table is also what a
reader of the code should take from the proofs: it says what the promises lose
when one of these errors is logged and passed over.

The proofs use four inductive invariants, each under the hypotheses of the
theorems that need it and no others.

`Inv`, while no DELETE fails, says who owns what at any time:

- `LaunchInv`: a launch under way owns a log of this tick, and no row has its id
  yet; `RowInv`: the owner of a row owns the log of its id, and a row of this
  incarnation is in the map;
- `MapInv`: an entry of the map belongs to this incarnation, and so does a row of
  the same id; `FreedInv`: a freed id has no log;
- `RecInv`: what the reconcile is about to probe was launched by an earlier
  incarnation; `ReapInv`: an id under eviction has no row, keeps its log and is
  nobody's pending launch;
- `KillInv`: a kill through a row goes to the launch that holds the id.

`EntriesInv`, while no INSERT fails either: a tracked job keeps its log, and has a
row, a launch about to write it, or an eviction about to remove it. `SpareInv`,
while no INSERT fails, does without `Inv`: a pending launch has a log of this
tick, a tracked job without a row is being evicted, and a row the sweep has not
read belongs to a log of this tick. `NamesInv` needs no hypothesis: a launch keeps
its id and a row its owner's.

On top of these, `SettledInv` says that the reconcile knows every row that was
left running; `DeadInv` that whoever is about to declare a group dead has seen it
dead; `ForgetInv` that a waiter that has reaped, a job forgotten, a reaper's kill
that succeeded and an eviction that goes on each imply a dead leader.
`RecordedEndsStand` reads off the refinement what it means for one row: how a job
ended stands until its eviction, except that a kill may become an exit.

**Job log** (`JobLog_proofs`). `LogIsTyped`, `LogIsContinuous`, `TailsCoverExits`,
`ExitedPollsAreComplete`, `PollsNeverErr`. The invariant: what is in the file, and
what a trim is about to put there, ends at the last line written; a trim past
its probe means that the group is gone, hence that nobody writes (`TrimInv`); a
job in the map has its log (`MapInv`); whoever says *exited* says so after the
shell did (`ExitInv`); a tail read since then covers the exit (`TailInv`).

**Paging** (`Paging_proofs`). `PagesAlwaysTile` and `PollsSkipNothing`, for every
cap, budget, limit and cursor. `TextInv`: lines are numbered in order, but for a
marker at the front of a text that nobody reads as a file. `ReadInv`: the scan
is at a byte of a line and the line in flight is what a copy of those bytes is,
the window has the lines from the cursor to the last one scanned, and what was
given tiles the file so far. `PollInv`: the cursor, counted from an end that only
moves away, leaves out no line older than the oldest one shown. A page's length
is the greatest element of a bounded set, which exists by well-foundedness
((`Greatest`); its exact sum of costs is not needed, only that a page is within
its text and, where there is a line, not empty. `PagingIsTyped` adds the bounds
the two properties do without (`InBounds`): what is kept of a line is within the
cap, the window within the limit, and no line given is outside the text.

**OAuth** (`OAuth_proofs`). `OAuthIsTyped`, `LoginsAreLinear` (`OneHolder`),
`WorkingIsRenewable`, `CredentialsAreSafe`, `TokensAreEarned` and `LoginsAreGrants`,
the refinement to OAuthGrant, with statements failing and crashes anywhere. The
invariant adds to the types and `OneHolder` what a request carries (`Carries`: a
pair about to be inserted is nobody else's and has no row), that what was not
drawn is nowhere (`Undrawn`), and that rows expire in the order `issue` gave them
(`Timely`); `Descent`, that every code redeemed was genuine. `LostLoginsStayLost`
reads off the refinement that a login once lost is good for nothing any more.

**Bounded run** (`BoundedRun_proofs`). `RunIsTyped`, `NothingIsOrphaned`,
`AnswersAreWhole`. Until something goes wrong the buffer holds all that was read
and has room left (`BufferIsWhole`), and a stream at its end is closed and empty
(`EndIsEnd`).

**File tool** (`FileOps_proofs`). `AppendsAreKept` and `AnswersAreTrue`, for any
calls on any tree of this shape. A call's arguments fit its place (`Staged`), what
its paths are now has been seen since it began, and a move past its look has
seen its target free (`Seen`), and the bytes of a call are in no file before its
put and in the file it opened after (`Kept`).

**Start-up** (`Startup_proofs`). `NoDatabaseStrays`: whoever is past its load
works on a database that a readable text has named (`Chosen`).

Only model-checked: the liveness properties (`RowsAgeOut`, `RunReturns`,
`DiskIsReclaimed`, `PagingEnds`, `DeadRowsGo`, `EndsByDeadline`,
`NeitherPipeBlocks`, `EventuallyServes`), since the prover has neither fairness
nor ENABLED. Every safety property of every passing run is a theorem above.

## 5. Not modelled

- **Error reporting** (`sentry.rs`) scrubs and forwards events to a service;
  nothing in the program reads them back.
- **OAuth metadata** and pages are constant documents.
- **Deployment** scripts and unit files; only `KillMode` and `Restart` matter,
  to ProcessGroups and Startup.
- **Rendering** in the tool surface and the CLI: parameters, tables, wording.
  What these do to state (dispatch, cursors and limits, the opening of the
  database, `job kill`) is with the component they call, hence *partly*.
- **Listings** of rows in `jobs/store.rs`: queries that feed a table.

## 6. What could come next

- What an id whose row outlived its job still promises: weaker properties for
  the cells with a cross in the table of §4.
- Two servers on one database (`src/src/main.rs:90`), once the code says what it
  promises there.
- `set-auth` against a crash (`src/src/config.rs:218`), likewise.
- Directories as the source of a `move` in FileOps.
