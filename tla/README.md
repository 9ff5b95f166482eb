# Calisto: specifications, checks and proofs

Calisto (`src/`, `crates/`) runs Ruby scripts in children forked from a warm
daemon that holds a booted CRuby VM. `calisto run` connects to the daemon of its
runtime directory over a unix socket (or starts one), sends the command with its
own stdin, stdout and stderr attached (`SCM_RIGHTS`), and exits with the status
it is told. This directory specifies that machinery in TLA+, checks it with TLC
on small instances, and proves with TLAPS, for instances of any size, the
bookkeeping of the accept loop, the reading of a command, the ownership of the socket,
the handles of the sqlite and pg crates and the text of a connection, the trip of the flags, the parity of a warm
and a cold run, the locks around a fork and the workers of `calisto test`.

## The system

| component | state | operations | talks to |
|---|---|---|---|
| accept loop (`src/daemon.rs` `daemon_main`, 465-641) | `clients: Vec<DaemonClient>`, the poll set, `DAEMON_SHUTDOWN` | poll, accept, scan of ready rows, PING/STOP/RUN/EVAL, fork, reap, shutdown | clients (socket), children (fork, kill, waitpid), signals |
| wire protocol (`src/protocol.rs`) | `buf`, `first`, `fds` per client | `build_cmd`, `send_with_fds`, `client_fill`, `client_read_command`, `respond`, `read_line` | both ends of the socket |
| daemon lifecycle (`src/runtime.rs` 230-423, `daemon.rs` 291-465) | `calisto.sock`, `calisto.pid` | connect or spawn, bind, stale recovery, pidfile, shutdown, stop | runs, daemons and stops share the two names |
| child bootstrap (`src/child.rs`) | the child's descriptors, environment, load path | dup2, chdir, flags, bundle, load or eval, at_exit | daemon (fork), script |
| fork and VM threads (`daemon.rs` 67-138, 555-589) | stdio locks, timer thread | atfork prepare/release, stop/start timer | VM, glibc |
| `calisto test` (`src/commands/test.rs`) | shared counter, results, watch list | workers, watch | one daemon connection per file |
| run, eval, exec (`src/commands/run.rs`, `exec.rs`) | none of its own; the daemons it leaves behind | flags, routing to an app's daemon, the generic one or a cold interpreter | daemon, interpreter |
| tasks, tooling, doctor (`src/commands`) | argument lists | exec of a process, a report | processes |
| configuration (`src/appconfig.rs`, `runtime.rs` 1-226) | none kept | `calisto.toml`, `.env`, Ruby version, runtime directory | file system |
| sqlite and pg (`crates/calisto-sqlite`, `crates/calisto-pg`) | handles owned by Ruby objects | open, prepare, step, close, reset, GC free | C libraries, VM |
| codecs, digests, shims, build | none | pure functions, file writing | - |

What is hard: the daemon is one thread, but clients, children, the kernel and
signals act between any two of its system calls; its two inner loops remove from
the vector they index; events of one poll are used after the vector changed;
commands may arrive in pieces; several daemons and stops may act on the two names
of one directory; anybody may crash. For each part the properties that make it
correct:

* **loop**: a job runs for the client that asked, with its stdio; it ends if the
  client goes away and for no other reason; each client reads one true answer;
  nothing is left behind after a shutdown; nobody waits for ever.
* **protocol**: the daemon acts on the command that was sent or on none, and on
  every command that arrives.
* **lifecycle**: one daemon per directory and it can be reached; a stale socket
  is recovered; stop stops; run and stop return.
* **run**, **child**, **configuration**: a script sees the same through a warm
  daemon as through the interpreter, whatever used that daemon before.
* **fork**: the child inherits no lock that it can hang on. **test**: every file is
  run and counted once, and an edit is not missed. **handles**: freed once, never
  used after. **text**: what is given to libpq, and what it gives back, arrives.

`PROJECT.json` lists the components, and under `hazards` the places in the code
where these can fail.

## Modules

* **`DaemonLoop`** - the accept loop and its surroundings. One action is one system
  call of the daemon with the bookkeeping up to the next one. `clients` is the
  vector of the code, with the same 1-based positions shifting on `RemoveAt`;
  `pc`, `i`, `polled`, `ready` are the position in the loop and the `pollfd` array
  (`ready[k]` is `pfds[k + 1].revents`, and it does not shift). `backlog` is the
  listen queue, `conns` and `stdios` the daemon's descriptor table, `kids` the
  process table, `rx` and `ans` the two directions of each connection. A
  connection is named by its client. `KillChild` is TERM, 200 ms, KILL, waitpid: one step of the
  daemon, during which the environment stands still; since a client or child that
  moves meanwhile could have moved before or after, no order is lost.
  `EINTR` restarts the poll and is not a step. `PING`
  leaves the row in place, as in the code.
* **`RequestService`** - what the loop promises: at most one job per RUN, one
  true status when it is over, one reply of the right kind to the rest.
  `DaemonLoop` is checked and proved to implement it (`ImplementsService`) under
  `asked <- op`, `job <- Job`, `reply <- ans`.
* **`MCDaemonLoop`** - the symmetry set for TLC.
* **`DaemonLoop_proofs`**, **`DaemonService_proofs`** - the theorems about the loop's
  bookkeeping, and those about its replies and the refinement.
* **`WireReader`** - one command on its way. The byte stream is a sequence of
  units at whose borders a read may end (operation, count, CRLF, `$len`, payload
  units); a payload unit never reads as anything else because payloads are
  base64. `head`, `left` and `fields` are the locals of `client_read_command`,
  lost when it returns `Partial`; `buf` and `first` stay. A RUN is one `sendmsg`
  and reaches the reader in chunks; PING and STOP are several small writes
  (`write!` on an unbuffered stream), so their header line may be cut anywhere.
* **`WireReader_proofs`** - its theorems.
* **`DaemonLifecycle`** - several runs, their daemons and stops over one runtime
  directory. `sock` and `pidfile` are the two names; `bind` and `listen` are two
  steps; every `remove_file` acts on whatever has the name by then. `overlap` is a
  history variable: the daemons that had company (another daemon alive or on its
  way, or a stop at work) at some time while they started. `held[d]` are the stops whose
  connection the jobs of daemon `d` have copies of: `Fork` adds those accepted by then
  (`child.rs` 159-161 closes the child's own only), `JobsEnd` takes some away, and a stop
  reads the EOF of a daemon that has gone only when no job has its connection (`HeldOpen`).

* **`SqliteHandles`** - the boxes of `Calisto::SQLite` and what they point to.
  `dbPtr`, `stPtr`, `stDb` are `Db.db`, `Stmt.stmt`, `Stmt.db`; `conn`, `sq`,
  `sqConn`, `sqErr` are the library's side (a zombie connection is one that
  `sqlite3_close_v2` left to its statements; `sqErr` is the error `finalize` would
  report). `call` holds the locals of an execute or prepare, whose steps end where Ruby
  may allocate and so collect, or where the SQL's `to_str` runs Ruby code: `ConvertSql`
  reads the handle, then `Prepare`, `DbExecute`, `SeveralStatements`, `SqlFails` or
  `PrepareOnFreed` goes on with it. `reach` is what the program still refers to.
  Every use of a finalized statement is `UseFinalized`; after a freed handle was
  given to the library nothing is claimed and no step follows.
* **`SqliteHandles_proofs`** - its theorems.

* **`DaemonLifecycle_proofs`** - its theorems.

* **`PgHandles`** - the boxes of the pg crate. `connPtr`, `resPtr` are `Conn.conn` and
  `Res.res`; `conn`, `res`, `sock` are libpq's side, and `desc` is the kernel's: where
  each descriptor number leads. `ioFd` is the descriptor that an IO made by `socket_io`
  closes. A method is one step,
  except those that read the pointer and then convert arguments (`Convert`, then
  `Exec`, `ExecFails`, `Prepare`, `ConvertRaises` or `UseFreed`): a `to_s` runs Ruby code in between,
  and `using` is the pointer the call holds meanwhile.
* **`PgText`** - the texts of that crate as pure operators: `conninfo_quote` against
  libpq's own parser (`LibpqParse`, external), with `from_utf8_lossy` before it (`Lossy`:
  bytes that are not UTF-8 are the character `Malformed`), C strings, and cells read by type
  with `parse_i64_raw` over integers that wrap: the machine's are those from `-Half` to `Half - 1`.
* **`MCPg`** - a behaviour is one of the handles, or one conversion (`sample`).
* **`Pg_proofs`** - the theorems about both.
* **`RunFlags`** - the command line of `run` as a fold over its arguments, and the blob
  of Ruby flags on its way to the child and back. `AppConfig` - `calisto.toml`, `.env`,
  the scripts and overrides. `RubyChoice` - which Ruby, and from it which runtime
  directory. All are operators over a *place*: the record of what searches upwards
  from the working directory find.
* **`RunCommand`** - one command after the other (`Start`, then `RunCold`, or `Connect` or
  `Spawn` and `Serve`, then `Exit`) over `daemons`, which maps a runtime directory to how the
  daemon there was booted (Ruby, preloaded libraries, an app's files, bundle, and RUBYLIB, locale and
  RUBYOPT of the run that spawned it). `Cold` is what a script
  observes in the interpreter started by `run_cold`, `Child` what it observes in `child_main`; both end in the
  record `Seen` or stop earlier. `Seen.shown` is the world the script is shown: the Ruby and its settings,
  `$VERBOSE`, the encoding, the load path, what is loaded before it, the whole environment, the bundle and whether
  Bundler's variables are exported, and the file. An ending has a kind and a wait status (`Endings`): by itself, by the
  exception of a signal, by a TERM, INT or HUP, or by another signal; `unwound` says whether `ensure` and `at_exit`
  run. `DaemonEnds` may come at any point.
* **`TestFiles`**, **`TestRunner`** - the selection of the files, the worker threads
  over the shared counter (`nextFile`, `at`, `doing`, `results` are the locals and
  shared state of `run_once`), the daemon going and coming, and the watch loop with its snapshots.
* **`VmFork`** - the stdio locks and the scheduler's lock around one fork, the timer
  thread, and threads an app's preload left; `kid` is the child's copy of the locks. The
  symbols that boot looks up may be missing (`stdioSafe`, `timerSafe`).
* **`MCCommands`** - `main`'s dispatch: a behaviour is that of one command (`run`, `test`),
  of the daemon's forks, or one command line of flags. It lists the places, lines
  and trees.
* **`Commands_proofs`** - the theorems about these modules.

* **`SequenceFacts`** - what the proofs share: induction over numbers and sequences,
  recursion, folds, concatenations.

Operators whose comment begins with *Faulty variant* are not part of any
specification: each is a plausible mistake in one definition, and substituted for
it makes one named property fail. `PROJECT.json` pairs them under `mutants`.

## Runs

| run | instance | shows |
|---|---|---|
| `daemon_loop` | 3 clients, 2 pids; RUN, STOP, refused; symmetric | types and index, `TableMatchesRows`, `ChildHasItsRow`, `OwnStatus`, `NoOrphanAfterShutdown`, `KillsOnlyForCause` |
| `daemon_loop_live` | 2 clients, 2 pids, every command, fairness | `ClientDeathKillsJob`, `RequestIsTakenUp`, `EndedJobIsReported`, `StopStops`, `ImplementsService` |
| `daemon_loop_stdio` | 2 clients, 1 pid | violation of `StdioArrives` |
| `daemon_loop_leak` | 2 clients, 1 pid | violation of `StdioReleased` |
| `wire` | up to 3 fields of 0-2 units, reads of 9 units | `NeverMisread`, `RefusalHasCause`, `SmallCommandIsRead` |
| `wire_long` | up to 2 fields, reads of 6 units | violation of `CommandIsRead` |
| `lifecycle` | 2 runs with their daemons, 1 stop of 2 attempts | `OrphanOnlyByOverlap`, `PidfileNamesOwner`, `StaleSocketIsRecovered`, `StopIsFinal`, `RunEnds`, `StopReturns` |
| `lifecycle_stop` | the same, 5 attempts | violation of `StopRemovesOnlyStale` |
| `sqlite` | 2 objects of each class, 2 handles of each kind, fairness at exit | `NothingLeaks`, `DatabasesNeverDangle`, `DanglingOnlyAfterFailedStep`, `UndefinedOnlyWhenDangling`, `ExitReclaims` |
| `sqlite_close` | 1 object of each class | violation of `ClosedMeansNull` |
| `pg` | 2 connections, results, addresses and descriptors, 1 IO; texts of up to 2 characters; `Half` = 128, 3 digits | `NothingLost`, `HandlesNeverDangle`, `ArgumentsArrive`, `CellsAreExact` |
| `commands` | 17 places, 18 command lines, 2 daemons; 7 commands `test`, 2 workers, 2 edits; 3 FILEs, 2 threads; every flag line of up to 3 arguments | `WarmMatchesCold`, `FlagsArrive`, `EveryFileCounted`, `EditIsRerun`, `ChildNeverStuck` |

Every cfg turns deadlock checking off: the daemon may stop for good and every
client, run, stop, test and script ends.

**Bounds.** A client sends one command per connection, as every client of the
program does; what needs several commands needs several clients. The hard cases of the loop need a
row that is removed, a row behind it that moves up, and a third that is accepted in
the same tick: three clients. Two pids let one be reused while another child runs.
A vector of rows of any length is the proofs' business. In `wire` the chunk of 9
units lets the longest commands (15 units) need two reads, cut in every kind of
place as the lengths vary. In `lifecycle` two daemons and a stop make every pair of
actors that share a name; a third run would add a third pair of the same kind.
`Tries` is 2 there: attempts only repeat, and the violation run has the code's 5.
In `sqlite` an address is handed out once, so that a stale pointer is told from a new
owner of the same address; two statements on one connection, or on two, and a
statement of an execute call beside one of an object, are the ways to share. The code of
a `to_str` only closes objects, which is what can hurt the call around it.
In `pg` an address is handed out once too, while descriptor numbers are given out
again; a connection has one call in progress, which is enough
for another to close it meanwhile. Two characters are the shortest text in which an
escape has something before or after it (of every pair of a letter, `=`, blank, quote, backslash, a control
character that is a blank to libpq and one that is not, NUL, and bytes that are not UTF-8), and `Half` = 128, 8 bit integers, gives wrapping
all its corners; with `MaxDigits` = 3 a cell is checked for each of the 256. In `commands` two daemons and any
sequence of commands make every pair of a boot and a later run; a place differs from
another in one thing a daemon could carry over. Three arguments make a flag, its value and
whatever the parser takes the next one for. Two workers race for the counter
with one to three files, and two edits can fall into one run or into two.

**Fairness.** `DaemonLoop`: weak fairness of the daemon as a whole (it is one
thread that the kernel schedules; poll returns after 10 ms at the latest) and of a
client's reading of an answer or an EOF. No fairness for connecting, dying,
signals, crashes or the end of a script; `ClientDeathKillsJob` holds for a script
that never ends. `WireReader`: the daemon ticks, and a living client goes on
writing. `DaemonLifecycle`: a process that was started goes on, but no job has to end, and so
`StopReturns` has its exception; the deadline of
a run is strong fairness, since it passes for a run that polls for ever although
the poll step is enabled only now and then. `SqliteHandles`: only the end of the VM
is fair (`ruby_cleanup` goes through the whole heap); the collector need never run.
`TestRunner`: the threads are scheduled, a child that was asked ends or its daemon
does, and the watch loop wakes from its sleep. No fairness for the user's edits or the
daemon.

## What the checks found

1. **A job can lose its stdio** (`StdioArrives`). The scan reads the revents of a
   removed row for the row that moved up (`daemon.rs` 515). If that row was accepted in this
   tick, the one `recvmsg` that takes descriptors is spent on an empty socket
   (`protocol.rs` 250). The same step is harmless for a row with a child:
   `KillsOnlyForCause` is proved.
2. **A refused request leaks its stdio in the daemon** (`StdioReleased`), and
   whoever reads the other end of that pipe waits for the daemon.
3. **A command longer than one read is refused or never answered**
   (`CommandIsRead`). It is never misread (`NeverMisread`).
4. **The last resort of stop is not safe** (`StopRemovesOnlyStale`): a daemon that
   recovers the stale socket during the last wait loses it again and serves
   unreachable.

5. **A statement closed after an error dangles** (`ClosedMeansNull`):
   `finalize` reports the failed step again and `stmt_close` raises before it
   clears its pointer. It is the only cause (`DanglingOnlyAfterFailedStep`), and
   without it a freed handle reaches the library only if a Database is closed by the
   `to_str` of SQL given to it (`UndefinedOnlyWhenDangling`). Clearing the pointer first is not
   enough: the message is read from `Stmt.db`, which goes with its last statement
   if the Database was closed (the faulty variant `StmtCloseClearsFirst`).

Three more differences are in the models, where each is an exception of a property or needs none to be
seen; no run reports them:

* two runs that start together may not both succeed, which `concurrent_runs_serialize_through_daemon`
  (`test/daemon.rs` 94) asserts: a run whose daemon finds the other's socket and leaves, between the run's connect
  and its `try_wait`, fails with "daemon exited early" (`runtime.rs` 291; `RunEarly` after `Probe`, excused by
  `overlap` in `StaleSocketIsRecovered`);
* a script killed by the exception of a signal exits with 1: `child_error` (`child.rs` 49) exits with 1 whatever the
  exception is, the interpreter dies by the signal and `run_cold` exits with 128 and its number. `README.md` 28 of the
  repository claims the exit codes and signals of ruby (`ChildStatus`, the last clause of `KnownDifference`);
* the collector closes the socket of a live connection: `socket_io` makes an IO that closes its descriptor, where the
  gem it stands for clears `autoclose` (pg `lib.rs` 1090; `SocketIo` and `IoFree` of `PgHandles`).

`WarmMatchesCold` says what is the same through a daemon and through the interpreter, and by its exceptions
what is not. *Always* different, and stated by `InVm`: a warm script starts in a VM in which libraries
(`--preload`, `json` by default), an app's entry point and warmup and calisto's native modules are
loaded; and in an app's daemon the variables that Bundler exports are missing, for its setup ran at boot
and the child's environment was replaced after it (`child.rs` 168-176, 220: the second `require` is a no-op).
Different *under a condition* (`KnownDifference`, each clause as narrow as it is):

* a relative script name is looked for on the load path first (`child.rs` 293);
* `RUBYLIB`, the locale and `RUBYOPT` are those of the run that spawned the daemon, since ruby reads them at its boot;
* an app's daemon keeps the bundle it booted with although an engine inside the app has its own Gemfile;
* a Ruby that is not a version in `vendor` shares the directory of the pinned one (`runtime.rs` 221), and
  `vendor/current` is such a Ruby (`runtime.rs` 183);
* a generic daemon that has preloaded a library refuses a Gemfile that wants another version (`appconfig.rs` 424
  avoids it only when the run with the Gemfile comes first), and so `--preload` counts for the command that
  spawns the daemon only;
* a separator in a flag or in a value of the environment cuts it in two on the way to the child (`run.rs` 69,
  `protocol.rs` 441);
* calisto's own variables: eight are not sent (`protocol.rs` 417), so that the script does not see them;
  `CALISTO_RUN_FLAGS` and `CALISTO_LOAD_PATH` of the user's own take effect in the child (`child.rs` 180, 227) and are
  nothing to the interpreter;
* a script that dies by the exception of a signal (above), or is sent a TERM, INT or HUP: the child has their default
  action (`child.rs` 148-150), so the code is the same but no `ensure` and no `at_exit` runs.

The proof of `WarmIsCold` asked for the clauses of `vendor/current` and of the separators; TLC found a run
for each once a place with such a Ruby and a line with such a flag were added. Not among what a script
is shown, and so not compared: umask, resource limits and process group (the daemon's), whether YJIT is on, `DATA`,
the native shims on the load path, and variables that are not UTF-8, at which `env::vars` panics before anything is sent.

Other properties have exceptions of their own. `FlagsArrive` excludes values
that hold one of the two separators (`run.rs` 69; the comment at 49 names the other one).
`ArgumentsArrive` says which values of a connection Hash do not arrive as they are: bytes that are not UTF-8 arrive
as U+FFFD (`lib.rs` 488, 491), although a bind passes them unchanged, and a Hash with a NUL connects with no parameter at
all (`lib.rs` 499). `HandlesNeverDangle` admits that `exec` and its kin hold a PGconn that a `to_s`
of their arguments may close (`lib.rs` 772), as `UndefinedOnlyWhenDangling` admits it of
a Database that the `to_str` of its own SQL closes (sqlite `lib.rs` 487). The watch loop misses an edit made
during the first run, watches the files it started with, and does not bring a daemon
back; `calisto test` compares a relative filter with absolute names, so that a relative directory
selects nothing (`test.rs` 149).

`OrphanOnlyByOverlap` puts the window of the whole recovery scheme in one
sentence: only a daemon that had company while it started can be stranded.
`RequestIsTakenUp` and `EndedJobIsReported` carry one exception, after a crash of the daemon:
children keep copies of the connections open at their fork (`child.rs` 161
closes only their own), so the other clients see no EOF until those children end. `StopReturns` has the
same one: a stop that was accepted before a fork, and whose daemon then goes without reading it, waits in `read_line`, which has
no timeout (`runtime.rs` 407), as long as that job, or what it has forked, runs.

## Proofs

`DaemonLoop_proofs` proves, for every set of clients and pids, from the two
assumptions on constants (`OpsAssumption`, `NobodyAssumption`):

* `TypeCorrect`: `Spec => []TypeOK`. The interesting conjunct is
  `i \in 1..Len(clients) + 1` under `RemoveAt`.
* `BookkeepingHolds`: `Spec => []Bookkeeping`, the inductive invariant. The three
  invariants in it are not inductive alone: that a connection is accepted once needs
  that the queue has no duplicates and that a client that has not connected is
  nowhere (`Connect` puts it in); that nothing survives the exit needs that
  the shutdown leaves no child behind its index. The argument goes by what a step
  does to the vector: nothing (`BookkeepingUnmoved`), update a row in place
  (`BookkeepingFill`), remove a row with its child (`BookkeepingDropRow`, from
  facts about `RemoveAt` proved in `RemoveAtFacts` and `DropRowKeepsOthers`), and
  the actions that change more, one lemma each.
* `DescriptorsHaveRows`, `ChildrenAreAccounted`, `ShutdownLeavesNoChild`: its parts.
* `KillsAreDeserved`: `Spec => KillsOnlyForCause`, an action property, from the same
  invariant: the row that is removed names its own client's child.

`DaemonService_proofs` goes on from there with the same assumptions:

* `StatusIsOwn`: `Spec => []OwnStatus`. What makes it inductive is `Dialogue`: nobody is
  answered before asking, a command that is still in the socket has neither a reply nor
  a job, and a client has one child from the fork until its status is sent.
* `LoopImplementsService`: `Spec => ImplementsService`. A step of the loop is quiet for
  the service, an answer, the sending of a command, or a fork. The two invariants tell
  which, and each kind maps to a step of `RequestService` or to a stutter.

`SqliteHandles_proofs` proves, for any sets of objects and handles, from
`HandlesAssumption`, every safety property of the `sqlite` run: `HandlesTyped`,
`NoHandleIsLost`, `DatabasesAreSafe`, `DanglingHasOneCause`, `UndefinedHasOneCause`.
`IInv` adds to the three ownership properties that the library's two tables agree
(`LibraryAgrees`: a live statement keeps its connection open or a zombie), that a
Statement's two pointers come from one prepare and are shared with no other
(`StatementsOwn`), and that the object an execute call works on stays referred to
(`CallHolds`; without it a collection in the middle of a call could take the handle
away; while the SQL is converted the connection is the call's own only as long as it is
open, so `UndefinedHasOneCause` names two causes). Each action has a lemma with one step per part. Type correctness needs
`IInv` too: that an execute call has a connection is `StatementsOwn`.

`DaemonLifecycle_proofs` proves every safety property of the `lifecycle` run for any runs,
stops and attempts, from `TriesAssumption` and `NoneAssumption`: `LifecycleTyped`,
`OrphansHadCompany`, `PidfileIsTrue`, `StaleSocketsAreRecovered`, `StoppedMeansStopped`. The invariant is the
argument of the code's comments made exact. `Noted`: a daemon that starts and is not in
`overlap` has no rival. Hence what it bound is still there when it gets to serve (`Owns`), and no other
process is about to remove a name (`Undisturbed`); whoever comes later finds the socket
connectable and turns away. `Answers` adds what a stop knows: a BYE comes from a daemon
that has left its loop, and a daemon it asked before is leaving. One lemma for each kind of process, one
step for each action.

`SequenceFacts` has what the library does not give: its induction theorems take a
predicate as a parameter, which no backend can instantiate. Here induction is over a *set* (`NatSetInduction`,
`BoundedInduction`, `AppendInduction`) and follows from the fact that `<` is well-founded on the naturals.
From it: a function defined by `CHOOSE` and recursion exists and is the expected one (`Iteration`,
`FoldExists`), hence `FlattenSeq` lays its parts side by side (`FlattenLayout`) and `FoldLeft` obeys
`fold(Append(s, e)) = op(fold(s), e)` (`IsFold`, `FoldByElement`). Each module shows of its own folds that
they are instances of `IsFold`, and goes on by `AppendInduction`.

`WireReader_proofs` proves `ReaderTypeOK`, `ReaderNeverMisreads` and `ReaderRefusalHasCause` for payloads of any
length, any number of fields and any size of a read, from `LengthsAssumption` and `SizeAssumption`. What is
in `out`, `wire` and `buf` is always the end of the command (`Stream`, `Part`), so the parser is at one place of
it, `Position`. A call that returns `Partial` forgets the lines it drained, and the next one starts in the middle. The places where
that can be are few: the beginning, before a field, behind its `$len` line (`Resumed`, `Before`, `Inside`), and at none
but the first does the buffer begin like a command, which is `Parse`; `Taken` says that the fields read so far are the first fields of
the command. `InOnePiece` is the part that `RefusalHasCause` needs: a command that fits in a read moves in one
piece, and nothing cuts it once its header is there.

`Commands_proofs` holds what is proved of `MCCommands`, in four parts.

* `RunnerTypeCorrect` and `FilesAreCounted`, for any number of workers and files, from `TestAssumption`. What makes it
  inductive is where a file can be: handed out and held by one worker, or with one result, or not yet reached by the
  counter (`Reached`, `OneEach`), with a worker at work until the counter is past the end (`ThreadsOut`).
* `ForkTypeCorrect` and `ChildIsFree` for any number of FILEs and threads, from `ForkAssumption`: the FILEs below `next` are the
  forking thread's (`FilesPrepared`) and a stopped timer holds nothing (`TimerKnown`), so a copy made then
  has no lock of another thread (`KidKnown`).
* `FlagsArriveAlways`: for texts over any set of tokens that has the literals of the segments, and any command
  line. `Split` gives back the segments that `JoinTexts` put together if none holds the separator; `ParseSegment`,
  folded over what `Segments` wrote, gives back the flags; `ParseArg` keeps the flags well formed. `FlagsArriveSpec` is the
  property of the run, which tries two environments; `FlagsArriveAlways` is about any.
* `CommandsTyped` and `WarmIsCold`, for any places, lines and tokens, from `RunAssumption` and `PinAssumption`: the
  first says what texts are made of, that endings have a known kind and a status of 16 bits, and that `Unset` is not a text; the second that the
  pinned version is one. The invariant: a directory names the version its daemon was booted with (`Booted`), a job is made
  of texts and asks for a daemon of its own Ruby (`JobOK`), and a script that was served saw what the child of the daemon in
  its directory shows (`Served`). The rest is about two functions of a job (`ChildIsCold`: the child's outcome is the
  interpreter's with the marks of the daemon's VM, `InVm`): `ruby` comes back from
  its arguments to the flags as the child does from the variable (`ColdStarts`), both put the directories of `-I` in the
  same order although one unshifts them one by one (`UnshiftedPath`), the environment arrives through its list of pairs
  (`EnvironmentArrives`), a status that is told is the one that was waited for (`StatusesAgree`), and one directory means one
  Ruby (`OneRuby`).

`Pg_proofs` proves, for any sets of objects, addresses and descriptors, from
`PgAssumption`, the three invariants of the handles: `TypeCorrect`, `NoHandleIsLost`,
`NoHandleDangles`. `ConnsOwned` and `ResultsOwned` say who owns what is live, and `CallsOwned` that the pointer a call holds was its own connection's, which is
what keeps the collector out of it. These are about `Spec` of `PgHandles`; `RunIsSpec` carries them to the run. `EveryHashArrives` is about `PgText`,
for values of any length: what `conninfo_quote` writes of a value (`EscapedFacts`) and what
libpq reads of it (`BareRead`, `EscapedRead`) are folds over the same characters; what is not UTF-8 is replaced
before and nothing else is (`LossyFacts`); a pair is then stored, or will be by the
blank that ends its bare value (`PairRead`), and a NUL is in the string exactly if it is in a value (`JoinedNul`).
`EveryCellIsExact` holds for any `Half` and `MaxDigits`, from `PgTextAssumption` and from `NilAssumption`, that nil is none of the
texts and values of a cell. The loop of `parse_i64_raw` and the number the server wrote are folds over the same digits, and are
equal up to wrapping after each of them (`ReadIsNumber`); two integers of the machine that are equal up to
wrapping are equal (`WrappedSame`), which is why the least integer survives a negation that overflows (`NegativeParsed`).

Every invariant of a passing run is proved. Only model-checked are the temporal properties: `ExitReclaims`, `EditIsRerun`,
`SmallCommandIsRead`, the liveness of `daemon_loop_live` and of `lifecycle`, which
are out of this prover's reach because they rest on fairness.

## Not modelled, and the plan

Left out of what is modelled: inheritance of other clients' stdio by children (a
child forked while another row's stdio is open keeps a copy), 200 ms of blocking per
kill, a full listen queue, failures of `accept`, the text of replies and output.
Signals other than TERM, HUP and KILL do not change the state of the daemon. The VM
boot is one step that succeeds or ends the process. A thread in `VmFork` holds one lock at a time, so that a fork blocked by
two threads that wait for each other's is not covered. In `RunCommand`: two app directories with one hash, the
order of the native shims on the load path, what `-c` does with `-r`, what an app's entry point and warmup do to the
VM (which files they are is part of what a script is shown), and a directory that changes while a command reads it. In `TestRunner` a
snapshot is read at once, and codes other than 0 and 1 are 1. In `PgHandles`: an `initialize` of one object
inside another of the same object, methods that only read (they change no state, and a
closed handle raises), allocations of the Rust side that a raise leaks. In
`PgText` floats, and a debug build, where the arithmetic of the least integer panics. In `SqliteHandles` what a `to_str` does beside closing objects, and a
String subclass with a `bytesize` of its own.

Not modelled: the digests of `calisto-hash`, base64 and the URL and HTML codecs
(sequential functions over bytes, with test vectors), the shims (Ruby source text and a
directory search), the tooling commands and the doctor (an argument list or a report), `calisto-build`
(a sequence of file operations), and the wrappers of `calisto-ruby` over the C API.

What is left, in this order:

1. The exclusive creation of `exec.rb` and of the shims by concurrent commands.
2. `SqliteHandles`: calls of any method from a `to_str`, as a stack of calls.
