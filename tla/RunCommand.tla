----------------------------- MODULE RunCommand -----------------------------
(***************************************************************************)
(* `calisto run` and `calisto exec`, one after the other over the daemons  *)
(* they leave behind: from the command line to the exit code, through the  *)
(* interpreter itself (--cold) or through a child of a warm daemon         *)
(* (run.rs, exec.rs, protocol.rs 345-475, child.rs 130-330).               *)
(*                                                                         *)
(* A run reads the world it is started in, its place: files, environment,  *)
(* Gemfile, calisto.toml.  What of it counts is what a script can observe: *)
(* the Ruby and its settings, $VERBOSE, the encoding, the user's load      *)
(* path, the libraries required and those loaded before, the bundle, the   *)
(* environment, the file and how it ends.                                  *)
(***************************************************************************)
EXTENDS RubyChoice, FiniteSets

CONSTANTS
  Places,      \* the worlds a command may be started in
  Lines,       \* the command lines: <<"run", arguments>> or <<"exec", words>>
  Tokens,      \* what texts are made of
  MaxDaemons   \* bound on the daemons alive together

\* How a script ends, and the wait status it leaves to the interpreter:
\*   exit   by itself, or by an exception other than those of a signal
\*   raise  by an uncaught SignalException or Interrupt: raised by the script,
\*          or by Ruby's own handlers of QUIT, ALRM, USR1 and USR2
\*   term   by a SIGINT, SIGTERM or SIGHUP sent to it
\*   crash  by a signal that Ruby does not handle
Endings == [by : {"exit", "raise", "term", "crash"}, status : {w \in Nat : w < 65536}]

ASSUME RunAssumption ==
  /\ MaxDaemons \in Nat \ {0}
  /\ Literals \subseteq Tokens /\ Unset \notin Tokens
  /\ \A line \in Lines : line[1] = "run" => line[2] \in Seq(Arguments(Tokens))
  /\ \A p \in Places :
       /\ p.env \in [DOMAIN p.env -> Seq(Tokens)]
       /\ p.dotenv \in Seq(Tokens \X Seq(Tokens))
       /\ \A s \in DOMAIN p.ends : p.ends[s] \in Endings

VARIABLES
  runPc,     \* "idle", "ready", "connected", "ended"
  job,       \* what the command line came to
  daemons,   \* runtime directory -> how its daemon was booted
  outcome    \* what the last script saw, and its exit code

runVars == <<runPc, job, daemons, outcome>>

None == [how |-> "none"]

-----------------------------------------------------------------------------
(* cmd_run, cmd_exec: from the command line to a job.                       *)

Shim == <<"/", "exec.rb">>
Refused == [how |-> "refused"]

\* What Ruby reads of its environment when it starts, RUBYLIB apart: LANG stands
\* for the variables of the locale, RUBYOPT for those that change the VM.
VmVars == {"LANG", "RUBYOPT"}
Settings(env) == [v \in VmVars |-> EnvText(env, v)]

\* The boot of the daemon a job asks for: its Ruby, the libraries, the app's
\* files and the bundle it loads, and what it takes from its own environment,
\* which is that of the run that spawns it.
Boot(ruby, preload, entry, warmup, bundle, env) ==
  [ruby |-> ruby, preload |-> preload, bundle |-> bundle,
   entry |-> IF entry # NoText THEN entry ELSE EnvText(env, "CALISTO_APP_PRELOAD"),
   warmup |-> IF warmup # NoText THEN warmup ELSE EnvText(env, "CALISTO_APP_WARMUP"),
   rubylib |-> EnvText(env, "RUBYLIB"), vm |-> Settings(env)]

\* connect_or_spawn_app_daemon_in fails on a bad override before it connects.
AppDaemonRefused(app, env) == "error" \in {AppCompact(app, env), AppYjit(app, env)}

\* Faulty variant: an app's daemon preloads libraries too.
TargetPreloading(app, env, ruby, preload) ==
  IF HasAppDaemon(app)
  THEN [dir |-> AppDir(app, "", ruby, env),
        boot |-> Boot(ruby, DefaultPreload, app.preload, AppWarmup(app, env),
                      GemfileFor(env, app.gemfile), env),
        refused |-> AppDaemonRefused(app, env)]
  ELSE [dir |-> DaemonDirFor(ruby, env), refused |-> FALSE,
        boot |-> Boot(ruby, preload, NoText, NoText, Unset, env)]

\* The daemon of a job: the app's, or the generic one with the given preload.
Target(app, env, ruby, preload) ==
  IF HasAppDaemon(app)
  THEN [dir |-> AppDir(app, "", ruby, env),
        boot |-> Boot(ruby, <<>>, app.preload, AppWarmup(app, env),
                      GemfileFor(env, app.gemfile), env),
        refused |-> AppDaemonRefused(app, env)]
  ELSE [dir |-> DaemonDirFor(ruby, env), refused |-> FALSE,
        boot |-> Boot(ruby, preload, NoText, NoText, Unset, env)]

\* exec_argv: the shim with the words of the command, in the root of the app
\* and without Ruby flags.
ExecJob(p, env, app, ruby, cold, words) ==
  [how |-> IF cold THEN "cold" ELSE "warm", op |-> "RUN", subject |-> Shim,
   args |-> words, flags |-> NoFlags, env |-> env, ruby |-> ruby, place |-> p,
   gemfile |-> GemfileFor(env, IF app = Unset THEN p.gemfile ELSE app.gemfile),
   target |-> Target(app, env, ruby, RunPreload(app, env, GemfileFor(env, p.gemfile)))]

\* A file or the codes of -e, in the directory of the command.
ScriptJob(p, env, app, ruby, s) ==
  LET eval == s.evals # <<>>
      preload == IF s.preload # NoText THEN NormalizePreload(s.preload)
                 ELSE RunPreload(app, env, GemfileFor(env, p.gemfile))
  IN  [how |-> IF s.cold THEN "cold" ELSE "warm",
       op |-> IF eval THEN "EVAL" ELSE "RUN",
       subject |-> IF eval THEN JoinTexts(s.evals, "\n") ELSE s.rest[1],
       args |-> IF eval THEN s.rest ELSE Tail(s.rest),
       flags |-> s.flags, env |-> env, ruby |-> ruby, place |-> p,
       gemfile |-> GemfileFor(env, p.gemfile), target |-> Target(app, env, ruby, preload)]

\* cmd_run.
RunJob(p, env, app, ruby, line) ==
  LET s == ParseLine(line)
      named == s.evals = <<>> /\ (s.rest = <<>> \/ s.rest[1] \notin p.files)
      words == IF app = Unset THEN Unset
               ELSE ScriptCommand(app, IF s.rest = <<>> THEN <<"start">> ELSE s.rest[1])
  IN  CASE s.pc = "refused" -> Refused
        [] s.pc = "version" -> IF ruby = Unset THEN Refused ELSE [how |-> "version"]
        [] s.pc = "rest" /\ (app # Unset => app.ok) /\ ruby # Unset /\ ~named ->
             ScriptJob(p, env, app, ruby, s)
        [] s.pc = "rest" /\ (app # Unset => app.ok) /\ ruby # Unset /\ named
             /\ words \notin {Unset, <<>>} /\ ~AnyFlag(s.flags) ->
             ExecJob(p, env, app, ruby, s.cold,
                     words \o IF s.rest = <<>> THEN <<>> ELSE Tail(s.rest))
        [] OTHER -> Refused

\* cmd_exec.
ExecCommand(p, env, app, ruby, words) ==
  IF (app # Unset /\ ~app.ok) \/ ruby = Unset \/ words = <<>> THEN Refused
  ELSE ExecJob(p, env, app, ruby, FALSE, words)

\* The environment after load_dotenv; ruby -v looks no further than its own.
JobFor(p, line) ==
  LET env == LoadDotenv(p.env, p.dotenv)
      asksVersion == line[1] = "run" /\ ParseLine(line[2]).pc = "version"
      app == LoadApp(p)
      ruby == ResolveRuby(p, IF asksVersion THEN p.env ELSE env)
  IN  IF line[1] = "run" THEN RunJob(p, env, app, ruby, line[2])
      ELSE ExecCommand(p, env, app, ruby, line[2])

-----------------------------------------------------------------------------
(* How a script ends.                                                       *)

Exited(w) == w % 128 = 0

\* wait_status_code: an exit code, or 128 and the signal.
WaitStatusCode(w) == IF Exited(w) THEN (w \div 256) % 256 ELSE 128 + (w % 128)

\* exit_code, of the standard library's ExitStatus.
ExitCode(w) == IF Exited(w) THEN w \div 256 ELSE 128 + (w % 128)

\* The script stopped at a stage before its own code.
Stopped(stage, status) == [stage |-> stage, status |-> status]

\* The first of the directories that has the file, else the working directory.
FoundIn(place, subject, path) ==
  LET has == SelectSeq(path, LAMBDA d : <<d, subject>> \in place.onPath)
  IN  IF subject[1] # "/" /\ has # <<>> THEN has[1] ELSE <<"cwd">>

\* A script that starts: what it is given, what it is shown of the world, and
\* how it ends: its exit code, and whether its ensure and at_exit blocks ran.
Seen(j, shown, status, unwound) ==
  [stage |-> "script", shown |-> shown, status |-> status, unwound |-> unwound,
   op |-> j.op, subject |-> j.subject, args |-> j.args, libs |-> j.flags.libs]

Own == {"CALISTO_RUNTIME_DIR", "CALISTO_SOCKET", "CALISTO_PIDFILE", "CALISTO_PRELOAD",
        "CALISTO_COMPACT", "CALISTO_YJIT", "CALISTO_WARMUP", "CALISTO_RUBY"}

Libpath(t) == IF t = NoText THEN <<>> ELSE <<t>>
EndOf(place, subject) ==
  IF subject \in DOMAIN place.ends THEN place.ends[subject]
  ELSE [by |-> "exit", status |-> 0]
MissingLib(j) == ~(Range(j.flags.libs) \subseteq j.place.libs)

-----------------------------------------------------------------------------
(* The child of a warm daemon.                                              *)

\* send_run_request: the client's environment without calisto's own variables;
\* child_main replaces the daemon's by it, and takes the flags out.
RequestEnv(env) ==
  [v \in DOMAIN env \ (Own \cup {"CALISTO_RUN_FLAGS"}) |-> Arriving(env[v])]

\* apply_run_verbose.
ChildVerbose(f) ==
  CASE f.verbose \in {-1, 2} -> "true"
    [] f.verbose = 0 -> "nil"
    [] OTHER -> "false"

\* A CALISTO_LOAD_PATH, calisto test's or the user's: each of its directories
\* that is new goes to the front.
WithOwnPath(env, path) ==
  IF "CALISTO_LOAD_PATH" \notin DOMAIN env THEN path
  ELSE FoldLeft(LAMBDA ds, d : IF d = <<>> \/ Contains(ds, d) THEN ds ELSE <<d>> \o ds,
                path, Split(Arriving(env["CALISTO_LOAD_PATH"]), ":"))

\* The -I directories before that, unshifted from the last to the first; the
\* rest of the load path is the daemon's.
ChildLoadPath(f, env, boot) ==
  FoldLeft(LAMBDA path, d : <<d>> \o path, WithOwnPath(env, Libpath(boot.rubylib)),
           Reverse(f.dirs))

\* Bundler.setup in a VM that has loaded libraries before: it refuses when the
\* Gemfile wants another version of one ("already activated").
Collides(boot, j) ==
  j.gemfile # Unset /\ boot.bundle = Unset /\ boot.preload # <<>>

\* The bundle of the VM is the one it booted with, else that of the directory.
ChildBundle(boot, j) == IF boot.bundle # Unset THEN boot.bundle ELSE j.gemfile

\* What the VM of the daemon has loaded before the fork: libraries, the app's
\* files, and calisto's own modules with the gems in their directory.
Loaded(boot) ==
  [libs |-> boot.preload, entry |-> boot.entry, warmup |-> boot.warmup, native |-> TRUE]

\* child_error: whatever the exception is, the report and exit 1.
ChildStatus(end) == IF end.by = "raise" THEN 1 ELSE WaitStatusCode(end.status)

\* child_main.  Bundler.setup leaves its variables in the environment for the
\* script's own commands, unless the daemon has run it before: then they went
\* with the daemon's environment.  SIGINT, SIGTERM and SIGHUP have their default
\* action, which runs no block of the script.
Child(boot, j) ==
  LET f == ChildFlags(j.flags, j.env)
      path == ChildLoadPath(f, j.env, boot)
      end == EndOf(j.place, j.subject)
  IN  CASE f.enc \notin j.place.encodings \cup {NoText} -> Stopped("encoding", 1)
        [] f.enc \in j.place.encodings \cup {NoText} /\ f.check ->
             Stopped("syntax", IF j.subject \in j.place.broken THEN 1 ELSE 0)
        [] OTHER ->
             IF Collides(boot, j) THEN Stopped("bundler", 1)
             ELSE IF MissingLib([j EXCEPT !.flags = f]) THEN Stopped("require", 1)
             ELSE Seen([j EXCEPT !.flags = f],
                       [ruby |-> boot.ruby, vm |-> boot.vm, verbose |-> ChildVerbose(f),
                        enc |-> f.enc, path |-> path, loaded |-> Loaded(boot),
                        env |-> RequestEnv(j.env), bundle |-> ChildBundle(boot, j),
                        exported |-> j.gemfile # Unset /\ boot.bundle = Unset,
                        file |-> IF j.op = "EVAL" THEN <<"-e">>
                                 ELSE FoundIn(j.place, j.subject, path)],
                       ChildStatus(end), end.by \in {"exit", "raise"})

-----------------------------------------------------------------------------
(* The interpreter itself.                                                  *)

\* run_cold, run_cold_eval: the arguments before the script, without the
\* directory of calisto's own shims.
ColdArguments(j) ==
  LET f == j.flags
      opt(o, t) == [opt |-> o, att |-> t]
      each(o, ts) == [i \in DOMAIN ts |-> opt(o, ts[i])]
  IN  When(f.verbose = -1, opt("-w", <<>>))
      \o When(f.verbose \in 0 .. 2, opt("-W", Number(f.verbose)))
      \o When(j.gemfile # Unset, opt("-r", <<"bundler/setup">>))
      \o When(f.enc # NoText, opt("-E", f.enc))
      \o each("-I", f.dirs) \o each("-r", f.libs)
      \o When(f.check, opt("-c", <<>>))

\* ruby itself, reading those arguments (-c skips what -r asks for).
RubyStart ==
  [verbose |-> "false", enc |-> NoText, dirs |-> <<>>, libs |-> <<>>, check |-> FALSE]
RubyArg(r, a) ==
  CASE a.opt = "-w" \/ (a.opt = "-W" /\ a.att = <<"2">>) -> [r EXCEPT !.verbose = "true"]
    [] a.opt = "-W" /\ a.att = <<"0">> -> [r EXCEPT !.verbose = "nil"]
    [] a.opt = "-W" /\ a.att = <<"1">> -> [r EXCEPT !.verbose = "false"]
    [] a.opt = "-I" -> [r EXCEPT !.dirs = Append(@, a.att)]
    [] a.opt = "-r" -> [r EXCEPT !.libs = Append(@, a.att)]
    [] a.opt = "-E" -> [r EXCEPT !.enc = a.att]
    [] a.opt = "-c" -> [r EXCEPT !.check = TRUE]

Unloaded == [libs |-> <<>>, entry |-> NoText, warmup |-> NoText, native |-> FALSE]

\* The interpreter has the whole environment, and dies by the signal of an
\* exception that it does not rescue.
Cold(j) ==
  LET r == FoldLeft(RubyArg, RubyStart, ColdArguments(j))
      bundled == Contains(r.libs, <<"bundler/setup">>)
      libs == IF j.gemfile # Unset THEN Tail(r.libs) ELSE r.libs   \* those of the user
      path == r.dirs \o Libpath(EnvText(j.env, "RUBYLIB"))
      asked == [j EXCEPT !.flags.libs = libs]
      end == EndOf(j.place, j.subject)
  IN  CASE r.enc \notin j.place.encodings \cup {NoText} -> Stopped("encoding", 1)
        [] r.enc \in j.place.encodings \cup {NoText} /\ r.check ->
             Stopped("syntax", IF j.subject \in j.place.broken THEN 1 ELSE 0)
        [] OTHER ->
             IF MissingLib(asked) THEN Stopped("require", 1)
             ELSE Seen(asked,
                       [ruby |-> j.ruby, vm |-> Settings(j.env), verbose |-> r.verbose,
                        enc |-> r.enc, path |-> path, loaded |-> Unloaded,
                        env |-> j.env, bundle |-> IF bundled THEN j.gemfile ELSE Unset,
                        exported |-> bundled /\ j.gemfile # Unset,
                        file |-> IF j.op = "EVAL" THEN <<"-e">> ELSE <<"cwd">>],
                       ExitCode(end.status), end.by # "crash")

-----------------------------------------------------------------------------
(* The steps of a command.                                                  *)

RunInit == runPc = "idle" /\ job = None /\ daemons = <<>> /\ outcome = None

\* The command is read; what refuses it, and ruby -v, end it at once.
Start(p, line) ==
  /\ runPc = "idle"
  /\ job' = JobFor(p, line)
  /\ IF job'.how \in {"cold", "warm"}
     THEN runPc' = "ready" /\ outcome' = None
     ELSE /\ runPc' = "ended"
          /\ outcome' = Stopped(job'.how, IF job'.how = "refused" THEN 1 ELSE 0)
  /\ UNCHANGED daemons

RunCold ==
  /\ runPc = "ready" /\ job.how = "cold"
  /\ outcome' = Cold(job) /\ runPc' = "ended"
  /\ UNCHANGED <<job, daemons>>

\* connect_or_spawn_app_daemon_in: a bad override of [run], before connecting.
OverrideRefused ==
  /\ runPc = "ready" /\ job.how = "warm" /\ job.target.refused
  /\ outcome' = Stopped("connect", 1) /\ runPc' = "ended"
  /\ UNCHANGED <<job, daemons>>

Connecting == runPc = "ready" /\ job.how = "warm" /\ ~job.target.refused

\* A daemon answers in the directory: it is used, however it was booted.
Connect ==
  /\ Connecting /\ job.target.dir \in DOMAIN daemons
  /\ runPc' = "connected"
  /\ UNCHANGED <<job, daemons, outcome>>

Spawn ==
  /\ Connecting /\ job.target.dir \notin DOMAIN daemons
  /\ Cardinality(DOMAIN daemons) < MaxDaemons
  /\ daemons' = [d \in DOMAIN daemons \cup {job.target.dir} |->
                   IF d = job.target.dir THEN job.target.boot ELSE daemons[d]]
  /\ runPc' = "connected"
  /\ UNCHANGED <<job, outcome>>

\* No libruby, a boot that fails, or one that takes longer than 15 seconds.
SpawnFails ==
  /\ Connecting /\ job.target.dir \notin DOMAIN daemons
  /\ outcome' = Stopped("connect", 1) /\ runPc' = "ended"
  /\ UNCHANGED <<job, daemons>>

Serve ==
  /\ runPc = "connected"
  /\ IF job.target.dir \in DOMAIN daemons
     THEN outcome' = Child(daemons[job.target.dir], job)
     ELSE outcome' = Stopped("closed", 1)
  /\ runPc' = "ended"
  /\ UNCHANGED <<job, daemons>>

\* calisto stop, a signal, a crash: at any point of a command.
DaemonEnds(d) ==
  /\ d \in DOMAIN daemons
  /\ daemons' = [e \in DOMAIN daemons \ {d} |-> daemons[e]]
  /\ UNCHANGED <<runPc, job, outcome>>

\* main: the process exits with the code, and another command may follow.
Exit ==
  /\ runPc = "ended"
  /\ runPc' = "idle" /\ job' = None /\ outcome' = None
  /\ UNCHANGED daemons

RunNext ==
  \/ \E p \in Places, line \in Lines : Start(p, line)
  \/ RunCold \/ OverrideRefused \/ Connect \/ Spawn \/ SpawnFails \/ Serve \/ Exit
  \/ \E d \in DOMAIN daemons : DaemonEnds(d)

-----------------------------------------------------------------------------
(* Properties.                                                              *)

\* A command is at one of its points with the job it needs there, and no
\* daemon of an app is booted with the default libraries (appconfig.rs 424).
RunTypeOK ==
  /\ runPc \in {"idle", "ready", "connected", "ended"}
  /\ runPc = "idle" <=> job = None
  /\ runPc = "ended" <=> outcome # None
  /\ runPc = "connected" => job.how = "warm"
  /\ \A d \in DOMAIN daemons : d[2] = "apps" => daemons[d].preload = <<>>

\* Variables that calisto keeps from a warm script, or reads on its way to it.
Reserved == Own \cup {"CALISTO_RUN_FLAGS", "CALISTO_LOAD_PATH"}

\* Where a warm run is not the cold one: the script's name is found on the load
\* path before the directory (child.rs 293); the daemon was booted by a run
\* with another RUBYLIB, locale or RUBYOPT, for another Gemfile, or for a Ruby
\* that shares its directory without being a version in vendor (vendor/current
\* among them); it had preloaded libraries when a Gemfile came; a separator is
\* in a text of the flags or of the environment; one of calisto's variables is
\* in the user's environment (protocol.rs 417, child.rs 180, 227); or the
\* script ends by the exception of a signal, or by a signal that Ruby turns
\* into one (child.rs 41, 148).
KnownDifference(boot, j) ==
  \/ j.op = "RUN"
     /\ FoundIn(j.place, j.subject, ChildLoadPath(j.flags, j.env, boot)) # <<"cwd">>
  \/ boot.rubylib # EnvText(j.env, "RUBYLIB") \/ boot.vm # Settings(j.env)
  \/ boot.bundle # Unset /\ boot.bundle # j.gemfile
  \/ boot.ruby # j.ruby /\ ~(Vendored(boot.ruby) /\ Vendored(j.ruby))
  \/ Collides(boot, j)
  \/ SomeSeparated(j.flags) \/ \E v \in DOMAIN j.env : RS \in Range(j.env[v])
  \/ DOMAIN j.env \cap Reserved # {}
  \/ EndOf(j.place, j.subject).by \in {"raise", "term"}

\* The outcome o with the marks of the VM it is seen in: what is loaded before
\* the script, and bundler's variables if the daemon's own boot set them.
InVm(boot, o) ==
  IF o.stage # "script" THEN o
  ELSE [o EXCEPT !.shown.loaded = Loaded(boot),
                 !.shown.exported = @ /\ boot.bundle = Unset]

\* A script sees the same through a warm daemon as through the interpreter but
\* for what the daemon has loaded, whatever commands, of whatever projects,
\* used the daemons before it: the parity that run.rs 336-344 and child.rs
\* 130-133 promise.
WarmMatchesCold ==
  runPc = "ended" /\ job.how = "warm" /\ outcome.stage \notin {"connect", "closed"}
  /\ job.target.dir \in DOMAIN daemons /\ ~KnownDifference(daemons[job.target.dir], job)
  => outcome = InVm(daemons[job.target.dir], Cold(job))
=============================================================================
