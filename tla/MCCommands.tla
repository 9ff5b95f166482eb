----------------------------- MODULE MCCommands -----------------------------
(***************************************************************************)
(* The commands of calisto for TLC.  main dispatches on the first argument *)
(* (main.rs 52-91); a behaviour is one of                                  *)
(*   run    commands run and exec, one after the other (RunCommand);       *)
(*   test   one command test, with or without --watch (TestRunner);        *)
(*   daemon the forks of the daemon behind them (VmFork);                  *)
(*   flags  one command line and the trip of its flags (RunFlags).         *)
(***************************************************************************)
EXTENDS RunCommand, TestRunner, VmFork

VARIABLES
  command,   \* which of the four
  sample     \* the command line of "flags"

Text(s) == <<s>>
W(t) == [opt |-> "", att |-> t]
O(o) == [opt |-> o, att |-> <<>>]

-----------------------------------------------------------------------------
(* The places.  All changes are to a directory with one script, s.rb.       *)

Plain ==
  [toml |-> Unset, files |-> {<<"s.rb">>}, root |-> Unset, rootGemfile |-> Unset,
   gemfile |-> Unset, gemfiles |-> [g \in {<<"G1">>, <<"G2">>} |-> <<>>],
   rubyVersion |-> Unset, versionFile |-> Unset, installed |-> {"3.4", "3.3"},
   current |-> FALSE, env |-> [v \in {"USER"} |-> Text("u")], dotenv |-> <<>>,
   encodings |-> {<<"utf-8">>}, broken |-> {}, onPath |-> {<< <<"lib">>, <<"s.rb">> >>},
   libs |-> {<<"set">>}, ends |-> [s \in {<<"s.rb">>} |-> [by |-> "exit", status |-> 3 * 256]]]

Bundled == [Plain EXCEPT !.gemfile = <<"G1">>, !.ends[<<"s.rb">>] = [by |-> "crash", status |-> 128 + 11]]

App ==
  [Bundled EXCEPT !.root = <<"app">>, !.rootGemfile = <<"G1">>,
                  !.files = @ \cup {<<"env.rb">>},
                  !.dotenv = << <<"USER", Text("dotenv")>>, <<"DATABASE_URL", Text("db")>> >>,
                  !.toml = << Quoted("preload", <<"env.rb">>), Bare("compact", <<"true">>),
                              Section("scripts"), Quoted("start", <<"s.rb", " ", "'", "a", " ", "b", "'">>),
                              Quoted("start", <<"never">>), Quoted("open", <<"'">>) >>]

\* The app after its .ruby-version changed, or its Gemfile asked for a Ruby.
OtherRuby == [App EXCEPT !.rubyVersion = "3.3"]
GemfileAsks ==
  [App EXCEPT !.gemfiles[<<"G1">>] = << <<"other", "x">>, <<"version", "3.3">> >>]
NotInstalled == [App EXCEPT !.rubyVersion = "3.2"]

\* An engine inside the app, with a Gemfile of its own.
Engine == [App EXCEPT !.gemfile = <<"G2">>]

Scripts ==
  [Plain EXCEPT !.root = <<"tools">>, !.files = {},
                !.toml = << Section("scripts"), Quoted("start", <<"s.rb">>), Bare("yjit", <<"x">>) >>]
BadToml == [Scripts EXCEPT !.toml = << Bare("preload", <<"env.rb">>) >>]
JunkToml == [Scripts EXCEPT !.toml = << Junk, Quoted("preload", <<"env.rb">>) >>]

\* Environments: overrides of operation, another Ruby, a load path.
Override == [App EXCEPT !.env = @ @@ ("CALISTO_COMPACT" :> Text("maybe"))]
WithLibs == [Plain EXCEPT !.env = @ @@ ("RUBYLIB" :> <<"lib">>)]
Elsewhere ==
  [Plain EXCEPT !.env = @ @@ ("CALISTO_RUBY" :> <<"usr">>) @@ ("CALISTO_PRELOAD" :> <<"0">>),
                !.files = @ \cup {<<"usr">>}, !.broken = {<<"s.rb">>}, !.installed = {}]

\* Without a Ruby of the pin, and a variable that holds a separator.
Current ==
  [Plain EXCEPT !.env = @ @@ ("NAME" :> <<"a", RS, "b">>), !.installed = {}, !.current = TRUE]

\* A script that dies of SIGUSR1, or of a SIGTERM; the locale of another user;
\* variables that calisto keeps to itself.
Raises == [Plain EXCEPT !.ends[<<"s.rb">>] = [by |-> "raise", status |-> 10]]
Terminated ==
  [Plain EXCEPT !.ends[<<"s.rb">>] = [by |-> "term", status |-> 15],
                !.env = @ @@ ("LANG" :> <<"C">>) @@ ("RUBYOPT" :> <<"-w">>)]
Flagged ==
  [Plain EXCEPT !.env = @ @@ ("CALISTO_RUN_FLAGS" :> <<"w">>)
                          @@ ("CALISTO_LOAD_PATH" :> <<"lib", ":", ":", "ext">>)
                          @@ ("CALISTO_APP_PRELOAD" :> <<"env.rb">>)]

AllPlaces ==
  {Plain, Current, Bundled, App, OtherRuby, GemfileAsks, NotInstalled, Engine, Scripts,
   BadToml, JunkToml, Override, WithLibs, Elsewhere, Raises, Terminated, Flagged}

-----------------------------------------------------------------------------
(* The command lines.                                                       *)

S == W(<<"s.rb">>)
AllLines ==
  {<<"run", l>> : l \in
     { <<S>>, <<>>, <<S, W(<<"x">>)>>, <<O("--cold"), S>>, <<O("-v")>>,
       <<O("-w"), O("-I"), W(<<"a">>), O("-I"), W(<<"b">>), S>>,
       <<O("-I"), W(<<"lib">>), O("-r"), W(<<"set">>), S>>,
       <<O("-W"), S>>, <<[opt |-> "-W", att |-> <<"0">>], [opt |-> "-E", att |-> <<"utf-8">>], S>>,
       <<O("-E"), W(<<"klingon">>), O("-c"), S>>, <<O("-c"), O("-r"), W(<<"nolib">>), S>>,
       <<O("-r"), W(<<"nolib">>), S>>, <<O("-e"), W(<<"code">>), O("-e"), W(<<"more">>), S>>,
       <<O("--preload"), W(<<"none">>), S>>, <<O("-I"), W(<<"a", US, "w">>), S>>,
       <<W(<<"open">>)>>, <<W(<<"start">>), W(<<"y">>)>> }}
  \cup {<<"exec", <<>>>>, <<"exec", << <<"rake">>, <<"db">> >> >>}

AllTokens ==
  Literals
  \cup {"-I", "-r", "-E", "-w", "-c", "-e", "-v", "-W", "--cold", "--preload", "", US, RS,
        "s.rb", "x", "y", "a", "b", "lib", "nolib", "set", "utf-8", "klingon", "code", "more",
        "open", "start", "u", "usr", "maybe", "USER", "DATABASE_URL", "dotenv", "db", "none", "C", "ext", ":",
        "env.rb"}

\* The command lines whose flags are sent: up to three arguments, with values
\* that hold a separator, look like a flag, or are empty.
FlagArgs ==
  {O(o) : o \in {"-I", "-r", "-E", "-w", "-c", "--", "-e", "-W"}}
    \cup {[opt |-> "-W", att |-> <<n>>] : n \in {"0", "2", "3"}}
    \cup {[opt |-> o, att |-> <<"a">>] : o \in {"-I", "-E"}}
    \cup {W(t) : t \in {<<>>, <<"w">>, <<"a", US, "w">>, <<"a", RS, "b">>}}
FlagLines == UNION {[1 .. n -> FlagArgs] : n \in 0 .. 3}

-----------------------------------------------------------------------------
(* The trees of test.                                                       *)

Minitest ==
  [root |-> <<"/", "app">>, cwd |-> <<"/", "app">>,
   files |-> {<<"test", "a", "_test.rb">>, <<"test", "m", "b", "_test.rb">>,
              <<"test", "helper", ".rb">>, <<"tmp", "c", "_test.rb">>}]
Rspec ==
  [Minitest EXCEPT !.files = @ \cup {<<"spec", "d", "_spec.rb">>}, !.cwd = <<"/", "app", "spec">>]

Tests ==
  {[tree |-> Minitest, pats |-> {}, watch |-> b, badFlag |-> FALSE] : b \in BOOLEAN}
  \cup {[tree |-> Minitest, watch |-> FALSE, badFlag |-> FALSE,
         pats |-> {<<"/", "app", "test", "m">>, <<"tmp", "c", "_test.rb">>}],
        [tree |-> Minitest, watch |-> FALSE, badFlag |-> FALSE,
         pats |-> {<<"/", "app", "test">>, <<"test", "a", "_test.rb">>, <<"tmp", "c", "_test.rb">>}],
        [tree |-> Minitest, pats |-> {<<"test", "m">>}, watch |-> FALSE, badFlag |-> FALSE],
        [tree |-> Rspec, pats |-> {<<"d", "_spec.rb">>}, watch |-> TRUE, badFlag |-> FALSE],
        [tree |-> Rspec, pats |-> {}, watch |-> FALSE, badFlag |-> TRUE]}

-----------------------------------------------------------------------------
(* The four behaviours.                                                     *)

vars == <<command, sample, runVars, testVars, forkVars>>

Init ==
  /\ RunInit /\ TestInit /\ ForkInit
  /\ \/ command \in {"run", "daemon"} /\ sample = <<>> /\ typed = CHOOSE t \in Tests : TRUE
     \/ command = "test" /\ sample = <<>>
     \/ command = "flags" /\ sample \in FlagLines /\ typed = CHOOSE t \in Tests : TRUE

Next ==
  \/ command = "run" /\ RunNext /\ UNCHANGED <<command, sample, testVars, forkVars>>
  \/ command = "test" /\ TestNext /\ UNCHANGED <<command, sample, runVars, forkVars>>
  \/ command = "daemon" /\ ForkNext /\ UNCHANGED <<command, sample, runVars, testVars>>

Spec == Init /\ [][Next]_vars /\ TestFairness

-----------------------------------------------------------------------------
(* Properties.                                                              *)

\* Every machine is in one of its states.
TypeOK == RunTypeOK /\ TestTypeOK /\ ForkTypeOK

\* The user's environment without and with flags of calisto in it.
UserEnvs == {[v \in {} |-> <<>>], [v \in {"CALISTO_RUN_FLAGS"} |-> <<"w">>]}

\* The child applies the flags of the command line (RunFlags).
FlagsArrive == \A env \in UserEnvs : FlagsArriveFor(sample, env)
=============================================================================
