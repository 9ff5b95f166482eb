----------------------------- MODULE AppConfig ------------------------------
(***************************************************************************)
(* What the client finds around its working directory before it talks to a *)
(* daemon (appconfig.rs): the calisto.toml of the app, its .env, a Gemfile, *)
(* and what each says of the daemon to use.                                *)
(*                                                                         *)
(* A directory is described by a record, its place: what a search upwards  *)
(* from it finds.  A file is a sequence of lines, a line a record; texts   *)
(* are sequences of tokens, as in RunFlags.                                *)
(***************************************************************************)
EXTENDS RunFlags

CONSTANT
  Unset   \* a variable that is not in the environment, a file that is not there

\* Lines of a calisto.toml, with comments and blank lines already dropped:
\* [section], key = "value", key = value, anything else.
Section(s) == [kind |-> "section", key |-> s, value |-> <<>>]
Quoted(k, t) == [kind |-> "quoted", key |-> k, value |-> t]
Bare(k, t) == [kind |-> "bare", key |-> k, value |-> t]
Junk == [kind |-> "junk", key |-> "", value |-> <<>>]

-----------------------------------------------------------------------------
(* parse_calisto_toml.                                                      *)

Booleans == [t \in {<<"true">>, <<"false">>} |-> t = <<"true">>]

\* A key of [run] with its value; existing files are known to the place.
RunKey(c, k, t) ==
  CASE k \in {"preload", "warmup"} /\ t # <<>> -> [c EXCEPT ![k] = t]
    [] k \in {"compact", "yjit"} /\ t \in DOMAIN Booleans -> [c EXCEPT ![k] = t]
    [] OTHER -> [c EXCEPT !.ok = FALSE]

\* One line.  Only the two booleans of [run] may go without quotes; the test
\* looks at the key alone, so a script of that name may too.
ParseTomlLine(c, l) ==
  CASE ~c.ok -> c
    [] l.kind = "junk" -> [c EXCEPT !.ok = FALSE]
    [] l.kind = "section" ->
         IF l.key \in {"run", "scripts"} THEN [c EXCEPT !.section = l.key]
         ELSE [c EXCEPT !.ok = FALSE]
    [] l.kind = "bare" /\ l.key \notin {"compact", "yjit"} -> [c EXCEPT !.ok = FALSE]
    [] c.section = "run" -> RunKey(c, l.key, l.value)
    [] OTHER -> [c EXCEPT !.scripts = Append(@, <<l.key, l.value>>)]

TomlStart ==
  [ok |-> TRUE, section |-> "run", preload |-> NoText, warmup |-> NoText,
   compact |-> NoText, yjit |-> NoText, scripts |-> <<>>]

\* Preload and warmup must name files that exist.
ParseToml(lines, files) ==
  LET c == FoldLeft(ParseTomlLine, TomlStart, lines)
  IN  [c EXCEPT !.ok = @ /\ {c.preload, c.warmup} \subseteq files \cup {NoText}]

-----------------------------------------------------------------------------
(* AppConfig::script_command, split_command.                                *)

\* One character of a command: inside quotes all but the closing one is kept.
SplitStep(s, ch) ==
  CASE s.quote # "" /\ ch = s.quote -> [s EXCEPT !.quote = ""]
    [] s.quote # "" -> [s EXCEPT !.cur = Append(@, ch)]
    [] ch \in {"'", "\""} -> [s EXCEPT !.quote = ch]
    [] ch = " " /\ s.cur # <<>> -> [s EXCEPT !.out = Append(@, s.cur), !.cur = <<>>]
    [] ch = " " -> s
    [] OTHER -> [s EXCEPT !.cur = Append(@, ch)]

\* The words of a command; none if a quote is left open.
SplitCommand(text) ==
  LET s == FoldLeft(SplitStep, [out |-> <<>>, cur |-> <<>>, quote |-> ""], text)
  IN  IF s.quote # "" THEN <<>>
      ELSE IF s.cur = <<>> THEN s.out ELSE Append(s.out, s.cur)

\* The first definition of the name: its words, Unset if there is none, and no
\* words if the command is empty or unbalanced, which is an error.
ScriptCommand(app, name) ==
  LET defs == SelectSeq(app.scripts, LAMBDA s : <<s[1]>> = name)
  IN  IF defs = <<>> THEN Unset ELSE SplitCommand(defs[1][2])

-----------------------------------------------------------------------------
(* The environment of the client.                                           *)

\* load_dotenv: the nearest .env, which never overrides a variable that is set;
\* `env` is a function on the variables that are set.
LoadDotenv(env, pairs) ==
  FoldLeft(LAMBDA e, p :
             [v \in DOMAIN e \cup {p[1]} |-> IF v \in DOMAIN e THEN e[v] ELSE p[2]],
           env, pairs)

\* has_gemfile_from: the Gemfile that Bundler.setup would take, where a search
\* upwards found `found`.
GemfileFor(env, found) ==
  IF "BUNDLE_GEMFILE" \in DOMAIN env THEN env["BUNDLE_GEMFILE"] ELSE found

EnvText(env, v) == IF v \in DOMAIN env THEN env[v] ELSE NoText

\* A boolean of [run] with the variable that overrides it: "TRUE", "FALSE", or
\* "error" when the variable holds something else.
Overridden(env, v, default) ==
  LET t == EnvText(env, v) IN
    CASE t = NoText -> IF default THEN "TRUE" ELSE "FALSE"
      [] t \in {<<"1">>, <<"true">>} -> "TRUE"
      [] t \in {<<"0">>, <<"false">>} -> "FALSE"
      [] OTHER -> "error"

\* app_compact, app_yjit.
AppCompact(app, env) ==
  Overridden(env, "CALISTO_COMPACT",
             IF app.compact = NoText THEN app.preload # NoText ELSE Booleans[app.compact])
AppYjit(app, env) ==
  Overridden(env, "CALISTO_YJIT", IF app.yjit = NoText THEN FALSE ELSE Booleans[app.yjit])

-----------------------------------------------------------------------------
(* Which daemon.                                                            *)

NormalizePreload(t) == IF t \in {<<"0">>, <<"none">>} THEN <<>> ELSE t

\* app_warmup: the variable, of which nothing is left of 0, none and the empty
\* text, else the toml.
AppWarmup(app, env) ==
  CASE "CALISTO_WARMUP" \notin DOMAIN env -> app.warmup
    [] "CALISTO_WARMUP" \in DOMAIN env /\ NormalizePreload(env["CALISTO_WARMUP"]) = <<>> -> NoText
    [] OTHER -> env["CALISTO_WARMUP"]

\* load_app_config: the record of the toml with its directory; Unset without
\* one, ok = FALSE if the file is refused.
LoadApp(place) ==
  IF place.toml = Unset THEN Unset
  ELSE ParseToml(place.toml, place.files) @@ [root |-> place.root, gemfile |-> place.rootGemfile]

\* app_daemon: a toml with scripts only has no daemon of its own.
HasAppDaemon(app) == app # Unset /\ app.preload # NoText

DefaultPreload == <<"json">>

\* run_preload: what a new generic daemon loads.  A Gemfile and a preloaded
\* library may ask for two versions of one gem, so with a Gemfile nothing is.
RunPreload(app, env, gemfile) ==
  IF HasAppDaemon(app) \/ gemfile # Unset THEN <<>>
  ELSE IF "CALISTO_PRELOAD" \in DOMAIN env THEN NormalizePreload(env["CALISTO_PRELOAD"])
  ELSE DefaultPreload
=============================================================================
