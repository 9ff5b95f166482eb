----------------------------- MODULE RubyChoice -----------------------------
(***************************************************************************)
(* Which Ruby runs in a place, and which runtime directory, that is which  *)
(* daemon, belongs to it (runtime.rs 40-226, appconfig.rs 340-395).        *)
(*                                                                         *)
(* The path of a Ruby is the sequence of its directories above bin/ruby,   *)
(* with "ruby-3.3" as two tokens, "ruby-" and "3.3".                       *)
(***************************************************************************)
EXTENDS AppConfig

CONSTANT
  Pin   \* the version the project pins

ASSUME PinAssumption == Pin # Unset

InVendor(version) == <<"vendor", "ruby-", version>>
Vendored(ruby) == Len(ruby) = 3 /\ ruby = InVendor(ruby[3])

\* vendor_ruby.
VendorRuby(place, version) ==
  IF version \in place.installed THEN InVendor(version) ELSE Unset

\* ruby_version_from_gemfile: the first line that asks for a version or for a
\* file with one; a requirement such as "~> 3.3" is skipped.
GemfileRuby(place, lines) ==
  LET asks == SelectSeq(lines, LAMBDA l : l[1] \in {"version", "file"}) IN
    CASE asks = <<>> -> Unset
      [] asks[1][1] = "version" -> asks[1][2]
      [] asks[1][1] = "file" -> place.versionFile

\* The version asked for in the place: .ruby-version, else the Gemfile's; a
\* BUNDLE_GEMFILE that cannot be read asks for none.
AskedVersion(place, env) ==
  LET gemfile == GemfileFor(env, place.gemfile) IN
    CASE place.rubyVersion # Unset -> place.rubyVersion
      [] place.rubyVersion = Unset /\ gemfile \in DOMAIN place.gemfiles ->
           GemfileRuby(place, place.gemfiles[gemfile])
      [] OTHER -> Unset

\* resolve_ruby; Unset is its error, a version asked for and not installed.
ResolveRuby(place, env) ==
  LET asked == AskedVersion(place, env) IN
    CASE EnvText(env, "CALISTO_RUBY") \in place.files -> EnvText(env, "CALISTO_RUBY")
      [] EnvText(env, "CALISTO_RUBY") \notin place.files /\ asked # Unset ->
           VendorRuby(place, asked)
      [] OTHER ->
           IF Pin \in place.installed THEN InVendor(Pin)
           ELSE IF place.current THEN <<"vendor", "current">>
           ELSE <<"PATH">>

\* ruby_version_of: by the name of the directory, wherever it is; none for the pin.
RubyVersionOf(ruby) ==
  LET n == Len(ruby) IN
    IF n > 1 /\ ruby[n - 1] = "ruby-" /\ ruby[n] # Pin THEN ruby[n] ELSE Unset

-----------------------------------------------------------------------------
\* runtime_dir.
RuntimeDir(env) ==
  CASE "CALISTO_RUNTIME_DIR" \in DOMAIN env -> env["CALISTO_RUNTIME_DIR"]
    [] "CALISTO_RUNTIME_DIR" \notin DOMAIN env /\ "XDG_RUNTIME_DIR" \in DOMAIN env ->
         env["XDG_RUNTIME_DIR"] \o <<"calisto">>
    [] OTHER -> <<"tmp">>

\* daemon_dir_for: the generic daemon, one per version.
DaemonDirFor(ruby, env) == <<RuntimeDir(env), "generic", RubyVersionOf(ruby)>>

\* Faulty variant: the key of an app's daemon is without the version.
AppDirOfAnyRuby(app, salt, ruby, env) ==
  <<RuntimeDir(env), "apps", app.root, app.preload, salt>>

\* app_runtime_dir_for.  The directory is a 64 bit hash of these; two keys with
\* one hash are left out.
AppDir(app, salt, ruby, env) ==
  <<RuntimeDir(env), "apps", app.root, app.preload, salt, RubyVersionOf(ruby)>>
=============================================================================
