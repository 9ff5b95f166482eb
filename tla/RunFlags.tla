------------------------------ MODULE RunFlags ------------------------------
(***************************************************************************)
(* The command line of `calisto run` (run.rs 98-203) and the trip of its   *)
(* Ruby flags to the child: the client writes them into one variable of    *)
(* the environment of the request (RunFlags::blob), the child reads them   *)
(* back (RunFlags::parse, child.rs 177-183).                               *)
(*                                                                         *)
(* A text is a sequence of tokens.  US separates the segments of the       *)
(* flags, RS the pairs of the environment; both may occur in a text the    *)
(* user types, since nothing escapes them.                                 *)
(***************************************************************************)
EXTENDS Integers, SequencesExt

US == "\\x1f"
RS == "\\x1e"
NoText == <<"None">>          \* an Option that is None; no user's text has this token
NoLevel == -9

\* An argument: an option with the text attached to it, or (opt = "") a word.
Whole(a) == IF a.opt = "" THEN a.att ELSE <<a.opt>> \o a.att

NoFlags ==
  [dirs |-> <<>>, libs |-> <<>>, verbose |-> NoLevel, check |-> FALSE, enc |-> NoText]

\* The arguments of some tokens, and the tokens the program itself writes.
Arguments(U) == [opt : U, att : Seq(U)]
Literals == {"None", "I:", "r:", "w", "W:", "0", "1", "2", "c", "E:"}

\* RunFlags::any
AnyFlag(f) == f # NoFlags

-----------------------------------------------------------------------------
(* cmd_run: the loop over the arguments.  pc says what the next argument    *)
(* is: a flag, the value of flag `of`, or the rest; or why the loop ended.  *)

LineStart ==
  [pc |-> "flags", of |-> "", flags |-> NoFlags, cold |-> FALSE,
   preload |-> NoText, evals |-> <<>>, rest |-> <<>>]

\* The flags that take their value from the next argument.
Takes == {"-e", "--preload", "-I", "-r", "-E"}

\* The value t of the flag o.
WithValue(s, o, t) ==
  CASE o = "-e" -> [s EXCEPT !.evals = Append(@, t)]
    [] o = "--preload" -> [s EXCEPT !.preload = t]
    [] o = "-I" -> [s EXCEPT !.flags.dirs = Append(@, t)]
    [] o = "-r" -> [s EXCEPT !.flags.libs = Append(@, t)]
    [] o = "-E" -> [s EXCEPT !.flags.enc = t]

\* -W0 .. -W2; v.parse::<i8>() then the range.
Levels == [t \in {<<"0">>, <<"1">>, <<"2">>} |->
             CASE t = <<"0">> -> 0 [] t = <<"1">> -> 1 [] t = <<"2">> -> 2]
IsLevel(t) == t \in DOMAIN Levels

\* One flag, with nothing attached or in the attached forms of ruby.
ParseFlag(s, a) ==
  IF a.att = <<>> THEN
    CASE a.opt = "--" -> [s EXCEPT !.pc = "rest"]
      [] a.opt \in Takes -> [s EXCEPT !.pc = "value", !.of = a.opt]
      [] a.opt = "--cold" -> [s EXCEPT !.cold = TRUE]
      [] a.opt = "-w" -> [s EXCEPT !.flags.verbose = -1]
      [] a.opt = "-c" -> [s EXCEPT !.flags.check = TRUE]
      [] a.opt = "-v" -> [s EXCEPT !.pc = "version"]
      [] OTHER -> [s EXCEPT !.pc = "refused"]
  ELSE IF a.opt \in {"-I", "-r", "-E"} THEN WithValue(s, a.opt, a.att)
  ELSE IF a.opt = "-W" /\ IsLevel(a.att) THEN [s EXCEPT !.flags.verbose = Levels[a.att]]
  ELSE [s EXCEPT !.pc = "refused"]

ParseArg(s, a) ==
  CASE s.pc = "value" -> WithValue([s EXCEPT !.pc = "flags"], s.of, Whole(a))
    [] s.pc = "flags" /\ a.opt # "" -> ParseFlag(s, a)
    [] s.pc = "rest" \/ (s.pc = "flags" /\ a.opt = "") ->
         [s EXCEPT !.pc = "rest", !.rest = Append(@, Whole(a))]
    [] OTHER -> s

\* A flag left without its value is refused as an unknown one is.
ParseLine(line) ==
  LET s == FoldLeft(ParseArg, LineStart, line)
  IN  CASE s.pc = "value" -> [s EXCEPT !.pc = "refused"]
        [] s.pc = "flags" -> [s EXCEPT !.pc = "rest"]
        [] OTHER -> s

-----------------------------------------------------------------------------
(* The variable CALISTO_RUN_FLAGS.                                          *)

JoinTexts(parts, sep) ==
  IF parts = <<>> THEN <<>>
  ELSE FoldLeft(LAMBDA t, p : t \o <<sep>> \o p, Head(parts), Tail(parts))

\* The segments of a text between its separators; at least one.
Split(text, sep) ==
  FoldLeft(LAMBDA segs, c :
             IF c = sep THEN Append(segs, <<>>)
             ELSE [segs EXCEPT ![Len(segs)] = Append(@, c)],
           << <<>> >>, text)

Keyed(key, values) == [i \in DOMAIN values |-> <<key>> \o values[i]]
When(cond, seg) == IF cond THEN <<seg>> ELSE <<>>

\* An i8 of -1 to 2 as format! writes it.
Number(n) == << <<"-1">>, <<"0">>, <<"1">>, <<"2">> >>[n + 2]

\* Faulty variant: -w is written by its number, like -W0 .. -W2.
SegmentsNumberW(f) ==
  Keyed("I:", f.dirs) \o Keyed("r:", f.libs)
    \o When(f.verbose # NoLevel, <<"W:">> \o Number(f.verbose))
    \o When(f.check, <<"c">>)
    \o When(f.enc # NoText, <<"E:">> \o f.enc)

Segments(f) ==
  Keyed("I:", f.dirs) \o Keyed("r:", f.libs)
    \o When(f.verbose = -1, <<"w">>)
    \o When(f.verbose \in 0 .. 2, <<"W:">> \o Number(f.verbose))
    \o When(f.check, <<"c">>)
    \o When(f.enc # NoText, <<"E:">> \o f.enc)

Blob(f) == JoinTexts(Segments(f), US)

\* One segment of the blob, by its key; an unknown one is skipped.
ParseSegment(f, seg) ==
  IF seg = <<>> THEN f
  ELSE LET v == Tail(seg) IN
    CASE seg[1] = "I:" -> [f EXCEPT !.dirs = Append(@, v)]
      [] seg[1] = "r:" -> [f EXCEPT !.libs = Append(@, v)]
      [] seg = <<"w">> -> [f EXCEPT !.verbose = -1]
      [] seg[1] = "W:" /\ IsLevel(v) -> [f EXCEPT !.verbose = Levels[v]]
      [] seg = <<"c">> -> [f EXCEPT !.check = TRUE]
      [] seg[1] = "E:" -> [f EXCEPT !.enc = v]
      [] OTHER -> f

ParseBlob(blob) == FoldLeft(ParseSegment, NoFlags, Split(blob, US))

\* What the child finds of a text sent in the environment: the pairs are split
\* at RS, and a piece without "=" is no pair (child.rs 170-176).
Arriving(text) == Split(text, RS)[1]

\* The flags that the child applies for the flags f of a client with the given
\* environment: without a flag a CALISTO_RUN_FLAGS of the user's own arrives.
ChildFlags(f, env) ==
  CASE AnyFlag(f) -> ParseBlob(Arriving(Blob(f)))
    [] ~AnyFlag(f) /\ "CALISTO_RUN_FLAGS" \in DOMAIN env ->
         ParseBlob(Arriving(env["CALISTO_RUN_FLAGS"]))
    [] OTHER -> NoFlags

-----------------------------------------------------------------------------
(* Property.                                                                *)

Separated(t) == \E i \in DOMAIN t : t[i] \in {US, RS}

SomeSeparated(f) == \E t \in Range(f.dirs) \cup Range(f.libs) \cup {f.enc} : Separated(t)

\* The child applies exactly the flags of the command line, in their order,
\* as long as no value holds one of the two separators, whatever the user's
\* CALISTO_RUN_FLAGS says; it counts only if there is no flag at all.
FlagsArriveFor(line, env) ==
  LET s == ParseLine(line) IN
    s.pc = "rest" /\ ~SomeSeparated(s.flags)
    /\ (AnyFlag(s.flags) \/ "CALISTO_RUN_FLAGS" \notin DOMAIN env)
    => ChildFlags(s.flags, env) = s.flags
=============================================================================
