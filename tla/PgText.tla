------------------------------- MODULE PgText -------------------------------
(***************************************************************************)
(* The texts crates/calisto-pg exchanges with libpq: the connection string *)
(* made of a Hash, the C strings made of arguments, and the cells of a     *)
(* result, read as text or by the type of their column.                    *)
(*                                                                         *)
(* A text is a sequence of characters, a character a short string.  Bytes  *)
(* that are not UTF-8 are one character more, Malformed; NEWLINE stands    *)
(* for the control characters that libpq takes for blanks, DEL for the     *)
(* others.  The machine's integers are those from -Half to Half - 1 and    *)
(* wrap, as in a release build; the server's largest integer type has as   *)
(* many.                                                                   *)
(***************************************************************************)
EXTENDS Integers, Sequences, SequencesExt, FiniteSetsExt

CONSTANTS
  Half,       \* half as many integers as i64 and the server's int8 have: 2^63
  MaxDigits,  \* bound on the digits of an integer in a cell
  ValueLen,   \* bound on the length of the values of a connection Hash
  Nil, Raised \* Ruby's nil, and an exception

VARIABLE
  sample      \* what is converted: it is chosen at the start and stays

ASSUME PgTextAssumption == Half \in Nat \ {0} /\ MaxDigits \in Nat /\ ValueLen \in Nat

-----------------------------------------------------------------------------
(* Arguments.                                                               *)

\* cstr_arg, bind_params: a C string ends at its first NUL, so a text that
\* holds one is refused.
CString(t) == IF "NUL" \in ToSet(t) THEN Raised ELSE t

\* bind_params, one element: nil is the NULL of the server.
Bind(v) == IF v = Nil THEN Nil ELSE CString(v)

Blank == {" ", "NEWLINE"}
Control == {"NEWLINE", "DEL", "NUL"}

Malformed == "not UTF-8"
Replacement == "U+FFFD"

\* String::from_utf8_lossy, of a character and of a text.
Replaced(ch) == IF ch = Malformed THEN Replacement ELSE ch
Lossy(t) == [i \in DOMAIN t |-> Replaced(t[i])]

Escape(t, special) ==
  FoldLeft(LAMBDA out, ch :
             IF ch \in special THEN out \o <<"\\", ch>> ELSE Append(out, ch),
           <<>>, t)

\* Faulty variant: a backslash inside the quotes stays as it is.
QuoteNotBackslash(v) ==
  IF v # <<>> /\ ToSet(v) \cap ({" ", "'", "\"", "\\"} \cup Control) = {} THEN v
  ELSE <<"'">> \o Escape(v, {"'"}) \o <<"'">>

\* conninfo_quote.
Quote(v) ==
  IF v # <<>> /\ ToSet(v) \cap ({" ", "'", "\"", "\\"} \cup Control) = {} THEN v
  ELSE <<"'">> \o Escape(v, {"'", "\\"}) \o <<"'">>

\* What is written of the pairs of a Hash.
Utf8(pairs) == [i \in DOMAIN pairs |-> <<Replaced(pairs[i][1]), Lossy(pairs[i][2])>>]

\* conninfo_from_value of a Hash, given as a sequence of <<key, value>>.  A NUL
\* anywhere makes CString::new fail, and the whole string is then empty.
Conninfo(pairs) ==
  LET out == FoldLeft(LAMBDA acc, p :
                        acc \o (IF acc = <<>> THEN <<>> ELSE <<" ">>)
                            \o <<p[1], "=">> \o Quote(p[2]),
                      <<>>, Utf8(pairs))
  IN  IF "NUL" \in ToSet(out) THEN <<>> ELSE out

\* libpq's conninfo_parse, one character at a time; a key is one character.
LibpqStep(s, ch) ==
  LET Taken == [s EXCEPT !.val = Append(@, ch)]
      Stored(t) == [t EXCEPT !.mode = "gap", !.out = Append(@, <<t.key, t.val>>)]
  IN CASE s.mode = "gap" ->
            IF ch \in Blank THEN s ELSE [s EXCEPT !.mode = "key", !.key = ch, !.val = <<>>]
       [] s.mode = "key" ->
            [s EXCEPT !.mode = IF ch = "=" THEN "start" ELSE "error"]
       [] s.mode = "start" /\ ch \in Blank -> s
       [] s.mode = "start" /\ ch = "'" -> [s EXCEPT !.mode = "quoted"]
       [] s.mode \in {"start", "bare"} /\ ch = "\\" -> [s EXCEPT !.mode = "bareEsc"]
       [] s.mode = "bare" /\ ch \in Blank -> Stored(s)
       [] s.mode = "quoted" /\ ch = "\\" -> [s EXCEPT !.mode = "quotedEsc"]
       [] s.mode = "quoted" /\ ch = "'" -> Stored(s)
       [] s.mode = "quotedEsc" \/ (s.mode = "quoted" /\ ch \notin {"\\", "'"}) ->
            [Taken EXCEPT !.mode = "quoted"]
       [] s.mode = "error" -> s
       [] OTHER -> [Taken EXCEPT !.mode = "bare"]

LibpqParse(text) ==
  LET end == FoldLeft(LibpqStep, [mode |-> "gap", key |-> "", val |-> <<>>, out |-> <<>>], text)
  IN  IF end.mode = "gap" THEN end.out
      ELSE IF end.mode \in {"start", "bare", "bareEsc"}
           THEN Append(end.out, <<end.key, end.val>>)
      ELSE Raised

-----------------------------------------------------------------------------
(* Cells.                                                                   *)

Digit == <<"0", "1", "2", "3", "4", "5", "6", "7", "8", "9">>
DigitValue == [d \in ToSet(Digit) |-> (CHOOSE i \in 1 .. 10 : Digit[i] = d) - 1]

\* nil is none of the texts and values of the cells.
ASSUME NilAssumption ==
  Nil \notin Int \cup BOOLEAN \cup Seq(ToSet(Digit) \cup {"-", "t", "f"})

\* i64 arithmetic of a release build.
Wrapped(n) == ((n + Half) % (2 * Half)) - Half

\* Faulty variant: the arithmetic saturates, the sign is applied last.
ParseIntSaturating(t) ==
  LET signed == t # <<>> /\ t[1] \in {"-", "+"}
      digits == IF signed THEN Tail(t) ELSE t
      n == FoldLeft(LAMBDA i, d : Min({Half - 1, i * 10 + DigitValue[d]}), 0, digits)
  IN  IF digits = <<>> \/ ~(ToSet(digits) \subseteq ToSet(Digit)) THEN Nil
      ELSE IF t[1] = "-" THEN -n ELSE n

\* parse_i64_raw: nothing checks for overflow, every step wraps.
ParseInt(t) ==
  LET signed == t # <<>> /\ t[1] \in {"-", "+"}
      digits == IF signed THEN Tail(t) ELSE t
      n == FoldLeft(LAMBDA i, d : Wrapped(Wrapped(i * 10) + DigitValue[d]), 0, digits)
  IN  IF digits = <<>> \/ ~(ToSet(digits) \subseteq ToSet(Digit)) THEN Nil
      ELSE IF t[1] = "-" THEN Wrapped(-n) ELSE n

\* decode_value, Nil where the text has no typed value.  The bool is known by
\* its first byte.  Floats are left out: Rust's own parser reads them.
Decode(type, t) ==
  CASE type = "int" -> ParseInt(t)
    [] type = "bool" /\ t # <<>> /\ t[1] = "t" -> TRUE
    [] type = "bool" /\ t # <<>> /\ t[1] = "f" -> FALSE
    [] OTHER -> Nil

\* A result: its column types, its rows of cells (Nil for NULL), and whether
\* the connection had a type map when it was made.
InRange(r, i, j) == i \in 0 .. Len(r.rows) - 1 /\ j \in 0 .. Len(r.types) - 1
Cell(r, i, j) == r.rows[i + 1][j + 1]

\* row_values, typed_getvalue for one cell.
TypedCell(r, i, j) ==
  LET t == Cell(r, i, j)
      v == Decode(r.types[j + 1], t)
  IN  IF t = Nil THEN Nil ELSE IF r.decode /\ v # Nil THEN v ELSE t

Row(r, i) == [j \in 1 .. Len(r.types) |-> TypedCell(r, i, j - 1)]

\* Result#values, #[], #getvalue, #typed_getvalue, #getisnull, #ftype.
Values(r) == [i \in 1 .. Len(r.rows) |-> Row(r, i - 1)]
At(r, i) == IF i \in 0 .. Len(r.rows) - 1 THEN Row(r, i) ELSE Nil
GetValue(r, i, j) == IF InRange(r, i, j) THEN Cell(r, i, j) ELSE Raised
TypedGetValue(r, i, j) == IF InRange(r, i, j) THEN TypedCell(r, i, j) ELSE Raised
GetIsNull(r, i, j) == IF InRange(r, i, j) THEN Cell(r, i, j) = Nil ELSE Raised
FType(r, j) == IF j \in 0 .. Len(r.types) - 1 THEN r.types[j + 1] ELSE Raised

-----------------------------------------------------------------------------
(* What is converted: two values of a connection Hash, or a row of a result. *)

Texts ==
  UNION {[1 .. n -> {"a", "=", " ", "'", "\\", Malformed} \cup Control] : n \in 0 .. ValueLen}

\* The server's text of an integer, and what it writes for each type.
Numerals ==
  {t \in UNION {[1 .. n -> ToSet(Digit)] : n \in 1 .. MaxDigits} : Len(t) = 1 \/ t[1] # "0"}
Number(t) == FoldLeft(LAMBDA i, d : i * 10 + DigitValue[d], 0, t)

Written ==
  [int  |-> {<<t, Number(t)>> : t \in {u \in Numerals : Number(u) < Half}} \cup
            {<< <<"-">> \o t, -Number(t)>> : t \in {u \in Numerals : Number(u) \in 1 .. Half}},
   bool |-> {<< <<"t">>, TRUE>>, << <<"f">>, FALSE>>},
   text |-> {<<t, t>> : t \in {<<>>, <<"t">>, <<"5">>, <<"-">>}}]

\* Cells with their type: every value of the first column, some of the second.
Column(type) == {<<type, w>> : w \in Written[type] \cup {<<Nil, Nil>>}}
AnyCell == UNION {Column(type) : type \in DOMAIN Written}
SomeCell == Column("bool") \cup Column("text") \cup {<<"int", <<Nil, Nil>> >>}

Samples ==
  [kind : {"hash"}, host : Texts, password : Texts]
    \cup [kind : {"row"}, cells : AnyCell \X SomeCell, decode : BOOLEAN]

-----------------------------------------------------------------------------
(* Properties.                                                              *)

\* No argument is split, joined to another or cut: the Hash given to PG.connect
\* is parsed by libpq as those keys and values whatever blanks, quotes,
\* backslashes and control characters they hold (lib.rs 467-519), and a bind is
\* nil, its bytes, or an error (lib.rs 455-463, 544-590).  Two kinds of values do
\* not arrive as they are.  Bytes that are not UTF-8 are replaced without an
\* error, in a Hash but not in a bind (lib.rs 488, 491); with a NUL in any value
\* the connection is made with no parameter at all, for CString::new fails and
\* an empty string takes its place (lib.rs 499).
ArgumentsArrive ==
  sample.kind = "hash" =>
    LET given == << <<"h", sample.host>>, <<"p", sample.password>> >>
        replaced == << <<"h", Lossy(sample.host)>>, <<"p", Lossy(sample.password)>> >>
        arrived == LibpqParse(Conninfo(given))
        chars == ToSet(sample.host \o sample.password)
    IN  /\ arrived = IF "NUL" \in chars THEN <<>> ELSE replaced
        /\ chars \cap {"NUL", Malformed} = {} => arrived = given
        /\ Bind(sample.host) \in {sample.host, Raised}

\* Cells are read as they were written: an integer of any value of its type,
\* the least one included, which parse_i64_raw reaches only by wrapping twice
\* (lib.rs 611-633), NULL as nil whatever the type, and text that looks like a
\* number as text.  values, [], getvalue, typed_getvalue and getisnull agree on
\* every cell, and an index out of range never reaches libpq (lib.rs 1217-1380).
CellsAreExact ==
  sample.kind = "row" =>
    LET types == [j \in 1 .. 2 |-> sample.cells[j][1]]
        texts == [j \in 1 .. 2 |-> sample.cells[j][2][1]]
        read == [j \in 1 .. 2 |-> sample.cells[j][2][IF sample.decode THEN 2 ELSE 1]]
        r == [types |-> types, rows |-> <<texts>>, decode |-> sample.decode]
    IN  /\ Values(r) = <<read>>
        /\ At(r, 0) = read /\ At(r, 1) = Nil /\ At(r, -1) = Nil
        /\ \A j \in 0 .. 1 :
             /\ FType(r, j) = types[j + 1]
             /\ GetIsNull(r, 0, j) = (texts[j + 1] = Nil)
             /\ GetValue(r, 0, j) = texts[j + 1]
             /\ TypedGetValue(r, 0, j) = read[j + 1]
        /\ \A p \in {<<-1, 0>>, <<1, 0>>, <<0, -1>>, <<0, 2>>} :
             Raised = GetValue(r, p[1], p[2]) /\ Raised = TypedGetValue(r, p[1], p[2])
=============================================================================
