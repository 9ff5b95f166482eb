----------------------------- MODULE WireReader -----------------------------
(***************************************************************************)
(* How one command travels from a client to the daemon (src/protocol.rs):  *)
(* `OP N\r\n` and then N times `$len\r\n<payload>`, read by                 *)
(* client_read_command over non-blocking reads.                            *)
(*                                                                         *)
(* The bytes are cut into units at the places where a read can end: the    *)
(* name of the operation, its count, a CRLF, a `$len` and every unit of a  *)
(* payload.  Payloads are base64, so no payload unit reads as any other.   *)
(* `head`, `count` and `fields` live on the stack of client_read_command   *)
(* and die with the call; only `buf` and `first` belong to the client.     *)
(***************************************************************************)
EXTENDS Integers, SequencesExt

CONSTANTS
    Lengths,     \* lengths of a payload, in units
    MaxFields,   \* fields of a command, at most
    Chunk        \* units that one write or one read moves, at most

ASSUME LengthsAssumption == Lengths \subseteq Nat
ASSUME SizeAssumption == MaxFields \in Nat /\ Chunk \in Nat \ {0}

VARIABLES
    lens,        \* the command: the lengths of its fields
    out,         \* units the client has not written yet
    open,        \* the client's end is open
    wire,        \* units in the socket
    buf, first,  \* of DaemonClient
    at,          \* "tick" outside the call, or where the call is
    left, fields, \* locals of the call
    result       \* what the call returned, once it is not Partial

client == <<lens, out, open>>
vars == <<lens, out, open, wire, buf, first, at, left, fields, result>>

-----------------------------------------------------------------------------
Unit(t, v) == [t |-> t, v |-> v]
Crlf == Unit("crlf", 0)

Payload(k, n) == [j \in 1..n |-> Unit("data", k)]

\* build_cmd and send_cmd
BuildCmd(ls) ==
    <<Unit("op", 0), Unit("count", Len(ls)), Crlf>>
        \o FlattenSeq([k \in 1..Len(ls) |->
               <<Unit("len", ls[k]), Crlf>> \o Payload(k, ls[k])])

Sent == [k \in 1..Len(lens) |-> Payload(k, lens[k])]

\* The longest commands fill more than one read.
Fits == Len(BuildCmd(lens)) <= Chunk

\* find_crlf, and the drain that follows it
HasLine(b) == \E k \in 1..Len(b) : b[k] = Crlf
LineLen(b) == CHOOSE k \in 1..Len(b) : b[k] = Crlf /\ \A j \in 1..(k - 1) : b[j] # Crlf
Line(b) == SubSeq(b, 1, LineLen(b) - 1)
AfterLine(b) == SubSeq(b, LineLen(b) + 1, Len(b))

\* `head.split_once(' ')` with a count that parses
IsHead(line) == Len(line) = 2 /\ line[1].t = "op" /\ line[2].t = "count"
\* `line.strip_prefix('$')` with a length that parses
IsLength(line) == Len(line) = 1 /\ line[1].t = "len"

Pending == [kind |-> "none", fields |-> <<>>]
Command(fs) == [kind |-> "command", fields |-> fs]
Bad == [kind |-> "bad", fields |-> <<>>]
Eof == [kind |-> "eof", fields |-> <<>>]

-----------------------------------------------------------------------------
Init ==
    /\ lens \in UNION {[1..n -> Lengths] : n \in 0..MaxFields}
    /\ out = BuildCmd(lens)
    /\ open = TRUE
    /\ wire = <<>> /\ buf = <<>> /\ first = TRUE
    /\ at = "tick" /\ left = 0 /\ fields = <<>>
    /\ result = Pending

\* sendmsg hands the kernel a whole chunk; the write! of send_cmd, which sends
\* only commands without fields, goes out in pieces.
Write(n) ==
    /\ open /\ out # <<>>
    /\ n <= Len(out) /\ n <= Chunk
    /\ lens = <<>> \/ n = Len(out) \/ n = Chunk
    /\ wire' = wire \o SubSeq(out, 1, n)
    /\ out' = SubSeq(out, n + 1, Len(out))
    /\ UNCHANGED <<lens, open, buf, first, at, left, fields, result>>

\* The client dies, its command sent or not.
Close ==
    /\ open
    /\ open' = FALSE
    /\ UNCHANGED <<lens, out, wire, buf, first, at, left, fields, result>>

\* poll(2) reports the connection and the loop calls client_read_command.
Call ==
    /\ at = "tick" /\ result = Pending
    /\ wire # <<>> \/ ~open
    /\ at' = "head" /\ left' = 0 /\ fields' = <<>>
    /\ UNCHANGED <<client, wire, buf, first, result>>

Return(r) == at' = "tick" /\ result' = r

\* Where the call has to read: no line yet, or a payload that is not all there.
NeedsMore ==
    \/ at = "head" /\ ~HasLine(buf)
    \/ at = "field" /\ left > 0 /\ ~HasLine(buf)
    \/ at = "fill"

\* client_fill with data: the parse resumes, at "field" if it was in a payload.
FillData ==
    /\ NeedsMore /\ wire # <<>>
    /\ LET n == IF Len(wire) < Chunk THEN Len(wire) ELSE Chunk IN
        /\ buf' = buf \o SubSeq(wire, 1, n)
        /\ wire' = SubSeq(wire, n + 1, Len(wire))
    /\ at' = IF at = "fill" THEN "field" ELSE at
    /\ first' = FALSE
    /\ UNCHANGED <<client, left, fields, result>>

\* Faulty variant for RefusalHasCause: EAGAIN throws away the bytes so far.
FillPartialForgets ==
    /\ NeedsMore /\ wire = <<>> /\ open
    /\ Return(Pending) /\ buf' = <<>>
    /\ first' = FALSE
    /\ UNCHANGED <<client, wire, left, fields>>

\* EAGAIN: Partial.  The lines already drained are gone with the call.
FillPartial ==
    /\ NeedsMore /\ wire = <<>> /\ open
    /\ Return(Pending)
    /\ first' = FALSE
    /\ UNCHANGED <<client, wire, buf, left, fields>>

\* The first read, a recvmsg, does not tell 0 bytes from data: once more.
FillEmpty ==
    /\ NeedsMore /\ wire = <<>> /\ ~open /\ first
    /\ at' = IF at = "fill" THEN "field" ELSE at
    /\ first' = FALSE
    /\ UNCHANGED <<client, wire, buf, left, fields, result>>

FillEof ==
    /\ NeedsMore /\ wire = <<>> /\ ~open /\ ~first
    /\ Return(Eof)
    /\ UNCHANGED <<client, wire, buf, first, left, fields>>

\* Faulty variant for TypeOK and NeverMisread: one field too few.
TakeHeadShort ==
    /\ at = "head" /\ HasLine(buf) /\ IsHead(Line(buf))
    /\ at' = "field" /\ left' = Line(buf)[2].v - 1
    /\ buf' = AfterLine(buf)
    /\ UNCHANGED <<client, wire, first, fields, result>>

TakeHead ==
    /\ at = "head" /\ HasLine(buf) /\ IsHead(Line(buf))
    /\ at' = "field" /\ left' = Line(buf)[2].v
    /\ buf' = AfterLine(buf)
    /\ UNCHANGED <<client, wire, first, fields, result>>

RefuseHead ==
    /\ at = "head" /\ HasLine(buf) /\ ~IsHead(Line(buf))
    /\ Return(Bad)
    /\ buf' = AfterLine(buf)
    /\ UNCHANGED <<client, wire, first, left, fields>>

InFields == at = "field" /\ left > 0 /\ HasLine(buf)

\* Faulty variant for SmallCommandIsRead: `c.buf.len() <= len` waits for more
\* although the payload is complete.
PayloadIsInLate == Len(AfterLine(buf)) > Line(buf)[1].v

PayloadIsIn == Len(AfterLine(buf)) >= Line(buf)[1].v

TakeField ==
    /\ InFields /\ IsLength(Line(buf)) /\ PayloadIsIn
    /\ LET n == Line(buf)[1].v
           rest == AfterLine(buf) IN
        /\ fields' = Append(fields, SubSeq(rest, 1, n))
        /\ buf' = SubSeq(rest, n + 1, Len(rest))
    /\ left' = left - 1
    /\ UNCHANGED <<client, wire, first, at, result>>

\* The length line is drained before the payload is found to be short.
StartField ==
    /\ InFields /\ IsLength(Line(buf)) /\ ~PayloadIsIn
    /\ at' = "fill"
    /\ buf' = AfterLine(buf)
    /\ UNCHANGED <<client, wire, first, left, fields, result>>

RefuseField ==
    /\ InFields /\ ~IsLength(Line(buf))
    /\ Return(Bad)
    /\ buf' = AfterLine(buf)
    /\ UNCHANGED <<client, wire, first, left, fields>>

ParseDone ==
    /\ at = "field" /\ left = 0
    /\ Return(Command(fields))
    /\ UNCHANGED <<client, wire, buf, first, left, fields>>

Reader ==
    \/ Call
    \/ FillData \/ FillPartial \/ FillEmpty \/ FillEof
    \/ TakeHead \/ RefuseHead
    \/ TakeField \/ StartField \/ RefuseField
    \/ ParseDone

Writer == \E n \in 1..Chunk : Write(n)

Next == Writer \/ Close \/ Reader

\* The daemon keeps ticking and a client that lives goes on writing.
Spec == Init /\ [][Next]_vars /\ WF_vars(Reader) /\ WF_vars(Writer)

-----------------------------------------------------------------------------
TypeOK ==
    /\ lens \in UNION {[1..n -> Lengths] : n \in 0..MaxFields}
    /\ \A s \in {out, wire, buf} :
           \A k \in 1..Len(s) : s[k].t \in {"op", "count", "len", "crlf", "data"}
    /\ open \in BOOLEAN /\ first \in BOOLEAN
    /\ at \in {"tick", "head", "field", "fill"}
    /\ left \in 0..MaxFields /\ Len(fields) <= MaxFields
    /\ result.kind \in {"none", "command", "bad", "eof"}

\* Whatever the cuts, the daemon never acts on a command other than the one
\* the client sent: no field is missing, short, or made of another's bytes
\* (client_read_command resynchronises on the next CRLF it finds).
NeverMisread == result.kind = "command" => result.fields = Sent

\* A command that fits in one read is never refused, and a client is taken for
\* gone only when it closed its end; the pieces of a header line are kept.
RefusalHasCause ==
    /\ result.kind = "bad" => ~Fits
    /\ result.kind = "eof" => ~open

\* A command that fits in one read is read once its last byte is written,
\* however its header line was cut and even if the client has died since.
SmallCommandIsRead ==
    Fits /\ out = <<>> ~> result.kind = "command"

\* The same for every command of a client that waits: protocol.rs says
\* "Partial, // comando incompleto: aguarda mais dados no proximo tick", so a
\* command whose last byte has been written is read in the end.
CommandIsRead ==
    out = <<>> ~> result.kind = "command" \/ ~open

=============================================================================
