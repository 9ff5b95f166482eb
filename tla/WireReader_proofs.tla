------------------------- MODULE WireReader_proofs -------------------------
(***************************************************************************)
(* One command on its way to the daemon, for payloads of any length, any   *)
(* number of fields and any size of a read: the reader acts on the command *)
(* that was sent or on none (NeverMisread), and refuses one that fits in a *)
(* read never, another's end apart (RefusalHasCause).                      *)
(*                                                                         *)
(* What is in out, wire and buf is always the end of the command           *)
(* (Stream), so the parser is at one place of it, Position.  A call that   *)
(* returns Partial forgets the lines it drained, and the next one starts   *)
(* in the middle; the places where that can be are few (Resumed), and at   *)
(* none of them does the buffer begin like a command (Parse).              *)
(***************************************************************************)
EXTENDS WireReader, SequenceFacts

Units == [t : {"op", "count", "len", "crlf", "data"}, v : Nat]

\* Where the fields of a command end; the header line is three units.
IsPlan(ls, off) ==
    LET cmd == BuildCmd(ls)
        n == Len(ls) IN
    /\ off \in [0..n -> Nat]
    /\ off[0] = 3 /\ off[n] = Len(cmd)
    /\ \A k \in 0..n : off[k] <= Len(cmd)
    /\ cmd[1] = Unit("op", 0) /\ cmd[2] = Unit("count", n) /\ cmd[3] = Crlf
    /\ \A k \in 1..n :
        /\ off[k] = off[k - 1] + 2 + ls[k]
        /\ cmd[off[k - 1] + 1] = Unit("len", ls[k])
        /\ cmd[off[k - 1] + 2] = Crlf
        /\ \A j \in 1..ls[k] : cmd[off[k - 1] + 2 + j] = Unit("data", k)

Off(ls) == CHOOSE off : IsPlan(ls, off)

Size == Len(BuildCmd(lens))
Position == Size - Len(out) - Len(wire) - Len(buf)

-----------------------------------------------------------------------------
(* The inductive invariant.                                                 *)

Sizes == lens \in UNION {[1..n -> Lengths] : n \in 0..MaxFields}

\* s is what the command has from place p on.
Part(cmd, s, p) == s \in Seq(Units) /\ \A j \in 1..Len(s) : s[j] = cmd[p + j]

\* The command is cut in four: what was drained, buf, wire and out.
Stream ==
    LET cmd == BuildCmd(lens) IN
    /\ Position \in Nat
    /\ Part(cmd, buf, Position)
    /\ Part(cmd, wire, Position + Len(buf))
    /\ Part(cmd, out, Position + Len(buf) + Len(wire))

\* The parser is before the length of field k + 1, or behind the last one.
Before(k) == Position = Off(lens)[k]

\* The parser has drained the length of field k + 1, whose payload is not empty.
Inside(k) == k < Len(lens) /\ lens[k + 1] > 0 /\ Position = Off(lens)[k] + 2

\* Where a call can begin: at the start, or where an earlier one was cut off.
Resumed == Position = 0 \/ \E k \in 0..Len(lens) : Before(k) \/ Inside(k)

\* The fields read so far are the first of the command.
Taken ==
    /\ fields \in Seq(Seq(Units))
    /\ left \in Nat /\ Len(fields) + left = Len(lens)
    /\ \A k \in 1..Len(fields) : fields[k] = Sent[k]

Parse ==
    /\ at \in {"tick", "head", "field", "fill"}
    /\ open \in BOOLEAN /\ first \in BOOLEAN
    /\ left \in 0..MaxFields /\ fields \in Seq(Seq(Units)) /\ Len(fields) <= MaxFields
    /\ result.kind \in {"none", "command", "bad", "eof"}
    /\ result = Pending \/ result.kind \in {"command", "bad", "eof"}
    /\ at # "tick" => result = Pending
    /\ at \in {"tick", "head"} /\ result = Pending => Resumed
    /\ at = "head" => fields = <<>>
    /\ at \in {"field", "fill"} => Taken
    /\ at = "field" => Before(Len(fields)) \/ Inside(Len(fields))
    /\ at = "fill" => Inside(Len(fields))
    /\ result.kind = "eof" => ~open

\* A command that fits in a read moves in one piece, its header line aside if it
\* has no fields, and nothing cuts it once its header is there.
InOnePiece ==
    Fits =>
        /\ lens # <<>> => \/ Len(out) = Size \/ Len(wire) = Size
                          \/ Len(out) + Len(wire) = 0
        /\ at \in {"tick", "head"} /\ result = Pending => Position = 0
        /\ at = "field" => Before(Len(fields)) /\ Len(out) + Len(wire) = 0
        /\ at # "fill"
        /\ result.kind # "bad"

IInv == Sizes /\ Stream /\ Parse /\ InOnePiece /\ NeverMisread

-----------------------------------------------------------------------------
(* The command and its lines.                                               *)

\* A payload is made of units of its field.
LEMMA PayloadElements ==
  ASSUME NEW k \in Nat, NEW n \in Nat
  PROVE  /\ Payload(k, n) \in Seq(Units) /\ Len(Payload(k, n)) = n
         /\ \A j \in 1..n : Payload(k, n)[j] = Unit("data", k)
<1>1. Unit("data", k) \in Units
    BY DEF Units, Unit
<1>2. Payload(k, n) = [j \in 1..n |-> Unit("data", k)]
    BY DEF Payload
<1>3. [j \in 1..n |-> Unit("data", k)] \in [1..n -> Units]
    BY <1>1
<1> QED BY <1>2, <1>3

\* The plan exists, and a command is made of units.
LEMMA PlanExists ==
  ASSUME NEW n \in Nat, NEW ls \in [1..n -> Nat]
  PROVE  BuildCmd(ls) \in Seq(Units) /\ IsPlan(ls, Off(ls))
<1>1. Len(ls) = n
    OBVIOUS
<1> DEFINE head == <<Unit("op", 0), Unit("count", n), Crlf>>
           mark(k) == <<Unit("len", ls[k]), Crlf>>
           q == [k \in 1..n |-> mark(k) \o Payload(k, ls[k])]
           flat == FlattenSeq(q)
<1>2. ASSUME NEW k \in 1..n
      PROVE  /\ mark(k) \o Payload(k, ls[k]) \in Seq(Units)
             /\ Len(mark(k) \o Payload(k, ls[k])) = 2 + ls[k]
             /\ (mark(k) \o Payload(k, ls[k]))[1] = Unit("len", ls[k])
             /\ (mark(k) \o Payload(k, ls[k]))[2] = Crlf
             /\ \A j \in 1..ls[k] : (mark(k) \o Payload(k, ls[k]))[2 + j] = Unit("data", k)
  <2>1. ls[k] \in Nat /\ k \in Nat
      OBVIOUS
  <2>0. Unit("len", ls[k]) \in Units /\ Crlf \in Units
      BY <2>1 DEF Units, Unit, Crlf
  <2>2. mark(k) \in Seq(Units) /\ Len(mark(k)) = 2
        /\ mark(k)[1] = Unit("len", ls[k]) /\ mark(k)[2] = Crlf
      BY <2>0
  <2>3. Payload(k, ls[k]) \in Seq(Units) /\ Len(Payload(k, ls[k])) = ls[k]
        /\ \A j \in 1..ls[k] : Payload(k, ls[k])[j] = Unit("data", k)
      BY <2>1, PayloadElements
  <2> HIDE DEF mark, q, flat, head
  <2>4. LET both == mark(k) \o Payload(k, ls[k]) IN
        /\ both \in Seq(Units) /\ Len(both) = 2 + ls[k]
        /\ \A j \in 1..2 : both[j] = mark(k)[j]
        /\ \A j \in 1..ls[k] : both[2 + j] = Payload(k, ls[k])[j]
    <3>1. mark(k) \in Seq(Units) /\ Payload(k, ls[k]) \in Seq(Units)
        BY <2>2, <2>3
    <3>2. LET both == mark(k) \o Payload(k, ls[k]) IN
          /\ both \in Seq(Units) /\ Len(both) = Len(mark(k)) + Len(Payload(k, ls[k]))
          /\ \A j \in 1..Len(mark(k)) : both[j] = mark(k)[j]
          /\ \A j \in 1..Len(Payload(k, ls[k])) :
                both[Len(mark(k)) + j] = Payload(k, ls[k])[j]
        BY <3>1
    <3> QED BY <2>2, <2>3, <3>2
  <2> QED BY <2>1, <2>2, <2>3, <2>4
<1>3. q \in [1..n -> Seq(Units)]
    BY <1>2
<1>4. head \in Seq(Units) /\ Len(head) = 3
      /\ head[1] = Unit("op", 0) /\ head[2] = Unit("count", n) /\ head[3] = Crlf
    BY DEF Units, Unit, Crlf
<1>5. BuildCmd(ls) = head \o flat
    BY <1>1 DEF BuildCmd
<1> HIDE DEF head, flat
<1>6. flat \in Seq(Units) /\ \E ends : IsLayout(q, flat, ends)
  <2> HIDE DEF q
  <2> QED BY <1>3, FlattenLayout DEF flat
<1>7. PICK ends : IsLayout(q, flat, ends)
    BY <1>6
<1>8. Len(q) = n
    OBVIOUS
<1>9. \A k \in 1..n : q[k] = mark(k) \o Payload(k, ls[k])
    OBVIOUS
<1> HIDE DEF q, mark
<1> DEFINE off == [k \in 0..n |-> 3 + ends[k]]
<1>10. /\ ends \in [0..n -> Nat]
       /\ ends[0] = 0 /\ ends[n] = Len(flat)
       /\ \A k \in 0..n : ends[k] <= Len(flat)
       /\ \A k \in 1..n : /\ ends[k] = ends[k - 1] + Len(q[k])
                          /\ \A j \in 1..Len(q[k]) : flat[ends[k - 1] + j] = q[k][j]
    BY <1>7, <1>8 DEF IsLayout
<1>11. /\ BuildCmd(ls) \in Seq(Units)
       /\ Len(flat) \in Nat /\ Len(BuildCmd(ls)) = 3 + Len(flat)
       /\ \A j \in 1..3 : BuildCmd(ls)[j] = head[j]
       /\ \A j \in 1..Len(flat) : BuildCmd(ls)[3 + j] = flat[j]
  <2>1. LET both == head \o flat IN
        /\ both \in Seq(Units) /\ Len(flat) \in Nat /\ Len(both) = Len(head) + Len(flat)
        /\ \A j \in 1..Len(head) : both[j] = head[j]
        /\ \A j \in 1..Len(flat) : both[Len(head) + j] = flat[j]
    <3>1. head \in Seq(Units) /\ flat \in Seq(Units)
        BY <1>4, <1>6
    <3> QED BY <3>1
  <2> QED BY <1>4, <1>5, <2>1
<1>a. ends \in [0..n -> Nat] /\ \A k \in 0..n : ends[k] <= Len(flat)
    BY <1>10
<1>12. ASSUME NEW k \in 1..n
       PROVE  /\ off[k] = off[k - 1] + 2 + ls[k]
              /\ BuildCmd(ls)[off[k - 1] + 1] = Unit("len", ls[k])
              /\ BuildCmd(ls)[off[k - 1] + 2] = Crlf
              /\ \A j \in 1..ls[k] : BuildCmd(ls)[off[k - 1] + 2 + j] = Unit("data", k)
  <2>1. k - 1 \in 0..n /\ k \in 0..n /\ ls[k] \in Nat
      OBVIOUS
  <2>2. PICK e \in Nat : e = ends[k - 1]
      BY <2>1, <1>a
  <2>3. Len(q[k]) = 2 + ls[k] /\ ends[k] = e + (2 + ls[k]) /\ ends[k] <= Len(flat)
      BY <2>1, <2>2, <1>2, <1>9, <1>10
  <2>4. \A j \in 1..(2 + ls[k]) : BuildCmd(ls)[3 + (e + j)] = q[k][j]
    <3> SUFFICES ASSUME NEW j \in 1..(2 + ls[k])
                 PROVE  BuildCmd(ls)[3 + (e + j)] = q[k][j]
        OBVIOUS
    <3>1. e + j \in 1..Len(flat)
      <4>1. Len(flat) \in Nat /\ e + (2 + ls[k]) <= Len(flat)
          BY <2>3, <1>6
      <4> QED BY <4>1, <2>1
    <3>2. flat[e + j] = q[k][j]
        BY <2>2, <2>3, <1>10
    <3> QED BY <3>1, <3>2, <1>11
  <2>5. off[k - 1] = 3 + e /\ off[k] = 3 + ends[k]
      BY <2>1, <2>2
  <2>6. q[k][1] = Unit("len", ls[k]) /\ q[k][2] = Crlf
        /\ \A j \in 1..ls[k] : q[k][2 + j] = Unit("data", k)
      BY <1>2, <1>9
  <2> HIDE DEF off
  <2>7. BuildCmd(ls)[3 + (e + 1)] = q[k][1] /\ BuildCmd(ls)[3 + (e + 2)] = q[k][2]
        /\ \A j \in 1..ls[k] : BuildCmd(ls)[3 + (e + (2 + j))] = q[k][2 + j]
    <3>1. 1 \in 1..(2 + ls[k]) /\ 2 \in 1..(2 + ls[k])
          /\ \A j \in 1..ls[k] : 2 + j \in 1..(2 + ls[k])
        BY <2>1
    <3> QED BY <3>1, <2>4
  <2>8. 3 + e + 1 = 3 + (e + 1) /\ 3 + e + 2 = 3 + (e + 2)
        /\ \A j \in 1..ls[k] : 3 + e + 2 + j = 3 + (e + (2 + j))
      BY <2>1
  <2>9. off[k] = 3 + e + 2 + ls[k]
      BY <2>1, <2>3, <2>5
  <2> QED BY <2>5, <2>6, <2>7, <2>8, <2>9
<1>13. off \in [0..n -> Nat] /\ off[0] = 3 /\ off[n] = Len(BuildCmd(ls))
       /\ \A k \in 0..n : off[k] <= Len(BuildCmd(ls))
    BY <1>10, <1>11
<1> HIDE DEF off
<1>14. BuildCmd(ls)[1] = Unit("op", 0) /\ BuildCmd(ls)[2] = Unit("count", n)
       /\ BuildCmd(ls)[3] = Crlf
    BY <1>4, <1>11
<1>15. IsPlan(ls, off)
    BY <1>1, <1>12, <1>13, <1>14 DEF IsPlan
<1> QED BY <1>11, <1>15 DEF Off

\* The first CRLF of a buffer, what is before it and what is behind it.
LEMMA LineElements ==
  ASSUME NEW b \in Seq(Units), HasLine(b)
  PROVE  /\ LineLen(b) \in 1..Len(b) /\ b[LineLen(b)] = Crlf
         /\ \A j \in 1..(LineLen(b) - 1) : b[j] # Crlf
         /\ Len(Line(b)) = LineLen(b) - 1
         /\ \A j \in 1..(LineLen(b) - 1) : Line(b)[j] = b[j]
         /\ AfterLine(b) \in Seq(Units)
         /\ Len(AfterLine(b)) = Len(b) - LineLen(b)
         /\ \A j \in 1..(Len(b) - LineLen(b)) : AfterLine(b)[j] = b[LineLen(b) + j]
<1> DEFINE T == {k \in 1..Len(b) : b[k] = Crlf}
           First(k) == b[k] = Crlf /\ \A j \in 1..(k - 1) : b[j] # Crlf
<1>1. T \subseteq Nat /\ T # {}
    BY DEF HasLine
<1>2. PICK m \in T : \A k \in T : m <= k
    BY <1>1, LeastNumber
<1>3. m \in 1..Len(b) /\ First(m)
    BY <1>2
<1>4. LineLen(b) \in 1..Len(b) /\ First(LineLen(b))
  <2> HIDE DEF First
  <2>1. (CHOOSE k \in 1..Len(b) : First(k)) \in 1..Len(b)
        /\ First(CHOOSE k \in 1..Len(b) : First(k))
      BY <1>3
  <2> QED BY <2>1 DEF LineLen, First
<1>5. PICK k \in 1..Len(b) : k = LineLen(b)
    BY <1>4
<1>6. SubSeq(b, 1, k - 1) \in Seq(Units) /\ Len(SubSeq(b, 1, k - 1)) = k - 1
      /\ \A j \in 1..(k - 1) : SubSeq(b, 1, k - 1)[j] = b[j]
    OBVIOUS
<1>7. SubSeq(b, k + 1, Len(b)) \in Seq(Units) /\ Len(SubSeq(b, k + 1, Len(b))) = Len(b) - k
      /\ \A j \in 1..(Len(b) - k) : SubSeq(b, k + 1, Len(b))[j] = b[k + j]
    OBVIOUS
<1> QED BY <1>4, <1>5, <1>6, <1>7 DEF Line, AfterLine

\* A reader moves a piece from the front of t to the end of s.
LEMMA MovePart ==
  ASSUME NEW cmd, NEW p \in Nat, NEW s, NEW t, NEW n \in Nat,
         Part(cmd, s, p), Part(cmd, t, p + Len(s)), n <= Len(t)
  PROVE  LET more == s \o SubSeq(t, 1, n)
             rest == SubSeq(t, n + 1, Len(t)) IN
         /\ Part(cmd, more, p) /\ Len(more) = Len(s) + n
         /\ Part(cmd, rest, p + Len(more)) /\ Len(rest) = Len(t) - n
<1> DEFINE front == SubSeq(t, 1, n)
           rest == SubSeq(t, n + 1, Len(t))
<1>1. /\ s \in Seq(Units) /\ t \in Seq(Units) /\ Len(s) \in Nat /\ Len(t) \in Nat
      /\ \A j \in 1..Len(s) : s[j] = cmd[p + j]
      /\ \A j \in 1..Len(t) : t[j] = cmd[p + Len(s) + j]
    BY DEF Part
<1>2. front \in Seq(Units) /\ Len(front) = n /\ \A j \in 1..n : front[j] = t[j]
    BY <1>1
<1>3. /\ rest \in Seq(Units) /\ Len(rest) = Len(t) - n
      /\ \A j \in 1..(Len(t) - n) : rest[j] = t[n + j]
    BY <1>1
<1> HIDE DEF front, rest
<1>4. /\ s \o front \in Seq(Units) /\ Len(s \o front) = Len(s) + n
      /\ \A j \in 1..Len(s) : (s \o front)[j] = s[j]
      /\ \A j \in 1..n : (s \o front)[Len(s) + j] = front[j]
  <2>1. s \in Seq(Units) /\ front \in Seq(Units)
      BY <1>1, <1>2
  <2>2. /\ s \o front \in Seq(Units) /\ Len(s \o front) = Len(s) + Len(front)
        /\ \A j \in 1..Len(s) : (s \o front)[j] = s[j]
        /\ \A j \in 1..Len(front) : (s \o front)[Len(s) + j] = front[j]
      BY <2>1
  <2> QED BY <2>2, <1>2
<1>5. ASSUME NEW j \in 1..(Len(s) + n) PROVE (s \o front)[j] = cmd[p + j]
  <2>1. CASE j <= Len(s)
      BY <2>1, <1>1, <1>4
  <2>2. CASE ~(j <= Len(s))
    <3>1. j - Len(s) \in 1..n /\ Len(s) + (j - Len(s)) = j /\ p + Len(s) + (j - Len(s)) = p + j
        BY <2>2, <1>1
    <3> QED BY <3>1, <1>1, <1>2, <1>4
  <2> QED BY <2>1, <2>2
<1>6. ASSUME NEW j \in 1..(Len(t) - n) PROVE rest[j] = cmd[p + (Len(s) + n) + j]
  <2>1. n + j \in 1..Len(t) /\ p + (Len(s) + n) + j = p + Len(s) + (n + j)
      BY <1>1
  <2> QED BY <2>1, <1>1, <1>3
<1> QED BY <1>3, <1>4, <1>5, <1>6 DEF Part, front, rest

\* The parser drains the first n units.
LEMMA DropPart ==
  ASSUME NEW cmd, NEW p \in Nat, NEW s, NEW n \in Nat, Part(cmd, s, p), n <= Len(s)
  PROVE  LET rest == SubSeq(s, n + 1, Len(s)) IN
         Part(cmd, rest, p + n) /\ Len(rest) = Len(s) - n
<1> DEFINE rest == SubSeq(s, n + 1, Len(s))
<1>1. s \in Seq(Units) /\ Len(s) \in Nat /\ \A j \in 1..Len(s) : s[j] = cmd[p + j]
    BY DEF Part
<1>2. /\ rest \in Seq(Units) /\ Len(rest) = Len(s) - n
      /\ \A j \in 1..(Len(s) - n) : rest[j] = s[n + j]
    BY <1>1
<1> HIDE DEF rest
<1>3. ASSUME NEW j \in 1..(Len(s) - n) PROVE rest[j] = cmd[p + n + j]
  <2>1. n + j \in 1..Len(s) /\ p + n + j = p + (n + j)
      BY <1>1
  <2> QED BY <2>1, <1>1, <1>2
<1> QED BY <1>2, <1>3 DEF Part, rest

-----------------------------------------------------------------------------
(* What the invariant says of a state.                                      *)

\* The command and its plan.
LEMMA CommandFacts ==
  ASSUME Sizes
  PROVE  /\ Len(lens) \in 0..MaxFields /\ lens \in [1..Len(lens) -> Nat]
         /\ Size \in Nat /\ BuildCmd(lens) \in Seq(Units)
         /\ Off(lens) \in [0..Len(lens) -> Nat]
         /\ Off(lens)[0] = 3 /\ Off(lens)[Len(lens)] = Size
         /\ \A k \in 0..Len(lens) : Off(lens)[k] <= Size
         /\ BuildCmd(lens)[1] = Unit("op", 0)
         /\ BuildCmd(lens)[2] = Unit("count", Len(lens))
         /\ BuildCmd(lens)[3] = Crlf
<1>1. PICK n \in 0..MaxFields : lens \in [1..n -> Nat]
    BY LengthsAssumption DEF Sizes
<1>2. Len(lens) = n /\ n \in Nat
    BY <1>1, SizeAssumption
<1>3. BuildCmd(lens) \in Seq(Units) /\ IsPlan(lens, Off(lens))
    BY <1>1, <1>2, PlanExists
<1>4. Size \in Nat
    BY <1>3 DEF Size
<1> QED BY <1>1, <1>2, <1>3, <1>4 DEF IsPlan, Size

\* Where field k + 1 is in it.
LEMMA FieldFacts ==
  ASSUME Sizes, NEW k \in Nat, k < Len(lens)
  PROVE  /\ lens[k + 1] \in Nat /\ Off(lens)[k] \in Nat
         /\ Off(lens)[k + 1] = Off(lens)[k] + 2 + lens[k + 1]
         /\ Off(lens)[k + 1] <= Size
         /\ BuildCmd(lens)[Off(lens)[k] + 1] = Unit("len", lens[k + 1])
         /\ BuildCmd(lens)[Off(lens)[k] + 2] = Crlf
         /\ \A j \in 1..lens[k + 1] :
                BuildCmd(lens)[Off(lens)[k] + 2 + j] = Unit("data", k + 1)
<1>1. PICK n \in 0..MaxFields : lens \in [1..n -> Nat]
    BY LengthsAssumption DEF Sizes
<1>2. Len(lens) = n /\ n \in Nat
    BY <1>1, SizeAssumption
<1>3. IsPlan(lens, Off(lens))
    BY <1>1, <1>2, PlanExists
<1>4. k + 1 \in 1..n /\ k + 1 \in 0..n /\ k \in 0..n /\ (k + 1) - 1 = k
    BY <1>2
<1>5. lens[k + 1] \in Nat
    BY <1>1, <1>4
<1>6. /\ Off(lens) \in [0..n -> Nat] /\ \A i \in 0..n : Off(lens)[i] <= Size
      /\ \A i \in 1..n :
           /\ Off(lens)[i] = Off(lens)[i - 1] + 2 + lens[i]
           /\ BuildCmd(lens)[Off(lens)[i - 1] + 1] = Unit("len", lens[i])
           /\ BuildCmd(lens)[Off(lens)[i - 1] + 2] = Crlf
           /\ \A j \in 1..lens[i] : BuildCmd(lens)[Off(lens)[i - 1] + 2 + j] = Unit("data", i)
    BY <1>2, <1>3 DEF IsPlan, Size
<1>7. PICK i \in 1..n : i = k + 1 /\ i - 1 = k
    BY <1>4
<1> QED BY <1>4, <1>5, <1>6, <1>7
\* The four pieces make up the command.
LEMMA PieceFacts ==
  ASSUME IInv
  PROVE  /\ Size \in Nat /\ Position \in Nat /\ buf \in Seq(Units)
         /\ Len(buf) \in Nat /\ Len(wire) \in Nat /\ Len(out) \in Nat
         /\ Position + Len(buf) + Len(wire) + Len(out) = Size
         /\ \A j \in 1..Len(buf) : buf[j] = BuildCmd(lens)[Position + j]
<1>1. Size \in Nat
    BY CommandFacts DEF IInv
<1>2. Position \in Nat /\ buf \in Seq(Units) /\ wire \in Seq(Units) /\ out \in Seq(Units)
    BY DEF IInv, Stream, Part
<1>3. Len(buf) \in Nat /\ Len(wire) \in Nat /\ Len(out) \in Nat
    BY <1>2
<1> QED BY <1>1, <1>2, <1>3 DEF IInv, Stream, Part, Position

\* The tags of the units.
LEMMA Tags ==
  /\ \A v : Unit("op", v).t = "op" /\ Unit("op", v) # Crlf
  /\ \A v : Unit("count", v).t = "count" /\ Unit("count", v).v = v /\ Unit("count", v) # Crlf
  /\ \A v : Unit("len", v).t = "len" /\ Unit("len", v).v = v /\ Unit("len", v) # Crlf
  /\ \A v : Unit("data", v).t = "data"
<1>1. \A v : Unit("op", v).t = "op" /\ Unit("count", v).t = "count"
             /\ Unit("len", v).t = "len" /\ Unit("data", v).t = "data"
             /\ Unit("count", v).v = v /\ Unit("len", v).v = v
    BY DEF Unit
<1>2. Crlf.t = "crlf"
    BY DEF Crlf, Unit
<1> QED BY <1>1, <1>2

\* What the first unit of the buffer says of the place.
LEMMA PlaceOfUnit ==
  ASSUME IInv, Resumed, Len(buf) > 0
  PROVE  \/ Position = 0
         \/ buf[1].t = "len" /\ \E k \in Nat : k < Len(lens) /\ Before(k)
         \/ buf[1].t = "data"
<1>1. CASE Position = 0
    BY <1>1
<1>2. CASE \E k \in 0..Len(lens) : Before(k) \/ Inside(k)
  <2>1. PICK k \in 0..Len(lens) : Before(k) \/ Inside(k)
      BY <1>2
  <2>2. Len(lens) \in Nat
      BY CommandFacts DEF IInv
  <2>3. k \in Nat /\ k <= Len(lens)
      BY <2>2
  <2>4. buf[1] = BuildCmd(lens)[Position + 1] /\ Position < Size
      BY PieceFacts
  <2>5. k = Len(lens) => ~Before(k)
      BY <2>4, CommandFacts, PieceFacts DEF IInv, Before
  <2>6. CASE k < Len(lens) /\ Before(k)
      BY <2>3, <2>4, <2>6, FieldFacts, Tags DEF IInv, Before
  <2>7. CASE k < Len(lens) /\ Inside(k)
    <3>1. lens[k + 1] \in Nat /\ lens[k + 1] > 0 /\ Position = Off(lens)[k] + 2
        BY <2>3, <2>7, FieldFacts DEF IInv, Inside
    <3>2. 1 \in 1..lens[k + 1]
        BY <3>1
    <3>3. BuildCmd(lens)[Position + 1] = Unit("data", k + 1)
        BY <2>3, <2>7, <3>1, <3>2, FieldFacts DEF IInv
    <3> QED BY <2>4, <3>3, Tags
  <2> QED BY <2>1, <2>2, <2>3, <2>5, <2>6, <2>7 DEF Inside
<1> QED BY <1>1, <1>2 DEF Resumed

\* A line that reads like the head of a command is its head.
LEMMA HeadRead ==
  ASSUME IInv, at = "head", HasLine(buf), IsHead(Line(buf))
  PROVE  Position = 0 /\ LineLen(buf) = 3 /\ Len(buf) >= 3 /\ Line(buf)[2].v = Len(lens)
<1>1. Resumed
    BY DEF IInv, Parse
<1>2. LineLen(buf) = 3 /\ Len(buf) >= 3 /\ Line(buf)[1] = buf[1] /\ Line(buf)[2] = buf[2]
  <2>1. buf \in Seq(Units) /\ Len(buf) \in Nat
      BY PieceFacts
  <2>2. LineLen(buf) \in 1..Len(buf) /\ Len(Line(buf)) = LineLen(buf) - 1
        /\ \A j \in 1..(LineLen(buf) - 1) : Line(buf)[j] = buf[j]
      BY <2>1, LineElements
  <2>3. LineLen(buf) - 1 = 2
      BY <2>2 DEF IsHead
  <2> QED BY <2>1, <2>2, <2>3
<1>3. buf[1].t = "op"
    BY <1>2 DEF IsHead
<1>4. Position = 0
    BY <1>1, <1>2, <1>3, PlaceOfUnit, PieceFacts
<1>5. buf[2] = BuildCmd(lens)[2]
    BY <1>2, <1>4, PieceFacts
<1> QED BY <1>2, <1>4, <1>5, CommandFacts, Tags DEF IInv

\* At the start of the command a line is its head.
LEMMA HeadComplete ==
  ASSUME IInv, Position = 0, HasLine(buf)
  PROVE  IsHead(Line(buf))
<1>1. /\ LineLen(buf) \in 1..Len(buf) /\ buf[LineLen(buf)] = Crlf
      /\ \A j \in 1..(LineLen(buf) - 1) : buf[j] # Crlf
      /\ Len(Line(buf)) = LineLen(buf) - 1
      /\ \A j \in 1..(LineLen(buf) - 1) : Line(buf)[j] = buf[j]
    BY LineElements, PieceFacts
<1>2. \A j \in 1..Len(buf) : buf[j] = BuildCmd(lens)[j]
    BY PieceFacts
<1>3. BuildCmd(lens)[1] = Unit("op", 0) /\ BuildCmd(lens)[2] = Unit("count", Len(lens))
      /\ BuildCmd(lens)[3] = Crlf
    BY CommandFacts DEF IInv
<1>4. LineLen(buf) # 1 /\ LineLen(buf) # 2
    BY <1>1, <1>2, <1>3, Tags
<1>5. Len(buf) \in Nat
    BY PieceFacts
<1>6. ~(LineLen(buf) > 3)
    BY <1>1, <1>2, <1>3, <1>5
<1>7. LineLen(buf) = 3
    BY <1>1, <1>4, <1>5, <1>6
<1> QED BY <1>1, <1>2, <1>3, <1>5, <1>7, Tags DEF IsHead

\* Before a field whose length line is in the buffer, that is the line.
LEMMA FieldComplete ==
  ASSUME IInv, NEW k \in Nat, k < Len(lens), Before(k), Len(buf) >= 2
  PROVE  /\ HasLine(buf) /\ LineLen(buf) = 2 /\ Line(buf)[1] = Unit("len", lens[k + 1])
         /\ IsLength(Line(buf))
<1>1. buf[1] = Unit("len", lens[k + 1]) /\ buf[2] = Crlf /\ Len(buf) \in Nat
  <2>1. Len(buf) \in Nat /\ buf[1] = BuildCmd(lens)[Position + 1]
        /\ buf[2] = BuildCmd(lens)[Position + 2]
      BY PieceFacts
  <2>2. BuildCmd(lens)[Off(lens)[k] + 1] = Unit("len", lens[k + 1])
        /\ BuildCmd(lens)[Off(lens)[k] + 2] = Crlf
      BY FieldFacts DEF IInv
  <2> QED BY <2>1, <2>2 DEF Before
<1>2. HasLine(buf)
    BY <1>1 DEF HasLine
<1>3. /\ LineLen(buf) \in 1..Len(buf) /\ buf[LineLen(buf)] = Crlf
      /\ \A j \in 1..(LineLen(buf) - 1) : buf[j] # Crlf
      /\ Len(Line(buf)) = LineLen(buf) - 1
      /\ \A j \in 1..(LineLen(buf) - 1) : Line(buf)[j] = buf[j]
    BY <1>2, LineElements, PieceFacts
<1>4. LineLen(buf) # 1
    BY <1>1, <1>3, Tags
<1>5. LineLen(buf) = 2
    BY <1>1, <1>3, <1>4
<1>6. Line(buf)[1] = Unit("len", lens[k + 1]) /\ Len(Line(buf)) = 1
    BY <1>1, <1>3, <1>5
<1> QED BY <1>2, <1>5, <1>6, Tags DEF IsLength

\* A line that reads like a length is the length of the next field.
LEMMA FieldRead ==
  ASSUME IInv, InFields, IsLength(Line(buf))
  PROVE  /\ Len(fields) \in Nat /\ Len(fields) < Len(lens) /\ Before(Len(fields))
         /\ LineLen(buf) = 2 /\ Len(buf) >= 2
         /\ Line(buf)[1].v = lens[Len(fields) + 1]
<1>1. Taken /\ (Before(Len(fields)) \/ Inside(Len(fields)))
    BY DEF IInv, Parse, InFields
<1>2. Len(fields) \in Nat /\ Len(lens) \in Nat /\ Len(fields) < Len(lens)
    BY <1>1, CommandFacts DEF InFields, Taken, IInv
<1>3. LineLen(buf) = 2 /\ Len(buf) >= 2 /\ Line(buf)[1] = buf[1]
  <2>1. buf \in Seq(Units) /\ Len(buf) \in Nat /\ HasLine(buf)
      BY PieceFacts DEF InFields
  <2>2. LineLen(buf) \in 1..Len(buf) /\ Len(Line(buf)) = LineLen(buf) - 1
        /\ \A j \in 1..(LineLen(buf) - 1) : Line(buf)[j] = buf[j]
      BY <2>1, LineElements
  <2>3. LineLen(buf) - 1 = 1
      BY <2>2 DEF IsLength
  <2> QED BY <2>1, <2>2, <2>3
<1>4. buf[1].t = "len"
    BY <1>3 DEF IsLength
<1>5. Resumed
    BY <1>1, <1>2 DEF Resumed
<1>6. ~Inside(Len(fields))
  <2> SUFFICES ASSUME Inside(Len(fields)) PROVE FALSE
      OBVIOUS
  <2>1. lens[Len(fields) + 1] \in Nat /\ lens[Len(fields) + 1] > 0
        /\ Position = Off(lens)[Len(fields)] + 2
      BY <1>2, FieldFacts DEF IInv, Inside
  <2>2. 1 \in 1..lens[Len(fields) + 1]
      BY <2>1
  <2>3. BuildCmd(lens)[Position + 1] = Unit("data", Len(fields) + 1)
      BY <1>2, <2>1, <2>2, FieldFacts DEF IInv
  <2>4. buf[1] = BuildCmd(lens)[Position + 1]
      BY <1>3, PieceFacts
  <2> QED BY <1>4, <2>3, <2>4, Tags
<1>7. Before(Len(fields))
    BY <1>1, <1>6
<1>8. Line(buf)[1] = Unit("len", lens[Len(fields) + 1])
    BY <1>2, <1>3, <1>7, FieldComplete
<1> QED BY <1>2, <1>3, <1>7, <1>8, Tags

\* Of a command that fits in a read the rest of a field is in the buffer.
LEMMA FieldIsIn ==
  ASSUME IInv, Fits, at = "field", left > 0
  PROVE  /\ Len(fields) \in Nat /\ Len(fields) < Len(lens) /\ Before(Len(fields))
         /\ HasLine(buf) /\ LineLen(buf) = 2 /\ IsLength(Line(buf))
         /\ Line(buf)[1].v = lens[Len(fields) + 1]
         /\ Len(buf) >= 2 + lens[Len(fields) + 1]
<1>1. Taken /\ Before(Len(fields)) /\ Len(out) + Len(wire) = 0
    BY DEF IInv, Parse, InOnePiece
<1>2. Len(fields) \in Nat /\ Len(lens) \in Nat /\ Len(fields) < Len(lens)
    BY <1>1, CommandFacts DEF Taken, IInv
<1>3. lens[Len(fields) + 1] \in Nat
      /\ Position + 2 + lens[Len(fields) + 1] <= Size /\ Position \in Nat
    BY <1>1, <1>2, FieldFacts, PieceFacts DEF IInv, Before
<1>4. Len(buf) >= 2 + lens[Len(fields) + 1] /\ Len(buf) >= 2
    BY <1>1, <1>3, PieceFacts
<1> QED BY <1>1, <1>2, <1>4, FieldComplete, Tags
-----------------------------------------------------------------------------
(* Every step keeps the invariant.                                          *)

\* A step that leaves the command and the place of the parser.
LEMMA SamePlace ==
  ASSUME IInv, lens' = lens, Position' = Position
  PROVE  /\ Sizes' /\ Size' = Size /\ Fits' = Fits /\ Sent' = Sent
         /\ BuildCmd(lens)' = BuildCmd(lens) /\ Off(lens)' = Off(lens)
         /\ \A k : Before(k)' = Before(k) /\ Inside(k)' = Inside(k)
         /\ Resumed' = Resumed
<1>1. Sizes' /\ Size' = Size /\ Fits' = Fits /\ Sent' = Sent
      /\ BuildCmd(lens)' = BuildCmd(lens) /\ Off(lens)' = Off(lens)
    BY DEF IInv, Sizes, Size, Fits, Sent
<1>2. \A k : Before(k)' = Before(k) /\ Inside(k)' = Inside(k)
    BY <1>1 DEF Before, Inside
<1>3. Resumed' = Resumed
    BY <1>1, <1>2 DEF Resumed
<1> QED BY <1>1, <1>2, <1>3

\* The pieces stay too.
LEMMA SameStream ==
  ASSUME IInv, UNCHANGED <<lens, out, wire, buf>>
  PROVE  Position' = Position /\ Stream'
<1>1. Position' = Position /\ BuildCmd(lens)' = BuildCmd(lens)
    BY DEF Position, Size
<1> QED BY <1>1 DEF IInv, Stream, Part

\* The writer moves a piece; one that fits moves whole.
LEMMA KeptByWrite ==
  ASSUME IInv, NEW n \in 1..Chunk, Write(n)
  PROVE  IInv'
<1>1. n \in Nat /\ n <= Len(out) /\ n > 0 /\ Chunk \in Nat
    BY SizeAssumption DEF Write
<1>2. /\ wire' = wire \o SubSeq(out, 1, n) /\ out' = SubSeq(out, n + 1, Len(out))
      /\ UNCHANGED <<lens, open, buf, first, at, left, fields, result>>
    BY DEF Write
<1>3. Position + Len(buf) \in Nat
    BY PieceFacts
<1>4. /\ Part(BuildCmd(lens), wire', Position + Len(buf)) /\ Len(wire') = Len(wire) + n
      /\ Part(BuildCmd(lens), out', Position + Len(buf) + Len(wire'))
      /\ Len(out') = Len(out) - n
  <2>1. Part(BuildCmd(lens), wire, Position + Len(buf))
        /\ Part(BuildCmd(lens), out, Position + Len(buf) + Len(wire))
      BY DEF IInv, Stream
  <2> QED BY <1>1, <1>2, <1>3, <2>1, MovePart
<1>5. Position' = Position
  <2>1. Size' = Size
      BY <1>2 DEF Size
  <2> QED BY <1>1, <1>2, <1>4, <2>1, PieceFacts DEF Position
<1>6. Stream'
    BY <1>2, <1>4, <1>5 DEF IInv, Stream
<1>7. Sizes' /\ Size' = Size /\ Fits' = Fits /\ Sent' = Sent
      /\ \A k : Before(k)' = Before(k) /\ Inside(k)' = Inside(k)
    BY <1>2, <1>5, SamePlace
<1>8. Resumed' = Resumed
    BY <1>2, <1>5, SamePlace
<1>9. Parse'
    BY <1>2, <1>7, <1>8 DEF IInv, Parse, Taken
<1>10. ASSUME Fits PROVE /\ lens # <<>> => Len(wire') = Size
                         /\ at # "field"
  <2>1. Size <= Chunk
      BY <1>10 DEF Fits, Size
  <2>2. ~(Len(out) + Len(wire) = 0) /\ Len(wire) # Size
      BY <1>1, PieceFacts
  <2>3. lens # <<>> => Len(out) = Size /\ (n = Len(out) \/ n = Chunk)
      BY <1>10, <2>2 DEF IInv, InOnePiece, Write
  <2>4. at # "field"
      BY <1>10, <2>2 DEF IInv, InOnePiece
  <2> QED BY <1>1, <1>4, <2>1, <2>3, <2>4, PieceFacts
<1>11. InOnePiece'
    BY <1>2, <1>5, <1>7, <1>10 DEF IInv, InOnePiece
<1>12. NeverMisread'
    BY <1>2, <1>7 DEF IInv, NeverMisread
<1> QED BY <1>6, <1>7, <1>9, <1>11, <1>12 DEF IInv

\* The client dies where it is.
LEMMA KeptByClose ==
  ASSUME IInv, Close
  PROVE  IInv'
<1>1. open' = FALSE /\ UNCHANGED <<lens, out, wire, buf, first, at, left, fields, result>>
    BY DEF Close
<1>2. Position' = Position /\ Stream'
    BY <1>1, SameStream
<1>3. Sizes' /\ Size' = Size /\ Fits' = Fits /\ Sent' = Sent
      /\ \A k : Before(k)' = Before(k) /\ Inside(k)' = Inside(k)
    BY <1>1, <1>2, SamePlace
<1>4. Resumed' = Resumed
    BY <1>1, <1>2, SamePlace
<1>5. Parse'
    BY <1>1, <1>3, <1>4 DEF IInv, Parse, Taken
<1>6. InOnePiece' /\ NeverMisread'
    BY <1>1, <1>2, <1>3 DEF IInv, InOnePiece, NeverMisread
<1> QED BY <1>2, <1>3, <1>5, <1>6 DEF IInv

\* A call starts where the last one stopped.
LEMMA KeptByCall ==
  ASSUME IInv, Call
  PROVE  IInv'
<1>1. /\ at = "tick" /\ result = Pending /\ at' = "head" /\ left' = 0 /\ fields' = <<>>
      /\ UNCHANGED <<lens, out, open, wire, buf, first, result>>
    BY DEF Call, client
<1>2. Position' = Position /\ Stream'
    BY <1>1, SameStream
<1>3. Sizes' /\ Size' = Size /\ Fits' = Fits /\ Sent' = Sent
    BY <1>1, <1>2, SamePlace
<1>4. Resumed' = Resumed
    BY <1>1, <1>2, SamePlace
<1>5. Parse'
  <2>1. 0 \in 0..MaxFields /\ <<>> \in Seq(Seq(Units)) /\ Len(<<>>) = 0
      BY SizeAssumption
  <2> QED BY <1>1, <1>4, <2>1, SizeAssumption DEF IInv, Parse
<1>6. InOnePiece' /\ NeverMisread'
    BY <1>1, <1>2, <1>3 DEF IInv, InOnePiece, NeverMisread
<1> QED BY <1>2, <1>3, <1>5, <1>6 DEF IInv

\* Where the call needs more, a command that fits in a read is at its head.
LEMMA MoreIsNeeded ==
  ASSUME IInv, NeedsMore
  PROVE  /\ Resumed /\ result = Pending /\ at \in {"head", "field", "fill"}
         /\ Fits => at = "head" /\ Position = 0
<1>1. at \in {"head", "field", "fill"} /\ result = Pending
    BY DEF IInv, Parse, NeedsMore
<1>2. CASE at = "head"
    BY <1>1, <1>2 DEF IInv, Parse, InOnePiece
<1>3. CASE at \in {"field", "fill"}
  <2>1. Taken /\ (Before(Len(fields)) \/ Inside(Len(fields)))
      BY <1>3 DEF IInv, Parse
  <2>2. Len(fields) \in 0..Len(lens)
      BY <2>1, CommandFacts DEF Taken, IInv
  <2>3. ~Fits
    <3>1. at = "fill" => ~Fits
        BY DEF IInv, InOnePiece
    <3>2. at = "field" => ~Fits
        BY FieldIsIn DEF NeedsMore
    <3> QED BY <1>3, <3>1, <3>2
  <2> QED BY <1>1, <1>3, <2>1, <2>2, <2>3 DEF Resumed
<1> QED BY <1>1, <1>2, <1>3

\* A call that stops is at a place where the next may start.
LEMMA KeptByFillPartial ==
  ASSUME IInv, FillPartial
  PROVE  IInv'
<1>1. /\ at' = "tick" /\ result' = Pending /\ first' = FALSE
      /\ UNCHANGED <<lens, out, open, wire, buf, left, fields>>
    BY DEF FillPartial, Return, client
<1>2. Resumed /\ result = Pending /\ (Fits => Position = 0)
    BY MoreIsNeeded DEF FillPartial
<1>3. Position' = Position /\ Stream'
    BY <1>1, SameStream
<1>4. Sizes' /\ Size' = Size /\ Fits' = Fits /\ Sent' = Sent
    BY <1>1, <1>3, SamePlace
<1>5. Resumed' = Resumed
    BY <1>1, <1>3, SamePlace
<1>6. Parse'
    BY <1>1, <1>2, <1>5 DEF IInv, Parse, Pending
<1>7. InOnePiece' /\ NeverMisread'
    BY <1>1, <1>2, <1>3, <1>4 DEF IInv, InOnePiece, NeverMisread, Pending
<1> QED BY <1>3, <1>4, <1>6, <1>7 DEF IInv

\* The first read of nothing changes nothing.
LEMMA KeptByFillEmpty ==
  ASSUME IInv, FillEmpty
  PROVE  IInv'
<1>1. /\ at' = (IF at = "fill" THEN "field" ELSE at) /\ first' = FALSE
      /\ UNCHANGED <<lens, out, open, wire, buf, left, fields, result>>
    BY DEF FillEmpty, client
<1>2. result = Pending /\ at \in {"head", "field", "fill"}
      /\ (Fits => at = "head" /\ Position = 0)
    BY MoreIsNeeded DEF FillEmpty
<1>3. Position' = Position /\ Stream'
    BY <1>1, SameStream
<1>4. Sizes' /\ Size' = Size /\ Fits' = Fits /\ Sent' = Sent
      /\ \A k : Before(k)' = Before(k) /\ Inside(k)' = Inside(k)
    BY <1>1, <1>3, SamePlace
<1>5. Resumed' = Resumed
    BY <1>1, <1>3, SamePlace
<1>6. Parse'
  <2>1. Taken' = Taken /\ Before(Len(fields))' = Before(Len(fields))
        /\ Inside(Len(fields))' = Inside(Len(fields))
      BY <1>1, <1>4 DEF Taken
  <2> QED BY <1>1, <1>2, <1>5, <2>1 DEF IInv, Parse
<1>7. InOnePiece' /\ NeverMisread'
    BY <1>1, <1>2, <1>3, <1>4 DEF IInv, InOnePiece, NeverMisread
<1> QED BY <1>3, <1>4, <1>6, <1>7 DEF IInv

\* An end is told only of a closed connection.
LEMMA KeptByFillEof ==
  ASSUME IInv, FillEof
  PROVE  IInv'
<1>1. /\ at' = "tick" /\ result' = Eof /\ ~open
      /\ UNCHANGED <<lens, out, open, wire, buf, first, left, fields>>
    BY DEF FillEof, Return, client
<1>2. Position' = Position /\ Stream'
    BY <1>1, SameStream
<1>3. Sizes' /\ Size' = Size /\ Fits' = Fits
    BY <1>1, <1>2, SamePlace
<1>4. result'.kind = "eof" /\ result' # Pending
    BY <1>1 DEF Eof, Pending
<1>5. Parse'
    BY <1>1, <1>4 DEF IInv, Parse
<1>6. InOnePiece' /\ NeverMisread'
    BY <1>1, <1>2, <1>3, <1>4 DEF IInv, InOnePiece, NeverMisread
<1> QED BY <1>2, <1>3, <1>5, <1>6 DEF IInv

\* A read moves a piece; one that fits moves whole.
LEMMA KeptByFillData ==
  ASSUME IInv, FillData
  PROVE  IInv'
<1> DEFINE n == IF Len(wire) < Chunk THEN Len(wire) ELSE Chunk
<1>1. /\ n \in Nat /\ n <= Len(wire) /\ Len(wire) > 0 /\ (Len(wire) <= Chunk => n = Len(wire))
      /\ Chunk \in Nat
  <2>1. wire \in Seq(Units) /\ wire # <<>>
      BY DEF FillData, IInv, Stream, Part
  <2>2. Len(wire) > 0
      BY <2>1
  <2> QED BY <2>2, SizeAssumption, PieceFacts
<1>2. /\ buf' = buf \o SubSeq(wire, 1, n) /\ wire' = SubSeq(wire, n + 1, Len(wire))
      /\ at' = (IF at = "fill" THEN "field" ELSE at) /\ first' = FALSE
      /\ UNCHANGED <<lens, out, open, left, fields, result>>
    BY DEF FillData, client
<1> HIDE DEF n
<1>3. /\ Part(BuildCmd(lens), buf', Position) /\ Len(buf') = Len(buf) + n
      /\ Part(BuildCmd(lens), wire', Position + Len(buf')) /\ Len(wire') = Len(wire) - n
      /\ Part(BuildCmd(lens), out, Position + Len(buf) + Len(wire))
  <2>1. /\ Part(BuildCmd(lens), buf, Position)
        /\ Part(BuildCmd(lens), wire, Position + Len(buf))
        /\ Part(BuildCmd(lens), out, Position + Len(buf) + Len(wire)) /\ Position \in Nat
      BY DEF IInv, Stream
  <2> QED BY <1>1, <1>2, <2>1, MovePart
<1>4. Position' = Position
  <2>1. Size' = Size
      BY <1>2 DEF Size
  <2> QED BY <1>1, <1>2, <1>3, <2>1, PieceFacts DEF Position
<1>5. Position + Len(buf') + Len(wire') = Position + Len(buf) + Len(wire)
    BY <1>1, <1>3, PieceFacts
<1>6. Stream'
    BY <1>2, <1>3, <1>4, <1>5 DEF IInv, Stream
<1>7. Sizes' /\ Size' = Size /\ Fits' = Fits /\ Sent' = Sent
      /\ \A k : Before(k)' = Before(k) /\ Inside(k)' = Inside(k)
    BY <1>2, <1>4, SamePlace
<1>8. Resumed' = Resumed
    BY <1>2, <1>4, SamePlace
<1>9. result = Pending /\ at \in {"head", "field", "fill"}
      /\ (Fits => at = "head" /\ Position = 0)
    BY MoreIsNeeded DEF FillData
<1>10. Parse'
  <2>1. Taken' = Taken /\ Before(Len(fields))' = Before(Len(fields))
        /\ Inside(Len(fields))' = Inside(Len(fields))
      BY <1>2, <1>7 DEF Taken
  <2> QED BY <1>2, <1>8, <1>9, <2>1 DEF IInv, Parse
<1>11. InOnePiece'
  <2>1. ASSUME Fits, lens # <<>> PROVE Len(out') + Len(wire') = 0
    <3>1. Size <= Chunk
        BY <2>1 DEF Fits, Size
    <3>2. Len(wire) = Size
        BY <1>1, <2>1, PieceFacts DEF IInv, InOnePiece
    <3> QED BY <1>1, <1>2, <1>3, <3>1, <3>2, PieceFacts
  <2> QED BY <1>2, <1>4, <1>7, <1>9, <2>1 DEF IInv, InOnePiece
<1>12. NeverMisread'
    BY <1>2, <1>7 DEF IInv, NeverMisread
<1> QED BY <1>6, <1>7, <1>10, <1>11, <1>12 DEF IInv
\* The line is drained.
LEMMA LineDrained ==
  ASSUME IInv, HasLine(buf), buf' = AfterLine(buf), UNCHANGED <<lens, out, wire>>
  PROVE  /\ Position' = Position + LineLen(buf) /\ Stream' /\ Sizes'
         /\ Len(buf') = Len(buf) - LineLen(buf) /\ LineLen(buf) \in Nat
         /\ Size' = Size /\ Fits' = Fits /\ Sent' = Sent
<1>1. LineLen(buf) \in Nat /\ LineLen(buf) <= Len(buf)
    BY PieceFacts, LineElements
<1>2. Part(BuildCmd(lens), buf', Position + LineLen(buf)) /\ Len(buf') = Len(buf) - LineLen(buf)
  <2>1. Part(BuildCmd(lens), buf, Position) /\ Position \in Nat
      BY DEF IInv, Stream
  <2> QED BY <1>1, <2>1, DropPart DEF AfterLine
<1>3. Size' = Size /\ Fits' = Fits /\ Sent' = Sent /\ Sizes'
    BY DEF Size, Fits, Sent, IInv, Sizes
<1>4. Position' = Position + LineLen(buf)
    BY <1>1, <1>2, <1>3, PieceFacts DEF Position
<1>5. Position' + Len(buf') = Position + Len(buf)
    BY <1>1, <1>2, <1>4, PieceFacts
<1>6. Stream'
  <2>1. Part(BuildCmd(lens), wire, Position + Len(buf))
        /\ Part(BuildCmd(lens), out, Position + Len(buf) + Len(wire)) /\ Position \in Nat
      BY DEF IInv, Stream
  <2>2. Position' \in Nat
      BY <1>1, <1>4, <2>1
  <2> QED BY <1>2, <1>4, <1>5, <2>1, <2>2 DEF Stream
<1> QED BY <1>1, <1>2, <1>3, <1>4, <1>6

\* The head leads to the first field.
LEMMA KeptByTakeHead ==
  ASSUME IInv, TakeHead
  PROVE  IInv'
<1>1. /\ at = "head" /\ HasLine(buf) /\ IsHead(Line(buf))
      /\ at' = "field" /\ left' = Line(buf)[2].v /\ buf' = AfterLine(buf)
      /\ UNCHANGED <<lens, out, open, wire, first, fields, result>>
    BY DEF TakeHead, client
<1>2. Position = 0 /\ LineLen(buf) = 3 /\ Len(buf) >= 3 /\ left' = Len(lens)
    BY <1>1, HeadRead
<1>3. Position' = 3 /\ Stream' /\ Sizes' /\ Size' = Size /\ Fits' = Fits /\ Sent' = Sent
    BY <1>1, <1>2, LineDrained
<1>4. result = Pending /\ fields = <<>>
    BY <1>1 DEF IInv, Parse
<1>5. Len(lens) \in 0..MaxFields /\ Off(lens)[0] = 3
    BY CommandFacts DEF IInv
<1>6. Taken' /\ Before(Len(fields))'
  <2>1. fields' = <<>> /\ Len(<<>>) = 0 /\ <<>> \in Seq(Seq(Units))
      BY <1>1, <1>4
  <2>2. Len(fields') = 0 /\ fields' \in Seq(Seq(Units))
      BY <2>1
  <2>3. Before(Len(fields))'
      BY <1>1, <1>3, <1>5, <2>2 DEF Before
  <2>4. left' \in Nat /\ Len(fields') + left' = Len(lens') /\ 1..Len(fields') = {}
      BY <1>1, <1>2, <1>5, <2>2, SizeAssumption
  <2> QED BY <2>2, <2>3, <2>4 DEF Taken
<1>7. Parse'
    BY <1>1, <1>2, <1>4, <1>5, <1>6 DEF IInv, Parse
<1>8. ASSUME Fits PROVE Len(out) + Len(wire) = 0
  <2>1. CASE lens # <<>>
      BY <1>2, <1>8, <2>1, PieceFacts DEF IInv, InOnePiece
  <2>2. CASE lens = <<>>
    <3>1. Len(lens) = 0
        BY <2>2
    <3>2. Size = 3
        BY <3>1, CommandFacts DEF IInv
    <3> QED BY <1>2, <3>2, PieceFacts
  <2> QED BY <2>1, <2>2
<1>9. InOnePiece' /\ NeverMisread'
    BY <1>1, <1>3, <1>4, <1>6, <1>8 DEF IInv, InOnePiece, NeverMisread, Pending
<1> QED BY <1>3, <1>7, <1>9 DEF IInv

\* What is refused for its head was cut before.
LEMMA KeptByRefuseHead ==
  ASSUME IInv, RefuseHead
  PROVE  IInv'
<1>1. /\ at = "head" /\ HasLine(buf) /\ ~IsHead(Line(buf))
      /\ at' = "tick" /\ result' = Bad /\ buf' = AfterLine(buf)
      /\ UNCHANGED <<lens, out, open, wire, first, left, fields>>
    BY DEF RefuseHead, Return, client
<1>2. Position # 0
    BY <1>1, HeadComplete
<1>3. Stream' /\ Sizes' /\ Fits' = Fits
    BY <1>1, LineDrained
<1>4. ~Fits
    BY <1>1, <1>2 DEF IInv, Parse, InOnePiece
<1>5. result'.kind = "bad" /\ result' # Pending
    BY <1>1 DEF Bad, Pending
<1>6. Parse'
    BY <1>1, <1>5 DEF IInv, Parse
<1>7. InOnePiece' /\ NeverMisread'
    BY <1>3, <1>4, <1>5 DEF InOnePiece, NeverMisread
<1> QED BY <1>3, <1>6, <1>7 DEF IInv

\* What is refused for a length was cut before.
LEMMA KeptByRefuseField ==
  ASSUME IInv, RefuseField
  PROVE  IInv'
<1>1. /\ at = "field" /\ left > 0 /\ HasLine(buf) /\ ~IsLength(Line(buf))
      /\ at' = "tick" /\ result' = Bad /\ buf' = AfterLine(buf)
      /\ UNCHANGED <<lens, out, open, wire, first, left, fields>>
    BY DEF RefuseField, InFields, Return, client
<1>2. Stream' /\ Sizes' /\ Fits' = Fits
    BY <1>1, LineDrained
<1>3. ~Fits
    BY <1>1, FieldIsIn
<1>4. result'.kind = "bad" /\ result' # Pending
    BY <1>1 DEF Bad, Pending
<1>5. Parse'
    BY <1>1, <1>4 DEF IInv, Parse
<1>6. InOnePiece' /\ NeverMisread'
    BY <1>2, <1>3, <1>4 DEF InOnePiece, NeverMisread
<1> QED BY <1>2, <1>5, <1>6 DEF IInv

\* A payload is short only where the command was cut.
LEMMA KeptByStartField ==
  ASSUME IInv, StartField
  PROVE  IInv'
<1>1. /\ at = "field" /\ left > 0 /\ HasLine(buf) /\ IsLength(Line(buf)) /\ ~PayloadIsIn
      /\ at' = "fill" /\ buf' = AfterLine(buf)
      /\ UNCHANGED <<lens, out, open, wire, first, left, fields, result>>
    BY DEF StartField, InFields, client
<1> DEFINE k == Len(fields)
<1>2. /\ k \in Nat /\ k < Len(lens) /\ Before(k) /\ LineLen(buf) = 2 /\ Len(buf) >= 2
      /\ Line(buf)[1].v = lens[k + 1]
    BY <1>1, FieldRead DEF InFields
<1>3. /\ Position' = Position + 2 /\ Stream' /\ Sizes' /\ Fits' = Fits /\ Sent' = Sent
      /\ Len(buf') = Len(buf) - 2
    BY <1>1, <1>2, LineDrained
<1>4. lens[k + 1] \in Nat /\ Len(buf) \in Nat /\ Len(buf) - 2 < lens[k + 1]
  <2>1. lens[k + 1] \in Nat /\ Len(buf) \in Nat
      BY <1>2, FieldFacts, PieceFacts DEF IInv
  <2> QED BY <1>1, <1>2, <1>3, <2>1 DEF PayloadIsIn
<1>5. ~Fits
    BY <1>1, <1>4, FieldIsIn
<1>6. lens[k + 1] > 0
    BY <1>2, <1>4
<1>7. Inside(Len(fields))'
    BY <1>1, <1>2, <1>3, <1>6 DEF Inside, Before
<1>8. Taken'
    BY <1>1, <1>3 DEF IInv, Parse, Taken
<1>9. Parse'
    BY <1>1, <1>7, <1>8 DEF IInv, Parse
<1>10. InOnePiece' /\ NeverMisread'
    BY <1>1, <1>3, <1>5 DEF IInv, InOnePiece, NeverMisread
<1> QED BY <1>3, <1>9, <1>10 DEF IInv

\* A payload that is taken is the next one, whole.
LEMMA KeptByTakeField ==
  ASSUME IInv, TakeField
  PROVE  IInv'
<1> DEFINE k == Len(fields)
           n == lens[k + 1]
           rest == AfterLine(buf)
           field == SubSeq(rest, 1, n)
<1>1. InFields /\ IsLength(Line(buf)) /\ at = "field" /\ left > 0 /\ HasLine(buf)
    BY DEF TakeField, InFields
<1>2. /\ k \in Nat /\ k < Len(lens) /\ Before(k) /\ LineLen(buf) = 2 /\ Len(buf) >= 2
      /\ Line(buf)[1].v = n
    BY <1>1, FieldRead
<1>3. /\ fields' = Append(fields, field) /\ buf' = SubSeq(rest, n + 1, Len(rest))
      /\ Len(rest) >= n /\ left' = left - 1
      /\ UNCHANGED <<lens, out, open, wire, first, at, result>>
    BY <1>2 DEF TakeField, PayloadIsIn, client
<1>4. /\ n \in Nat /\ Off(lens)[k + 1] = Off(lens)[k] + 2 + n
      /\ \A j \in 1..n : BuildCmd(lens)[Position + 2 + j] = Unit("data", k + 1)
    BY <1>2, FieldFacts DEF IInv, Before
<1>5. Position \in Nat /\ Position + 2 \in Nat /\ Part(BuildCmd(lens), buf, Position)
      /\ Len(buf) \in Nat /\ buf \in Seq(Units)
    BY PieceFacts DEF IInv, Stream
<1>6. Part(BuildCmd(lens), rest, Position + 2) /\ Len(rest) = Len(buf) - 2
  <2>1. LineLen(buf) \in Nat /\ LineLen(buf) <= Len(buf)
      BY <1>2
  <2>2. Part(BuildCmd(lens), rest, Position + LineLen(buf))
        /\ Len(rest) = Len(buf) - LineLen(buf)
      BY <1>5, <2>1, DropPart DEF AfterLine
  <2> QED BY <1>2, <2>2
<1> HIDE DEF n, k, rest
<1>7. Part(BuildCmd(lens), buf', Position + 2 + n) /\ Len(buf') = Len(buf) - 2 - n
  <2>1. PICK p \in Nat : p = Position + 2
      BY <1>5
  <2>2. n \in Nat /\ n <= Len(rest) /\ Part(BuildCmd(lens), rest, p)
      BY <1>3, <1>4, <1>6, <2>1
  <2>3. Part(BuildCmd(lens), SubSeq(rest, n + 1, Len(rest)), p + n)
        /\ Len(SubSeq(rest, n + 1, Len(rest))) = Len(rest) - n
      BY <2>2, DropPart
  <2> QED BY <1>3, <1>6, <2>1, <2>3
<1>8. Size' = Size /\ Fits' = Fits /\ Sent' = Sent /\ Sizes'
  <2>1. lens' = lens
      BY <1>3
  <2> QED BY <2>1 DEF Size, Fits, Sent, IInv, Sizes
<1>9. Position' = Position + 2 + n
  <2>1. /\ Len(buf') = Len(buf) - 2 - n /\ Len(wire') = Len(wire) /\ Len(out') = Len(out)
        /\ Size' = Size
      BY <1>3, <1>7, <1>8
  <2>2. /\ Size \in Nat /\ n \in Nat /\ Len(buf) \in Nat /\ Len(wire) \in Nat /\ Len(out) \in Nat
      BY <1>4, PieceFacts
  <2> QED BY <2>1, <2>2 DEF Position
<1>10. Position' \in Nat /\ Position' + Len(buf') = Position + Len(buf)
    BY <1>4, <1>5, <1>7, <1>9
<1>11. Stream'
  <2>1. Part(BuildCmd(lens), wire, Position + Len(buf))
        /\ Part(BuildCmd(lens), out, Position + Len(buf) + Len(wire))
      BY DEF IInv, Stream
  <2> QED BY <1>3, <1>7, <1>9, <1>10, <2>1 DEF Stream
<1>12. field = Payload(k + 1, n) /\ field \in Seq(Units)
  <2>1. rest \in Seq(Units) /\ \A j \in 1..Len(rest) : rest[j] = BuildCmd(lens)[Position + 2 + j]
      BY <1>6 DEF Part
  <2>2. field \in Seq(Units) /\ Len(field) = n /\ \A j \in 1..n : field[j] = rest[j]
      BY <1>3, <1>4, <2>1
  <2>3. \A j \in 1..n : field[j] = Unit("data", k + 1)
    <3>1. \A j \in 1..n : j \in 1..Len(rest)
        BY <1>3, <1>4, <2>1
    <3> QED BY <1>4, <2>1, <2>2, <3>1
  <2> HIDE DEF field
  <2>4. field = [j \in 1..n |-> Unit("data", k + 1)]
      BY <2>2, <2>3
  <2> QED BY <2>2, <2>4 DEF Payload
<1> HIDE DEF field
<1>13. Taken /\ result = Pending
    BY <1>1 DEF IInv, Parse
<1>14. fields \in Seq(Seq(Units)) /\ k = Len(fields) /\ left \in Nat /\ k + left = Len(lens)
       /\ \A i \in 1..k : fields[i] = Sent[i]
    BY <1>13 DEF Taken, k
<1>15. /\ fields' \in Seq(Seq(Units)) /\ Len(fields') = k + 1 /\ fields'[k + 1] = field
       /\ \A i \in 1..k : fields'[i] = fields[i]
    BY <1>3, <1>12, <1>14
<1>16. Sent[k + 1] = field
  <2>1. k + 1 \in 1..Len(lens) /\ n = lens[k + 1]
      BY <1>2, <1>14, CommandFacts DEF IInv, n
  <2> QED BY <1>12, <2>1 DEF Sent
<1>17. Taken'
  <2>1. \A i \in 1..(k + 1) : fields'[i] = Sent[i]
    <3> SUFFICES ASSUME NEW i \in 1..(k + 1) PROVE fields'[i] = Sent[i]
        OBVIOUS
    <3>1. CASE i = k + 1
        BY <3>1, <1>15, <1>16
    <3>2. CASE i \in 1..k
        BY <3>2, <1>14, <1>15
    <3> QED BY <3>1, <3>2, <1>2
  <2>2. left' \in Nat /\ Len(fields') + left' = Len(lens')
      BY <1>1, <1>2, <1>3, <1>14, <1>15
  <2> QED BY <1>8, <1>15, <2>1, <2>2 DEF Taken
<1>18. Before(Len(fields))'
    BY <1>2, <1>3, <1>4, <1>9, <1>15 DEF Before
<1>19. Parse'
  <2>1. left' \in 0..MaxFields /\ Len(fields') <= MaxFields
      BY <1>1, <1>2, <1>3, <1>14, <1>15, CommandFacts, SizeAssumption DEF IInv
  <2> QED BY <1>1, <1>3, <1>13, <1>15, <1>17, <1>18, <2>1 DEF IInv, Parse
<1>20. InOnePiece'
    BY <1>1, <1>3, <1>8, <1>18 DEF IInv, InOnePiece
<1>21. NeverMisread'
    BY <1>3, <1>8 DEF IInv, NeverMisread
<1> QED BY <1>8, <1>11, <1>19, <1>20, <1>21 DEF IInv

\* After the last field the fields are those sent.
LEMMA KeptByParseDone ==
  ASSUME IInv, ParseDone
  PROVE  IInv'
<1>1. /\ at = "field" /\ left = 0 /\ at' = "tick" /\ result' = Command(fields)
      /\ UNCHANGED <<lens, out, open, wire, buf, first, left, fields>>
    BY DEF ParseDone, Return, client
<1>2. Position' = Position /\ Stream'
    BY <1>1, SameStream
<1>3. Sizes' /\ Size' = Size /\ Fits' = Fits /\ Sent' = Sent
    BY <1>1, <1>2, SamePlace
<1>4. result'.kind = "command" /\ result'.fields = fields /\ result' # Pending
    BY <1>1 DEF Command, Pending
<1>5. fields = Sent
  <2>1. /\ fields \in Seq(Seq(Units)) /\ Len(fields) = Len(lens) /\ Len(lens) \in Nat
        /\ \A i \in 1..Len(lens) : fields[i] = Sent[i]
    <3>1. Taken
        BY <1>1 DEF IInv, Parse
    <3>2. Len(lens) \in Nat
        BY CommandFacts, SizeAssumption DEF IInv
    <3> QED BY <1>1, <3>1, <3>2 DEF Taken
  <2> QED BY <2>1 DEF Sent
<1>6. Parse'
    BY <1>1, <1>4 DEF IInv, Parse
<1>7. InOnePiece' /\ NeverMisread'
    BY <1>1, <1>2, <1>3, <1>4, <1>5 DEF IInv, InOnePiece, NeverMisread
<1> QED BY <1>2, <1>3, <1>6, <1>7 DEF IInv

\* The whole command is still to be written.
LEMMA InvariantAtStart == Init => IInv
<1> SUFFICES ASSUME Init PROVE IInv
    OBVIOUS
<1>1. /\ Sizes /\ out = BuildCmd(lens) /\ open = TRUE /\ wire = <<>> /\ buf = <<>>
      /\ first = TRUE /\ at = "tick" /\ left = 0 /\ fields = <<>> /\ result = Pending
    BY DEF Init, Sizes
<1>2. BuildCmd(lens) \in Seq(Units) /\ Size \in Nat
    BY <1>1, CommandFacts
<1>3. Len(out) = Size /\ Len(wire) = 0 /\ Len(buf) = 0
    BY <1>1 DEF Size
<1>4. Position = 0
    BY <1>2, <1>3 DEF Position
<1>5. Stream
    BY <1>1, <1>2, <1>3, <1>4 DEF Stream, Part
<1>6. Resumed
    BY <1>4 DEF Resumed
<1>7. Parse
  <2>1. 0 \in 0..MaxFields /\ fields \in Seq(Seq(Units)) /\ Len(fields) = 0
      BY <1>1, SizeAssumption
  <2> QED BY <1>1, <1>6, <2>1, SizeAssumption DEF Parse, Pending
<1>8. InOnePiece /\ NeverMisread
    BY <1>1, <1>3, <1>4 DEF InOnePiece, NeverMisread, Pending
<1> QED BY <1>1, <1>5, <1>7, <1>8 DEF IInv

\* Every step of the writer, the client and the reader keeps the invariant.
LEMMA InvariantIsKept == IInv /\ [Next]_vars => IInv'
<1> SUFFICES ASSUME IInv, [Next]_vars PROVE IInv'
    OBVIOUS
<1>1. CASE UNCHANGED vars
  <2>1. UNCHANGED <<lens, out, open, wire, buf, first, at, left, fields, result>>
      BY <1>1 DEF vars
  <2>2. Position' = Position /\ Stream'
      BY <2>1, SameStream
  <2>3. Sizes' /\ Size' = Size /\ Fits' = Fits /\ Sent' = Sent
        /\ \A k : Before(k)' = Before(k) /\ Inside(k)' = Inside(k)
      BY <2>1, <2>2, SamePlace
  <2>4. Resumed' = Resumed
      BY <2>1, <2>2, SamePlace
  <2>5. Parse'
      BY <2>1, <2>3, <2>4 DEF IInv, Parse, Taken
  <2>6. InOnePiece' /\ NeverMisread'
      BY <2>1, <2>2, <2>3 DEF IInv, InOnePiece, NeverMisread
  <2> QED BY <2>2, <2>3, <2>5, <2>6 DEF IInv
<1>2. CASE Writer
    BY <1>2, KeptByWrite DEF Writer
<1>3. CASE Close
    BY <1>3, KeptByClose
<1>4. CASE Reader
  <2>1. CASE Call
      BY <2>1, KeptByCall
  <2>2. CASE FillData
      BY <2>2, KeptByFillData
  <2>3. CASE FillPartial
      BY <2>3, KeptByFillPartial
  <2>4. CASE FillEmpty
      BY <2>4, KeptByFillEmpty
  <2>5. CASE FillEof
      BY <2>5, KeptByFillEof
  <2>6. CASE TakeHead
      BY <2>6, KeptByTakeHead
  <2>7. CASE RefuseHead
      BY <2>7, KeptByRefuseHead
  <2>8. CASE TakeField
      BY <2>8, KeptByTakeField
  <2>9. CASE StartField
      BY <2>9, KeptByStartField
  <2>10. CASE RefuseField
      BY <2>10, KeptByRefuseField
  <2>11. CASE ParseDone
      BY <2>11, KeptByParseDone
  <2> QED BY <1>4, <2>1, <2>2, <2>3, <2>4, <2>5, <2>6, <2>7, <2>8, <2>9, <2>10, <2>11
          DEF Reader
<1> QED BY <1>1, <1>2, <1>3, <1>4 DEF Next

\* So it holds throughout.
LEMMA InvariantHolds == Spec => []IInv
  BY InvariantAtStart, InvariantIsKept, PTL DEF Spec

-----------------------------------------------------------------------------

\* The pieces of the command are sequences of units, and no call takes more
\* fields than a command has (TypeOK, client_read_command).
THEOREM ReaderTypeOK == Spec => []TypeOK
<1>1. IInv => TypeOK
  <2> SUFFICES ASSUME IInv PROVE TypeOK
      OBVIOUS
  <2>1. out \in Seq(Units) /\ wire \in Seq(Units) /\ buf \in Seq(Units)
      BY DEF IInv, Stream, Part
  <2>2. ASSUME NEW s \in Seq(Units), NEW k \in 1..Len(s)
        PROVE  s[k].t \in {"op", "count", "len", "crlf", "data"}
    <3>1. s[k] \in Units
        BY <2>2
    <3> QED BY <3>1 DEF Units
  <2>3. \A s \in {out, wire, buf} :
           \A k \in 1..Len(s) : s[k].t \in {"op", "count", "len", "crlf", "data"}
      BY <2>1, <2>2
  <2> QED BY <2>3 DEF IInv, Sizes, Parse, TypeOK
<1> QED BY <1>1, InvariantHolds, PTL

\* Whatever the cuts, and whatever the size of a read, a payload or a command,
\* the daemon acts on the command that was sent or on none.
THEOREM ReaderNeverMisreads == Spec => []NeverMisread
<1>1. IInv => NeverMisread
    BY DEF IInv
<1> QED BY <1>1, InvariantHolds, PTL

\* A command that fits in one read is never refused, and a client is taken for
\* gone only when it has closed its end.
THEOREM ReaderRefusalHasCause == Spec => []RefusalHasCause
<1>1. IInv => RefusalHasCause
    BY DEF IInv, Parse, InOnePiece, RefusalHasCause
<1> QED BY <1>1, InvariantHolds, PTL
=============================================================================
