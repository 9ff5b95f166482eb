-------------------------- MODULE DaemonLoop_proofs --------------------------
(***************************************************************************)
(* Proofs about DaemonLoop for every set of clients and pids.              *)
(***************************************************************************)
EXTENDS DaemonLoop, SequenceTheorems, TLAPS

-----------------------------------------------------------------------------
(* Vec::remove and the other operations on the vector of clients *)

LEMMA RemoveAtFacts ==
    ASSUME NEW S, NEW s \in Seq(S), NEW k \in 1..Len(s)
    PROVE  /\ RemoveAt(s, k) \in Seq(S)
           /\ Len(RemoveAt(s, k)) = Len(s) - 1
           /\ \A j \in 1..(Len(s) - 1) :
                 RemoveAt(s, k)[j] = IF j < k THEN s[j] ELSE s[j + 1]
<1> DEFINE a == SubSeq(s, 1, k - 1)
           b == SubSeq(s, k + 1, Len(s))
<1>1. \A j \in 1..Len(s) : s[j] \in S
  BY ElementOfSeq
<1>2. a \in Seq(S) /\ Len(a) = k - 1 /\ \A j \in 1..(k - 1) : a[j] = s[j]
  <2>1. \A j \in 1..(k - 1) : s[j] \in S
    BY <1>1
  <2> QED
    BY <2>1, SubSeqProperties
<1>3. b \in Seq(S) /\ Len(b) = Len(s) - k /\ \A j \in 1..(Len(s) - k) : b[j] = s[k + j]
  <2>1. \A j \in (k + 1)..Len(s) : s[j] \in S
    BY <1>1
  <2> QED
    BY <2>1, SubSeqProperties
<1> HIDE DEF a, b
<1>4. /\ a \o b \in Seq(S)
      /\ Len(a \o b) = Len(a) + Len(b)
      /\ \A j \in 1..(Len(a) + Len(b)) :
            (a \o b)[j] = IF j <= Len(a) THEN a[j] ELSE b[j - Len(a)]
  BY <1>2, <1>3, ConcatProperties
<1>5. Len(a \o b) = Len(s) - 1
  BY <1>2, <1>3, <1>4
<1>6. \A j \in 1..(Len(s) - 1) : (a \o b)[j] = IF j < k THEN s[j] ELSE s[j + 1]
  <2> SUFFICES ASSUME NEW j \in 1..(Len(s) - 1)
               PROVE  (a \o b)[j] = IF j < k THEN s[j] ELSE s[j + 1]
    OBVIOUS
  <2>1. CASE j < k
    BY <1>2, <1>3, <1>4, <2>1
  <2>2. CASE ~(j < k)
    <3>1. (a \o b)[j] = b[j - (k - 1)]
      BY <1>2, <1>3, <1>4, <2>2
    <3>2. j - (k - 1) \in 1..(Len(s) - k)
      BY <2>2
    <3> QED
      BY <1>3, <2>2, <3>1, <3>2
  <2> QED
    BY <2>1, <2>2
<1> QED
  BY <1>4, <1>5, <1>6 DEF RemoveAt, a, b

-----------------------------------------------------------------------------
(* The pieces the actions are built from *)

LEMMA RowType ==
    ASSUME TypeOK, NEW k \in 1..Len(clients)
    PROVE  /\ clients[k] \in Rows
           /\ clients[k].conn \in Clients
           /\ clients[k].fds \in Clients \cup {Nobody}
           /\ clients[k].pid \in Pids \cup {Nobody}
<1>1. clients[k] \in Rows
  BY ElementOfSeq DEF TypeOK
<1> QED
  BY <1>1 DEF Rows

LEMMA DropRowFacts ==
    ASSUME TypeOK, NEW k \in 1..Len(clients), DropRow(k)
    PROVE  /\ conns' = conns \ {clients[k].conn}
           /\ clients' \in Seq(Rows)
           /\ Len(clients') = Len(clients) - 1
           /\ \A j \in 1..(Len(clients) - 1) :
                 clients'[j] = IF j < k THEN clients[j] ELSE clients[j + 1]
BY RemoveAtFacts DEF TypeOK, DropRow

LEMMA RespondFacts ==
    ASSUME TypeOK, NEW c \in Clients, NEW r \in Replies, Respond(c, r)
    PROVE  /\ ans' \in [Clients -> Seq(Replies)]
           /\ \A d \in Clients : ans'[d] = ans[d] \/ (d = c /\ ans'[d] = Append(ans[d], r))
BY DEF TypeOK, Respond

LEMMA FillFacts ==
    ASSUME NEW row \in Rows
    PROVE  /\ Fill(row) \in Rows
           /\ Fill(row).conn = row.conn
           /\ Fill(row).pid = row.pid
BY DEF Fill, Rows

LEMMA UpdateRowFacts ==
    ASSUME TypeOK, NEW k \in 1..Len(clients), NEW r \in Rows,
           clients' = [clients EXCEPT ![k] = r]
    PROVE  /\ clients' \in Seq(Rows)
           /\ Len(clients') = Len(clients)
           /\ \A j \in 1..Len(clients) : clients'[j] = IF j = k THEN r ELSE clients[j]
BY ExceptSeq DEF TypeOK

LEMMA NoKidType == NoKid \in KidRecords
BY DEF NoKid, KidRecords

LEMMA ReplyType ==
    ASSUME NEW kind \in {"STATUS", "OK", "BYE", "ERR"}, NEW of \in Clients \cup {Nobody}
    PROVE  Reply(kind, of) \in Replies
BY DEF Reply, Replies

-----------------------------------------------------------------------------
(* Type correctness *)

LEMMA InitTyped == Init => TypeOK
<1> SUFFICES ASSUME Init PROVE TypeOK
  OBVIOUS
<1>1. /\ cl \in [Clients -> {"init", "connected", "waiting", "done", "dead"}]
      /\ op \in [Clients -> Commands \cup {"none"}]
      /\ rx \in [Clients -> Commands \cup {"none"}]
      /\ kids \in [Pids -> KidRecords]
  BY NoKidType DEF Init
<1>2. ans \in [Clients -> Seq(Replies)]
  BY EmptySeq DEF Init
<1>3. backlog \in Seq(Clients) /\ clients \in Seq(Rows) /\ ready \in Seq(BOOLEAN)
         /\ Len(ready) = 0 /\ Len(clients) = 0
  BY EmptySeq DEF Init
<1>4. /\ conns \subseteq Clients /\ stdios \subseteq Clients /\ ran \subseteq Clients
      /\ pc = "poll" /\ i = 1 /\ polled = 0 /\ term \in BOOLEAN
  BY DEF Init
<1>5. i \in 1..(Len(clients) + 1)
  BY <1>3, <1>4
<1> QED
  BY <1>1, <1>2, <1>3, <1>4, <1>5 DEF TypeOK

\* Every behaviour of the accept loop is type correct; in particular its index
\* never leaves the vector by more than one, whatever is removed on the way.
THEOREM TypeCorrect == Spec => []TypeOK
<1>1. Init => TypeOK
  BY InitTyped
<1>2. TypeOK /\ [Next]_vars => TypeOK'
  <2> SUFFICES ASSUME TypeOK, [Next]_vars
               PROVE  TypeOK'
    OBVIOUS
  <2> USE DEF env, fds, loop
  <2>1. ASSUME NEW c \in Clients, Connect(c) PROVE TypeOK'
    BY <2>1 DEF Connect, TypeOK
  <2>2. ASSUME NEW c \in Clients, NEW cmd \in Ops, Send(c, cmd) PROVE TypeOK'
    BY <2>2, OpsAssumption DEF Send, TypeOK
  <2>3. ASSUME NEW c \in Clients, Receive(c) PROVE TypeOK'
    BY <2>3 DEF Receive, TypeOK
  <2>4. ASSUME NEW c \in Clients, LoseDaemon(c) PROVE TypeOK'
    BY <2>4 DEF LoseDaemon, TypeOK
  <2>5. ASSUME NEW c \in Clients, Die(c) PROVE TypeOK'
    BY <2>5 DEF Die, TypeOK
  <2>6. ASSUME NEW p \in Pids, KidExit(p) PROVE TypeOK'
    <3>1. kids[p] \in KidRecords
      BY DEF TypeOK
    <3>2. [kids[p] EXCEPT !.st = "zombie", !.held = {}] \in KidRecords
      BY <3>1 DEF KidRecords
    <3>3. kids' \in [Pids -> KidRecords]
      BY <2>6, <3>2, NoKidType DEF KidExit, TypeOK
    <3> QED
      BY <2>6, <3>3 DEF KidExit, TypeOK
  <2>7. CASE TermSignal
    BY <2>7 DEF TermSignal, TypeOK
  <2>8. CASE Crash
    BY <2>8, NoKidType, EmptySeq DEF Crash, TypeOK
  <2>9. CASE NoticeTerm
    BY <2>9 DEF NoticeTerm, TypeOK
  <2>10. CASE Poll
    <3>1. Len(clients) \in Nat
      BY LenProperties DEF TypeOK
    <3>2. ready' \in [1..Len(clients) -> BOOLEAN]
      BY <2>10 DEF Poll, Readable, PeerClosed
    <3>3. ready' \in Seq(BOOLEAN) /\ Len(ready') = Len(clients)
      BY <3>1, <3>2, SeqDef
    <3> QED
      BY <2>10, <3>1, <3>3 DEF Poll, TypeOK
  <2>11. CASE Accept
    <3>1. /\ Head(backlog) \in Clients
          /\ Tail(backlog) \in Seq(Clients)
      BY <2>11, HeadTailProperties DEF Accept, TypeOK
    <3>2. NewRow(Head(backlog)) \in Rows
      BY <3>1 DEF NewRow, Rows
    <3>3. clients' \in Seq(Rows) /\ Len(clients') = Len(clients) + 1
      BY <2>11, <3>2 DEF Accept, TypeOK
    <3> QED
      BY <2>11, <3>1, <3>3, LenProperties DEF Accept, TypeOK
  <2>12. CASE AcceptDone
    BY <2>12 DEF AcceptDone, TypeOK
  <2>13. CASE SkipQuiet
    BY <2>13 DEF SkipQuiet, InScan, ScanNext, TypeOK
  <2>14. CASE PeekAlive
    BY <2>14 DEF PeekAlive, InScan, ScanNext, TypeOK
  <2>15. CASE PeekDead
    <3>1. i \in 1..Len(clients)
      BY <2>15 DEF PeekDead, InScan, TypeOK
    <3>2. DropRow(i) /\ KillChild(clients[i].pid)
      BY <2>15 DEF PeekDead
    <3>3. kids' \in [Pids -> KidRecords]
      BY <3>2, NoKidType DEF KillChild, TypeOK
    <3> QED
      BY <2>15, <3>1, <3>2, <3>3, DropRowFacts DEF PeekDead, ScanSame, TypeOK
  <2>16. CASE ReadPartial
    <3>1. i \in 1..Len(clients)
      BY <2>16 DEF ReadPartial, Reads, InScan, TypeOK
    <3>2. clients' = [clients EXCEPT ![i] = Fill(clients[i])]
      BY <2>16 DEF ReadPartial
    <3>3. clients' \in Seq(Rows) /\ Len(clients') = Len(clients)
      BY <3>1, <3>2, RowType, FillFacts, UpdateRowFacts
    <3> QED
      BY <2>16, <3>1, <3>3 DEF ReadPartial, ScanNext, TypeOK
  <2>17. CASE ReadEof
    <3>1. i \in 1..Len(clients)
      BY <2>17 DEF ReadEof, Reads, InScan, TypeOK
    <3>2. ans' \in [Clients -> Seq(Replies)]
      BY <2>17, <3>1, RowType, ReplyType, RespondFacts DEF ReadEof
    <3> QED
      BY <2>17, <3>1, <3>2, DropRowFacts DEF ReadEof, ScanSame, TypeOK
  <2>18. ASSUME NEW cmd \in Commands, ReadCommand(cmd)
         PROVE  /\ i \in 1..Len(clients)
                /\ rx' \in [Clients -> Commands \cup {"none"}]
                /\ stdios' \subseteq Clients
    <3>1. i \in 1..Len(clients)
      BY <2>18 DEF ReadCommand, Reads, InScan, TypeOK
    <3> QED
      BY <2>18, <3>1, RowType DEF ReadCommand, FillTable, TypeOK
  <2>19. CASE DoPing
    <3>1. i \in 1..Len(clients) /\ rx' \in [Clients -> Commands \cup {"none"}]
             /\ stdios' \subseteq Clients
      BY <2>18, <2>19 DEF DoPing, Commands
    <3>2. clients' \in Seq(Rows) /\ Len(clients') = Len(clients)
      BY <2>19, <3>1, RowType, FillFacts, UpdateRowFacts DEF DoPing
    <3>3. ans' \in [Clients -> Seq(Replies)]
      BY <2>19, <3>1, RowType, ReplyType, RespondFacts DEF DoPing
    <3> QED
      BY <2>19, <3>1, <3>2, <3>3 DEF DoPing, ScanNext, TypeOK
  <2>20. CASE DoStop
    <3>1. i \in 1..Len(clients) /\ rx' \in [Clients -> Commands \cup {"none"}]
             /\ stdios' \subseteq Clients
      BY <2>18, <2>20 DEF DoStop, Commands
    <3>2. clients' \in Seq(Rows) /\ Len(clients') = Len(clients)
      BY <2>20, <3>1, RowType, FillFacts, UpdateRowFacts DEF DoStop
    <3>3. ans' \in [Clients -> Seq(Replies)]
      BY <2>20, <3>1, RowType, ReplyType, RespondFacts DEF DoStop
    <3> QED
      BY <2>20, <3>1, <3>2, <3>3 DEF DoStop, TypeOK
  <2>21. CASE DoBad
    <3>1. i \in 1..Len(clients) /\ rx' \in [Clients -> Commands \cup {"none"}]
             /\ stdios' \subseteq Clients
      BY <2>18, <2>21 DEF DoBad, Commands
    <3>2. ans' \in [Clients -> Seq(Replies)]
      BY <2>21, <3>1, RowType, ReplyType, RespondFacts DEF DoBad
    <3> QED
      BY <2>21, <3>1, <3>2, DropRowFacts DEF DoBad, ScanSame, TypeOK
  <2>22. ASSUME NEW p \in Pids, DoRun(p) PROVE TypeOK'
    <3> DEFINE row == Fill(clients[i])
               new == [row EXCEPT !.fds = Nobody, !.pid = p]
               kid == [st |-> "running", for |-> row.conn, io |-> row.fds,
                       held |-> conns \ {row.conn}]
    <3>1. i \in 1..Len(clients)
      BY <2>22 DEF DoRun, Reads, InScan, TypeOK
    <3>2. row \in Rows /\ row.conn \in Clients /\ row.fds \in Clients \cup {Nobody}
      BY <3>1, RowType, FillFacts DEF Rows
    <3>3. new \in Rows
      BY <3>2 DEF Rows
    <3>4. kid \in KidRecords
      BY <3>2 DEF KidRecords, TypeOK
    <3>5. /\ rx' = [rx EXCEPT ![row.conn] = "none"]
          /\ kids' = [kids EXCEPT ![p] = kid]
          /\ stdios' = FillTable(clients[i]) \ {row.fds}
          /\ clients' = [clients EXCEPT ![i] = new]
          /\ ran' = ran \cup {row.conn}
      BY <2>22 DEF DoRun
    <3> HIDE DEF row, new, kid
    <3>6. clients' \in Seq(Rows) /\ Len(clients') = Len(clients)
      BY <3>1, <3>3, <3>5, UpdateRowFacts
    <3>7. stdios' \subseteq Clients
      BY <3>1, <3>5, RowType DEF FillTable, TypeOK
    <3>8. kids' \in [Pids -> KidRecords] /\ rx' \in [Clients -> Commands \cup {"none"}]
             /\ ran' \subseteq Clients
      BY <3>2, <3>4, <3>5 DEF TypeOK
    <3> QED
      BY <2>22, <3>1, <3>6, <3>7, <3>8 DEF DoRun, ScanNext, TypeOK
  <2>23. CASE ForkFails
    <3>1. i \in 1..Len(clients) /\ rx' \in [Clients -> Commands \cup {"none"}]
             /\ stdios' \subseteq Clients
      BY <2>18, <2>23 DEF ForkFails, Commands
    <3>2. ans' \in [Clients -> Seq(Replies)]
      BY <2>23, <3>1, RowType, ReplyType, RespondFacts DEF ForkFails
    <3> QED
      BY <2>23, <3>1, <3>2, DropRowFacts DEF ForkFails, ScanSame, TypeOK
  <2>24. CASE ScanDone
    BY <2>24, EmptySeq DEF ScanDone, TypeOK
  <2>25. CASE ReapNothing
    BY <2>25 DEF ReapNothing, InReap, TypeOK
  <2>26. CASE ReapChild
    <3>1. i \in 1..Len(clients)
      BY <2>26 DEF ReapChild, InReap, TypeOK
    <3>2. clients[i].pid \in Pids
      BY <2>26, <3>1, RowType DEF ReapChild
    <3>3. PICK of \in WaitNoHang(clients[i].pid) :
              Respond(clients[i].conn, Reply("STATUS", of))
      BY <2>26 DEF ReapChild
    <3>4. of \in Clients \cup {Nobody}
      BY <3>2, <3>3, NobodyAssumption DEF WaitNoHang, TypeOK, KidRecords
    <3>5. ans' \in [Clients -> Seq(Replies)]
      BY <3>1, <3>3, <3>4, RowType, ReplyType, RespondFacts
    <3>6. kids' \in [Pids -> KidRecords]
      BY <2>26, NoKidType DEF ReapChild, TypeOK
    <3> QED
      BY <2>26, <3>1, <3>5, <3>6, DropRowFacts DEF ReapChild, TypeOK
  <2>27. CASE ReapDone
    BY <2>27 DEF ReapDone, TypeOK
  <2>28. CASE ShutdownIdle
    BY <2>28 DEF ShutdownIdle, InShutdown, TypeOK
  <2>29. CASE ShutdownKill
    <3>1. i \in 1..Len(clients)
      BY <2>29 DEF ShutdownKill, InShutdown, TypeOK
    <3>2. clients[i].pid \in Pids
      BY <2>29, <3>1, RowType DEF ShutdownKill
    <3>3. kids[clients[i].pid].for \in Clients \cup {Nobody}
      BY <3>2 DEF TypeOK, KidRecords
    <3>4. ans' \in [Clients -> Seq(Replies)]
      BY <2>29, <3>1, <3>3, RowType, ReplyType, RespondFacts DEF ShutdownKill
    <3>5. [clients[i] EXCEPT !.pid = Nobody] \in Rows
      BY <3>1, RowType DEF Rows
    <3>6. clients' = [clients EXCEPT ![i] = [clients[i] EXCEPT !.pid = Nobody]]
      BY <2>29 DEF ShutdownKill
    <3>7. clients' \in Seq(Rows) /\ Len(clients') = Len(clients)
      BY <3>1, <3>5, <3>6, UpdateRowFacts
    <3>8. kids' \in [Pids -> KidRecords]
      BY <2>29, NoKidType DEF ShutdownKill, KillChild, TypeOK
    <3> QED
      BY <2>29, <3>1, <3>4, <3>7, <3>8 DEF ShutdownKill, TypeOK
  <2>30. CASE Exit
    BY <2>30, EmptySeq DEF Exit, TypeOK
  <2>31. CASE UNCHANGED vars
    BY <2>31 DEF vars, TypeOK
  <2> QED
    BY <2>1, <2>2, <2>3, <2>4, <2>5, <2>6, <2>7, <2>8, <2>9, <2>10, <2>11, <2>12,
       <2>13, <2>14, <2>15, <2>16, <2>17, <2>19, <2>20, <2>21, <2>22, <2>23, <2>24,
       <2>25, <2>26, <2>27, <2>28, <2>29, <2>30, <2>31
    DEF Next, Client, Daemon, Scan
<1> QED
  BY <1>1, <1>2, PTL DEF Spec

-----------------------------------------------------------------------------
(* The vector, the descriptor table and the process table *)

LEMMA DropRowKeepsOthers ==
    ASSUME TypeOK, NEW k \in 1..Len(clients), DropRow(k)
    PROVE  /\ \A m \in 1..Len(clients') :
                 \E j \in 1..Len(clients) :
                     j # k /\ j = (IF m < k THEN m ELSE m + 1) /\ clients'[m] = clients[j]
           /\ \A j \in 1..Len(clients) :
                 j # k => \E m \in 1..Len(clients') : clients'[m] = clients[j]
<1>1. Len(clients) \in Nat
  BY LenProperties DEF TypeOK
<1>2. /\ Len(clients') = Len(clients) - 1
      /\ \A m \in 1..(Len(clients) - 1) :
            clients'[m] = IF m < k THEN clients[m] ELSE clients[m + 1]
  BY DropRowFacts
<1>3. ASSUME NEW m \in 1..Len(clients')
      PROVE  \E j \in 1..Len(clients) :
                 j # k /\ j = (IF m < k THEN m ELSE m + 1) /\ clients'[m] = clients[j]
  <2>1. m \in 1..(Len(clients) - 1)
    BY <1>1, <1>2
  <2> QED
    BY <1>1, <1>2, <2>1
<1>4. ASSUME NEW j \in 1..Len(clients), j # k
      PROVE  \E m \in 1..Len(clients') : clients'[m] = clients[j]
  <2>1. CASE j < k
    BY <1>1, <1>2, <2>1
  <2>2. CASE j > k
    <3>1. j - 1 \in 1..Len(clients') /\ ~(j - 1 < k) /\ (j - 1) + 1 = j
      BY <1>1, <1>2, <2>2
    <3> QED
      BY <1>2, <3>1
  <2> QED
    BY <1>1, <1>4, <2>1, <2>2
<1> QED
  BY <1>3, <1>4

LEMMA DropRowTable ==
    ASSUME TypeOK, TableMatchesRows, NEW k \in 1..Len(clients), DropRow(k),
           UNCHANGED backlog
    PROVE  TableMatchesRows'
<1>1. conns' = conns \ {clients[k].conn}
  BY DropRowFacts
<1>2. ASSUME NEW m \in 1..Len(clients'), NEW n \in 1..Len(clients'),
             clients'[m].conn = clients'[n].conn
      PROVE  m = n
  <2>1. PICK j \in 1..Len(clients) :
           j = (IF m < k THEN m ELSE m + 1) /\ clients'[m] = clients[j]
    BY DropRowKeepsOthers
  <2>2. PICK l \in 1..Len(clients) :
           l = (IF n < k THEN n ELSE n + 1) /\ clients'[n] = clients[l]
    BY DropRowKeepsOthers
  <2>3. j = l
    BY <1>2, <2>1, <2>2 DEF TableMatchesRows
  <2> QED
    BY <2>1, <2>2, <2>3
<1>3. conns' = {clients'[m].conn : m \in 1..Len(clients')}
  <2>1. ASSUME NEW m \in 1..Len(clients') PROVE clients'[m].conn \in conns'
    <3>1. PICK j \in 1..Len(clients) : j # k /\ clients'[m] = clients[j]
      BY DropRowKeepsOthers
    <3>2. clients[j].conn \in conns /\ clients[j].conn # clients[k].conn
      BY <3>1 DEF TableMatchesRows
    <3> QED
      BY <1>1, <3>1, <3>2
  <2>2. ASSUME NEW c \in conns'
        PROVE  \E m \in 1..Len(clients') : clients'[m].conn = c
    <3>1. PICK j \in 1..Len(clients) : clients[j].conn = c /\ j # k
      BY <1>1 DEF TableMatchesRows
    <3> QED
      BY <3>1, DropRowKeepsOthers
  <2> QED
    BY <2>1, <2>2
<1> QED
  BY <1>1, <1>2, <1>3 DEF TableMatchesRows

\* Removing a row together with its child, if it has one, loses no other child.
LEMMA DropRowChildren ==
    ASSUME TypeOK, ChildHasItsRow, NEW k \in 1..Len(clients), DropRow(k),
           ~Down, UNCHANGED pc,
           IF clients[k].pid = Nobody THEN kids' = kids
                                      ELSE kids' = [kids EXCEPT ![clients[k].pid] = NoKid]
    PROVE  ChildHasItsRow'
<1>1. \A j \in 1..Len(clients) : j # k /\ clients[j].pid # Nobody =>
          kids'[clients[j].pid] = kids[clients[j].pid]
  BY RowType DEF ChildHasItsRow, TypeOK
<1>2. ASSUME NEW m \in 1..Len(clients'), NEW n \in 1..Len(clients'),
             clients'[m].pid = clients'[n].pid, clients'[m].pid # Nobody
      PROVE  m = n
  <2>1. PICK j \in 1..Len(clients) :
           j = (IF m < k THEN m ELSE m + 1) /\ clients'[m] = clients[j]
    BY DropRowKeepsOthers
  <2>2. PICK l \in 1..Len(clients) :
           l = (IF n < k THEN n ELSE n + 1) /\ clients'[n] = clients[l]
    BY DropRowKeepsOthers
  <2>3. j = l
    BY <1>2, <2>1, <2>2 DEF ChildHasItsRow
  <2> QED
    BY <2>1, <2>2, <2>3
<1>3. ASSUME NEW m \in 1..Len(clients'), clients'[m].pid # Nobody
      PROVE  /\ kids'[clients'[m].pid].st # "free"
             /\ kids'[clients'[m].pid].for = clients'[m].conn
  <2>1. PICK j \in 1..Len(clients) : j # k /\ clients'[m] = clients[j]
    BY DropRowKeepsOthers
  <2> QED
    BY <1>1, <1>3, <2>1 DEF ChildHasItsRow
<1>4. ASSUME NEW p \in Pids, kids'[p].st # "free"
      PROVE  \E m \in 1..Len(clients') : clients'[m].pid = p
  <2>1. p # clients[k].pid
    BY <1>4, RowType, NobodyAssumption DEF NoKid, TypeOK
  <2>2. kids[p].st # "free"
    BY <1>4, <2>1, RowType DEF TypeOK
  <2>3. PICK j \in 1..Len(clients) : clients[j].pid = p
    BY <2>2 DEF ChildHasItsRow
  <2> QED
    BY <2>1, <2>3, DropRowKeepsOthers
<1> QED
  BY <1>2, <1>3, <1>4 DEF ChildHasItsRow

\* A row that keeps its connection keeps the table.
LEMMA UpdateTable ==
    ASSUME TypeOK, TableMatchesRows, NEW k \in 1..Len(clients), NEW r \in Rows,
           r.conn = clients[k].conn, clients' = [clients EXCEPT ![k] = r],
           UNCHANGED <<conns, backlog>>
    PROVE  TableMatchesRows'
<1>1. /\ Len(clients') = Len(clients)
      /\ \A j \in 1..Len(clients) : clients'[j].conn = clients[j].conn
  BY UpdateRowFacts
<1> QED
  BY <1>1 DEF TableMatchesRows

LEMMA UpdateChildren ==
    ASSUME TypeOK, ChildHasItsRow, NEW k \in 1..Len(clients), NEW r \in Rows,
           r.conn = clients[k].conn, r.pid = clients[k].pid,
           clients' = [clients EXCEPT ![k] = r],
           ~Down, UNCHANGED kids
    PROVE  ChildHasItsRow'
<1>1. /\ Len(clients') = Len(clients)
      /\ \A j \in 1..Len(clients) :
            clients'[j].conn = clients[j].conn /\ clients'[j].pid = clients[j].pid
  BY UpdateRowFacts
<1> QED
  BY <1>1 DEF ChildHasItsRow

-----------------------------------------------------------------------------
(* The inductive invariant *)

\* What a step has to show besides TypeOK', named so that each action proves
\* only what it can disturb.
Queue ==
    /\ \A j, k \in 1..Len(backlog) : backlog[j] = backlog[k] => j = k
    /\ \A k \in 1..Len(backlog) : cl[backlog[k]] # "init"
    /\ \A c \in conns : cl[c] # "init"

Stopping ==
    /\ pc = "down" => \A k \in 1..(i - 1) : clients[k].pid = Nobody
    /\ Down => Len(clients) = 0 /\ Len(backlog) = 0 /\ conns = {}

LEMMA BookkeepingParts ==
    Bookkeeping <=> /\ TypeOK /\ TableMatchesRows /\ ChildHasItsRow
                    /\ NoOrphanAfterShutdown /\ Queue /\ Stopping
BY DEF Bookkeeping, Queue, Stopping

\* A step of a client other than connect, of a signal, or of the daemon that
\* moves only its position: vector, tables and queue stay as they are.
LEMMA BookkeepingUnmoved ==
    ASSUME Bookkeeping, TypeOK', UNCHANGED <<conns, backlog, clients, kids>>,
           \A c \in Clients : cl[c] # "init" => cl'[c] # "init",
           Down' <=> Down,
           pc' = "off" => pc = "off",
           pc' = "down" => (i' = 1 \/ (pc = "down" /\ i' = i)
                            \/ (pc = "down" /\ i' = i + 1 /\ clients[i].pid = Nobody))
    PROVE  Bookkeeping'
<1>1. TypeOK /\ TableMatchesRows /\ ChildHasItsRow /\ NoOrphanAfterShutdown /\ Queue /\ Stopping
  BY BookkeepingParts
<1>2. conns' = conns /\ backlog' = backlog /\ clients' = clients /\ kids' = kids
  OBVIOUS
<1>3. TableMatchesRows'
  BY <1>1, <1>2 DEF TableMatchesRows
<1>4. ChildHasItsRow'
  <2>1. ~Down' => ~Down
    OBVIOUS
  <2> QED
    BY <1>1, <1>2, <2>1 DEF ChildHasItsRow
<1>5. NoOrphanAfterShutdown'
  BY <1>1, <1>2 DEF NoOrphanAfterShutdown
<1>6. Queue'
  <2>1. \A k \in 1..Len(backlog) : backlog[k] \in Clients
    BY <1>1, ElementOfSeq DEF TypeOK
  <2>2. \A c \in conns : c \in Clients
    BY <1>1 DEF TypeOK
  <2> QED
    BY <1>1, <1>2, <2>1, <2>2 DEF Queue
<1>7. Stopping'
  <2>1. ASSUME pc' = "down", NEW k \in 1..(i' - 1) PROVE clients[k].pid = Nobody
    <3>1. i \in Nat
      BY <1>1, LenProperties DEF TypeOK
    <3>2. CASE i' = 1
      BY <3>2
    <3>3. CASE pc = "down" /\ i' = i
      BY <1>1, <3>3 DEF Stopping
    <3>4. CASE pc = "down" /\ i' = i + 1 /\ clients[i].pid = Nobody
      <4>1. k = i \/ k \in 1..(i - 1)
        BY <3>1, <3>4
      <4> QED
        BY <1>1, <3>4, <4>1 DEF Stopping
    <3> QED
      BY <2>1, <3>2, <3>3, <3>4
  <2>2. Down' => Len(clients') = 0 /\ Len(backlog') = 0 /\ conns' = {}
    BY <1>1, <1>2 DEF Stopping
  <2> QED
    BY <1>2, <2>1, <2>2 DEF Stopping
<1> QED
  BY <1>3, <1>4, <1>5, <1>6, <1>7 DEF Bookkeeping, Queue, Stopping

\* A step of the scan or of the reap that removes row i, its child with it.
LEMMA BookkeepingDropRow ==
    ASSUME Bookkeeping, TypeOK', i \in 1..Len(clients), DropRow(i),
           pc \in {"scan", "reap"}, UNCHANGED <<cl, backlog, pc>>,
           IF clients[i].pid = Nobody THEN kids' = kids
                                      ELSE kids' = [kids EXCEPT ![clients[i].pid] = NoKid]
    PROVE  Bookkeeping'
<1> USE BookkeepingParts
<1>1. TableMatchesRows'
  BY DropRowTable
<1>2. ChildHasItsRow'
  BY DropRowChildren DEF Down
<1>3. Queue'
  BY DropRowFacts DEF Queue
<1>4. Stopping' /\ NoOrphanAfterShutdown'
  BY DEF Stopping, NoOrphanAfterShutdown, Down
<1> QED
  BY <1>1, <1>2, <1>3, <1>4 DEF Bookkeeping, Queue, Stopping

\* A step of the scan that reads row i and keeps it, its child unchanged.
LEMMA BookkeepingFill ==
    ASSUME Bookkeeping, TypeOK', i \in 1..Len(clients),
           clients' = [clients EXCEPT ![i] = Fill(clients[i])],
           pc = "scan", pc' = "scan" \/ (pc' = "down" /\ i' = 1),
           UNCHANGED <<cl, backlog, conns, kids>>
    PROVE  Bookkeeping'
<1> USE BookkeepingParts
<1> DEFINE row == Fill(clients[i])
<1>1. row \in Rows /\ row.conn = clients[i].conn /\ row.pid = clients[i].pid
  BY RowType, FillFacts
<1> HIDE DEF row
<1>2. clients' = [clients EXCEPT ![i] = row]
  BY DEF row
<1>3. TableMatchesRows'
  BY <1>1, <1>2, UpdateTable
<1>4. ChildHasItsRow'
  BY <1>1, <1>2, UpdateChildren DEF Down
<1>5. Queue'
  BY DEF Queue
<1>6. Stopping' /\ NoOrphanAfterShutdown'
  BY DEF Stopping, NoOrphanAfterShutdown, Down
<1> QED
  BY <1>1, <1>3, <1>4, <1>5, <1>6 DEF Bookkeeping, Queue, Stopping

\* The child's exit empties no slot of the process table while the daemon runs.
LEMMA BookkeepingKidExit ==
    ASSUME Bookkeeping, TypeOK', NEW p \in Pids, KidExit(p)
    PROVE  Bookkeeping'
<1>1. TypeOK /\ TableMatchesRows /\ ChildHasItsRow /\ NoOrphanAfterShutdown /\ Queue /\ Stopping
  BY BookkeepingParts
<1>2. /\ UNCHANGED <<clients, conns, backlog, cl, pc, i>>
      /\ kids' = [kids EXCEPT ![p] =
                     IF Down THEN NoKid ELSE [kids[p] EXCEPT !.st = "zombie", !.held = {}]]
      /\ kids[p].st = "running"
  BY DEF KidExit, env, fds, loop
<1>3. TableMatchesRows' /\ Queue' /\ Stopping'
  BY <1>1, <1>2 DEF TableMatchesRows, Queue, Stopping, Down
<1>4. \A q \in Pids : kids[q] \in KidRecords
  BY <1>1 DEF TypeOK
<1>5. CASE Down
  <2>1. Len(clients') = 0 /\ Down'
    BY <1>1, <1>2, <1>5 DEF Stopping, Down
  <2>2. ChildHasItsRow'
    BY <2>1 DEF ChildHasItsRow
  <2>3. NoOrphanAfterShutdown'
    BY <1>1, <1>2, <1>5 DEF NoOrphanAfterShutdown, NoKid, TypeOK
  <2> QED
    BY <1>3, <2>2, <2>3, BookkeepingParts DEF Bookkeeping, Queue, Stopping
<1>6. CASE ~Down
  <2>1. \A q \in Pids : /\ kids'[q].for = kids[q].for
                        /\ kids'[q].st = "free" <=> kids[q].st = "free"
    BY <1>1, <1>2, <1>4, <1>6 DEF TypeOK, KidRecords
  <2>2. \A k \in 1..Len(clients) : clients[k].pid # Nobody => clients[k].pid \in Pids
    BY <1>1, RowType
  <2>3. ChildHasItsRow'
    BY <1>1, <1>2, <1>6, <2>1, <2>2 DEF ChildHasItsRow, Down
  <2>4. NoOrphanAfterShutdown'
    BY <1>2, <1>6 DEF NoOrphanAfterShutdown, Down
  <2> QED
    BY <1>3, <2>3, <2>4 DEF Bookkeeping, Queue, Stopping
<1> QED
  BY <1>5, <1>6

LEMMA BookkeepingConnect ==
    ASSUME Bookkeeping, TypeOK', NEW c \in Clients, Connect(c)
    PROVE  Bookkeeping'
<1>1. TypeOK /\ TableMatchesRows /\ ChildHasItsRow /\ NoOrphanAfterShutdown /\ Queue /\ Stopping
  BY BookkeepingParts
<1>2. /\ UNCHANGED <<clients, conns, kids, pc, i>>
      /\ backlog' = Append(backlog, c)
      /\ cl' = [cl EXCEPT ![c] = "connected"]
      /\ cl[c] = "init" /\ ~Down
  BY DEF Connect, fds, loop
<1>3. /\ Len(backlog) \in Nat /\ Len(backlog') = Len(backlog) + 1
      /\ \A k \in 1..Len(backlog) : backlog'[k] = backlog[k] /\ backlog[k] \in Clients
      /\ backlog'[Len(backlog) + 1] = c
  BY <1>1, <1>2, ElementOfSeq, AppendProperties, LenProperties DEF TypeOK
<1>4. c \notin conns /\ \A k \in 1..Len(backlog) : backlog[k] # c
  BY <1>1, <1>2 DEF Queue
<1>5. \A k \in 1..Len(backlog') : k \in 1..Len(backlog) \/ k = Len(backlog) + 1
  BY <1>3
<1>6. TableMatchesRows'
  BY <1>1, <1>2, <1>3, <1>4, <1>5 DEF TableMatchesRows
<1>7. Queue'
  <2>1. \A d \in Clients : cl[d] # "init" => cl'[d] # "init"
    BY <1>1, <1>2 DEF TypeOK
  <2>2. cl'[c] # "init"
    BY <1>1, <1>2 DEF TypeOK
  <2>3. \A d \in conns' : cl'[d] # "init"
    BY <1>1, <1>2, <2>1 DEF Queue, TypeOK
  <2>4. \A k \in 1..Len(backlog') : cl'[backlog'[k]] # "init"
    BY <1>1, <1>3, <1>5, <2>1, <2>2 DEF Queue
  <2>5. \A j, k \in 1..Len(backlog') : backlog'[j] = backlog'[k] => j = k
    BY <1>1, <1>3, <1>4, <1>5 DEF Queue
  <2> QED
    BY <2>3, <2>4, <2>5 DEF Queue
<1>8. ChildHasItsRow' /\ NoOrphanAfterShutdown' /\ Stopping'
  BY <1>1, <1>2 DEF ChildHasItsRow, NoOrphanAfterShutdown, Stopping, Down
<1> QED
  BY <1>6, <1>7, <1>8 DEF Bookkeeping, Queue, Stopping

LEMMA BookkeepingAccept ==
    ASSUME Bookkeeping, TypeOK', Accept
    PROVE  Bookkeeping'
<1> DEFINE c == Head(backlog)
           n == Len(clients)
<1>1. TypeOK /\ TableMatchesRows /\ ChildHasItsRow /\ NoOrphanAfterShutdown /\ Queue /\ Stopping
  BY BookkeepingParts
<1>2. /\ UNCHANGED <<cl, kids, pc, i>> /\ pc = "accept"
      /\ backlog' = Tail(backlog) /\ backlog # <<>>
      /\ conns' = conns \cup {c}
      /\ clients' = Append(clients, NewRow(c))
  BY DEF Accept, fds, loop
<1>3. /\ Len(backlog) \in Nat \ {0} /\ c = backlog[1] /\ c \in Clients
      /\ Len(backlog') = Len(backlog) - 1
      /\ \A k \in 1..(Len(backlog) - 1) : backlog'[k] = backlog[k + 1]
  BY <1>1, <1>2, HeadTailProperties, ElementOfSeq, LenProperties, EmptySeq DEF TypeOK
<1>4. NewRow(c) \in Rows /\ NewRow(c).conn = c /\ NewRow(c).pid = Nobody
  BY <1>3 DEF NewRow, Rows
<1> HIDE DEF c
<1>5. /\ n \in Nat /\ Len(clients') = n + 1
      /\ \A k \in 1..n : clients'[k] = clients[k]
      /\ clients'[n + 1] = NewRow(c)
  BY <1>1, <1>2, <1>4, AppendProperties, LenProperties DEF TypeOK
<1> HIDE DEF n
<1>6. \A k \in 1..(n + 1) : k \in 1..n \/ k = n + 1
  BY <1>5
<1>7. n = Len(clients)
  BY DEF n
<1>8. c \notin conns /\ \A k \in 1..(Len(backlog) - 1) : backlog'[k] # c
  BY <1>1, <1>3 DEF TableMatchesRows, Queue
<1>9. TableMatchesRows'
  <2>1. \A j, k \in 1..Len(clients') : clients'[j].conn = clients'[k].conn => j = k
    BY <1>1, <1>4, <1>5, <1>6, <1>7, <1>8 DEF TableMatchesRows
  <2>2. conns' = {clients'[k].conn : k \in 1..Len(clients')}
    <3>1. \A k \in 1..Len(clients') : clients'[k].conn \in conns'
      BY <1>1, <1>2, <1>4, <1>5, <1>6, <1>7 DEF TableMatchesRows
    <3>2. ASSUME NEW d \in conns' PROVE \E k \in 1..Len(clients') : clients'[k].conn = d
      <4>1. CASE d = c
        BY <1>4, <1>5, <4>1
      <4>2. CASE d \in conns
        <5>1. PICK k \in 1..n : clients[k].conn = d
          BY <1>1, <1>7, <4>2 DEF TableMatchesRows
        <5> QED
          BY <1>5, <5>1
      <4> QED
        BY <1>2, <4>1, <4>2
    <3> QED
      BY <3>1, <3>2
  <2>3. ASSUME NEW k \in 1..Len(backlog') PROVE backlog'[k] \notin conns'
    <3>1. k \in 1..(Len(backlog) - 1) /\ k + 1 \in 1..Len(backlog)
      BY <1>3
    <3>2. backlog'[k] \notin conns /\ backlog'[k] # c
      BY <1>1, <1>3, <1>8, <3>1 DEF TableMatchesRows
    <3> QED
      BY <1>2, <3>2
  <2> QED
    BY <2>1, <2>2, <2>3 DEF TableMatchesRows
<1>10. ChildHasItsRow'
  <2>1. ~Down /\ ~Down'
    BY <1>2 DEF Down
  <2>2. \A j, k \in 1..Len(clients') :
           clients'[j].pid = clients'[k].pid /\ clients'[j].pid # Nobody => j = k
    BY <1>1, <1>4, <1>5, <1>6, <1>7 DEF ChildHasItsRow
  <2>3. \A k \in 1..Len(clients') :
           clients'[k].pid # Nobody =>
               /\ kids'[clients'[k].pid].st # "free"
               /\ kids'[clients'[k].pid].for = clients'[k].conn
    BY <1>1, <1>2, <1>4, <1>5, <1>6, <1>7 DEF ChildHasItsRow
  <2>4. \A p \in Pids : kids'[p].st # "free" => \E k \in 1..Len(clients') : clients'[k].pid = p
    BY <1>1, <1>2, <1>5, <1>7, <2>1 DEF ChildHasItsRow
  <2> QED
    BY <2>2, <2>3, <2>4 DEF ChildHasItsRow
<1>11. Queue'
  BY <1>1, <1>2, <1>3 DEF Queue
<1>12. NoOrphanAfterShutdown' /\ Stopping'
  BY <1>2 DEF NoOrphanAfterShutdown, Stopping, Down
<1> QED
  BY <1>9, <1>10, <1>11, <1>12 DEF Bookkeeping, Queue, Stopping

\* fork(2) gives the row a child, and a free slot of the process table to it.
LEMMA BookkeepingDoRun ==
    ASSUME Bookkeeping, TypeOK', NEW p \in Pids, DoRun(p)
    PROVE  Bookkeeping'
<1> DEFINE row == [Fill(clients[i]) EXCEPT !.fds = Nobody, !.pid = p]
<1>1. TypeOK /\ TableMatchesRows /\ ChildHasItsRow /\ NoOrphanAfterShutdown /\ Queue /\ Stopping
  BY BookkeepingParts
<1>2. /\ UNCHANGED <<cl, backlog, conns, pc>> /\ pc = "scan"
      /\ i \in 1..Len(clients) /\ clients[i].pid = Nobody /\ kids[p].st = "free"
      /\ clients' = [clients EXCEPT ![i] = row]
  BY <1>1 DEF DoRun, Reads, InScan, env, ScanNext, TypeOK
<1>3. Fill(clients[i]) \in Rows /\ Fill(clients[i]).conn = clients[i].conn
  BY <1>1, <1>2, RowType, FillFacts
<1>4. row \in Rows /\ row.conn = clients[i].conn /\ row.pid = p
  BY <1>3 DEF Rows
<1> HIDE DEF row
<1>5. /\ kids'[p].st = "running" /\ kids'[p].for = clients[i].conn
      /\ \A q \in Pids : q # p => kids'[q] = kids[q]
  BY <1>1, <1>3 DEF DoRun, TypeOK
<1>6. /\ Len(clients') = Len(clients)
      /\ \A j \in 1..Len(clients) : clients'[j] = IF j = i THEN row ELSE clients[j]
  BY <1>1, <1>2, <1>4, UpdateRowFacts
<1>7. TableMatchesRows'
  BY <1>1, <1>2, <1>4, UpdateTable
<1>8. ChildHasItsRow'
  <2>1. p # Nobody /\ \A j \in 1..Len(clients) : clients[j].pid # p
    BY <1>1, <1>2, NobodyAssumption DEF ChildHasItsRow
  <2>2. \A j, k \in 1..Len(clients') :
           clients'[j].pid = clients'[k].pid /\ clients'[j].pid # Nobody => j = k
    BY <1>1, <1>4, <1>6, <2>1 DEF ChildHasItsRow
  <2>3. ASSUME NEW k \in 1..Len(clients'), clients'[k].pid # Nobody
        PROVE  /\ kids'[clients'[k].pid].st # "free"
               /\ kids'[clients'[k].pid].for = clients'[k].conn
    <3>1. CASE k = i
      BY <1>2, <1>4, <1>5, <1>6, <3>1
    <3>2. CASE k # i
      <4>1. clients'[k] = clients[k] /\ clients[k].pid \in Pids /\ clients[k].pid # p
        BY <1>1, <1>6, <2>1, <2>3, <3>2, RowType
      <4> QED
        BY <1>1, <1>5, <1>6, <2>3, <4>1 DEF ChildHasItsRow
    <3> QED
      BY <3>1, <3>2
  <2>4. ASSUME NEW q \in Pids, kids'[q].st # "free"
        PROVE  \E k \in 1..Len(clients') : clients'[k].pid = q
    <3>1. CASE q = p
      BY <1>2, <1>4, <1>6, <3>1
    <3>2. CASE q # p
      <4>1. PICK k \in 1..Len(clients) : clients[k].pid = q
        BY <1>1, <1>2, <1>5, <2>4, <3>2 DEF ChildHasItsRow, Down
      <4>2. k # i
        BY <1>2, <4>1, NobodyAssumption
      <4> QED
        BY <1>6, <4>1, <4>2
    <3> QED
      BY <3>1, <3>2
  <2> QED
    BY <2>2, <2>3, <2>4 DEF ChildHasItsRow
<1>9. Queue' /\ Stopping' /\ NoOrphanAfterShutdown'
  BY <1>1, <1>2 DEF Queue, Stopping, NoOrphanAfterShutdown, Down
<1> QED
  BY <1>7, <1>8, <1>9 DEF Bookkeeping, Queue, Stopping

\* The shutdown reaps the child of row i and forgets its pid.
LEMMA BookkeepingShutdownKill ==
    ASSUME Bookkeeping, TypeOK', ShutdownKill
    PROVE  Bookkeeping'
<1> DEFINE row == [clients[i] EXCEPT !.pid = Nobody]
           p == clients[i].pid
<1>1. TypeOK /\ TableMatchesRows /\ ChildHasItsRow /\ NoOrphanAfterShutdown /\ Queue /\ Stopping
  BY BookkeepingParts
<1>2. /\ UNCHANGED <<cl, backlog, conns, pc>> /\ pc = "down" /\ i' = i + 1
      /\ i \in 1..Len(clients) /\ p # Nobody
      /\ kids' = [kids EXCEPT ![p] = NoKid]
      /\ clients' = [clients EXCEPT ![i] = row]
  BY <1>1 DEF ShutdownKill, InShutdown, env, fds, KillChild, TypeOK
<1>3. p \in Pids
  BY <1>1, <1>2, RowType
<1>4. row \in Rows /\ row.conn = clients[i].conn /\ row.pid = Nobody
  BY <1>1, <1>2, RowType DEF Rows
<1> HIDE DEF row
<1>5. /\ kids'[p].st = "free"
      /\ \A q \in Pids : q # p => kids'[q] = kids[q]
  BY <1>1, <1>2, <1>3 DEF TypeOK, NoKid
<1>6. /\ Len(clients') = Len(clients)
      /\ \A j \in 1..Len(clients) : clients'[j] = IF j = i THEN row ELSE clients[j]
  BY <1>1, <1>2, <1>4, UpdateRowFacts
<1>7. TableMatchesRows'
  BY <1>1, <1>2, <1>4, UpdateTable
<1>8. ChildHasItsRow'
  <2>1. \A j \in 1..Len(clients) : j # i => clients[j].pid # p
    BY <1>1, <1>2 DEF ChildHasItsRow
  <2>2. \A j, k \in 1..Len(clients') :
           clients'[j].pid = clients'[k].pid /\ clients'[j].pid # Nobody => j = k
    BY <1>1, <1>4, <1>6 DEF ChildHasItsRow
  <2>3. ASSUME NEW k \in 1..Len(clients'), clients'[k].pid # Nobody
        PROVE  /\ kids'[clients'[k].pid].st # "free"
               /\ kids'[clients'[k].pid].for = clients'[k].conn
    <3>1. k # i /\ clients'[k] = clients[k]
      BY <1>4, <1>6, <2>3
    <3>2. clients[k].pid \in Pids /\ clients[k].pid # p
      BY <1>1, <1>6, <2>1, <2>3, <3>1, RowType
    <3> QED
      BY <1>1, <1>5, <1>6, <2>3, <3>1, <3>2 DEF ChildHasItsRow
  <2>4. ASSUME NEW q \in Pids, kids'[q].st # "free"
        PROVE  \E k \in 1..Len(clients') : clients'[k].pid = q
    <3>1. q # p /\ kids[q].st # "free"
      BY <1>5, <2>4
    <3>2. PICK k \in 1..Len(clients) : clients[k].pid = q
      BY <1>1, <1>2, <3>1 DEF ChildHasItsRow, Down
    <3> QED
      BY <1>6, <3>1, <3>2
  <2> QED
    BY <2>2, <2>3, <2>4 DEF ChildHasItsRow
<1>9. Stopping'
  <2>1. ASSUME NEW k \in 1..(i' - 1) PROVE clients'[k].pid = Nobody
    <3>1. k \in 1..Len(clients) /\ (k = i \/ k \in 1..(i - 1))
      BY <1>1, <1>2
    <3> QED
      BY <1>1, <1>2, <1>4, <1>6, <3>1 DEF Stopping
  <2> QED
    BY <1>2, <2>1 DEF Stopping, Down
<1>10. Queue' /\ NoOrphanAfterShutdown'
  BY <1>1, <1>2 DEF Queue, NoOrphanAfterShutdown
<1> QED
  BY <1>7, <1>8, <1>9, <1>10 DEF Bookkeeping, Queue, Stopping

\* The process is gone and its vector with it: nothing is left to relate.  A
\* clean exit finds every row without a child, so no child is left at all.
LEMMA BookkeepingGone ==
    ASSUME Bookkeeping, TypeOK', Exit \/ Crash
    PROVE  Bookkeeping'
<1>1. TypeOK /\ TableMatchesRows /\ ChildHasItsRow /\ NoOrphanAfterShutdown /\ Queue /\ Stopping
  BY BookkeepingParts
<1>2. backlog' = <<>> /\ clients' = <<>> /\ conns' = {} /\ Down'
  BY DEF Exit, Crash, Down
<1>3. Len(clients') = 0 /\ Len(backlog') = 0 /\ pc' # "down"
  BY <1>2, EmptySeq DEF Down
<1>4. TableMatchesRows' /\ ChildHasItsRow' /\ Queue' /\ Stopping'
  BY <1>2, <1>3 DEF TableMatchesRows, ChildHasItsRow, Queue, Stopping
<1>5. NoOrphanAfterShutdown'
  <2>1. CASE Crash
    BY <2>1 DEF Crash, NoOrphanAfterShutdown
  <2>2. CASE Exit
    <3>1. pc = "down" /\ i > Len(clients) /\ kids' = kids
      BY <2>2 DEF Exit
    <3>2. \A k \in 1..Len(clients) : clients[k].pid = Nobody
      <4>1. i = Len(clients) + 1 /\ Len(clients) \in Nat
        BY <1>1, <3>1, LenProperties DEF TypeOK
      <4> QED
        BY <1>1, <3>1, <4>1 DEF Stopping
    <3>3. \A p \in Pids : kids[p].st = "free"
      BY <1>1, <3>1, <3>2, NobodyAssumption DEF ChildHasItsRow, Down
    <3> QED
      BY <3>1, <3>3 DEF NoOrphanAfterShutdown
  <2> QED
    BY <2>1, <2>2
<1> QED
  BY <1>4, <1>5 DEF Bookkeeping, Queue, Stopping

\* Bookkeeping holds initially and every step keeps it: rows, descriptors and
\* children correspond for any number of clients and pids.
THEOREM BookkeepingHolds == Spec => []Bookkeeping
<1>1. Init => Bookkeeping
  <2> SUFFICES ASSUME Init PROVE Bookkeeping
    OBVIOUS
  <2>1. Len(clients) = 0 /\ Len(backlog) = 0 /\ conns = {} /\ pc = "poll"
    BY EmptySeq DEF Init
  <2>2. TypeOK
    BY InitTyped
  <2>3. \A p \in Pids : kids[p].st = "free"
    BY DEF Init, NoKid
  <2> QED
    BY <2>1, <2>2, <2>3 DEF Bookkeeping, TableMatchesRows, ChildHasItsRow,
       NoOrphanAfterShutdown, Down
<1>2. Bookkeeping /\ TypeOK' /\ [Next]_vars => Bookkeeping'
  <2> SUFFICES ASSUME Bookkeeping, TypeOK', [Next]_vars PROVE Bookkeeping'
    OBVIOUS
  <2>1. TypeOK
    BY BookkeepingParts
  <2>2. \A k \in 1..Len(clients) : clients[k].conn \in Clients
    BY <2>1, RowType
  <2>3. CASE \E c \in Clients : Connect(c)
    BY <2>3, BookkeepingConnect
  <2>4. CASE \E p \in Pids : KidExit(p)
    BY <2>4, BookkeepingKidExit
  <2>5. CASE Accept
    BY <2>5, BookkeepingAccept
  <2>6. CASE \E p \in Pids : DoRun(p)
    BY <2>6, BookkeepingDoRun
  <2>7. CASE ShutdownKill
    BY <2>7, BookkeepingShutdownKill
  <2>8. CASE Exit \/ Crash
    BY <2>8, BookkeepingGone
  <2>9. ASSUME NEW c \in Clients,
               (\E cmd \in Ops : Send(c, cmd)) \/ Receive(c) \/ LoseDaemon(c) \/ Die(c)
        PROVE  Bookkeeping'
    <3>1. /\ UNCHANGED <<conns, backlog, clients, kids, pc, i>>
          /\ \A d \in Clients : cl[d] # "init" => cl'[d] # "init"
      BY <2>1, <2>9 DEF Send, Receive, LoseDaemon, Die, fds, loop, TypeOK
    <3> QED
      BY <3>1, BookkeepingUnmoved DEF Down
  <2>10. CASE \/ TermSignal \/ NoticeTerm \/ Poll \/ AcceptDone
              \/ SkipQuiet \/ PeekAlive \/ ScanDone \/ ReapNothing \/ ReapDone
    <3>1. /\ UNCHANGED <<cl, conns, backlog, clients, kids>>
          /\ ~Down => ~Down'
          /\ Down => pc' = pc
          /\ pc' = "down" => i' = 1 \/ (pc = "down" /\ i' = i)
      BY <2>10 DEF TermSignal, NoticeTerm, Poll, AcceptDone, SkipQuiet, PeekAlive, ScanDone,
         ReapNothing, ReapDone, InScan, InReap, ScanNext, env, fds, loop, Down
    <3> QED
      BY <3>1, BookkeepingUnmoved DEF Down
  <2>11. CASE ShutdownIdle
    <3>1. /\ UNCHANGED <<cl, conns, backlog, clients, kids, pc>>
          /\ pc = "down" /\ i' = i + 1 /\ clients[i].pid = Nobody
      BY <2>11 DEF ShutdownIdle, InShutdown, env, fds
    <3> QED
      BY <3>1, BookkeepingUnmoved DEF Down
  <2>12. CASE PeekDead \/ ReadEof \/ DoBad \/ ForkFails \/ ReapChild
    <3>1. /\ i \in 1..Len(clients) /\ pc \in {"scan", "reap"}
          /\ DropRow(i) /\ UNCHANGED <<cl, backlog, pc>>
      BY <2>1, <2>12 DEF PeekDead, ReadEof, DoBad, ForkFails, ReapChild, ReadCommand,
         Reads, InScan, InReap, ScanSame, env, loop, TypeOK
    <3>2. IF clients[i].pid = Nobody THEN kids' = kids
                                     ELSE kids' = [kids EXCEPT ![clients[i].pid] = NoKid]
      BY <2>12 DEF PeekDead, ReadEof, DoBad, ForkFails, ReapChild, ReadCommand,
         Reads, KillChild
    <3> QED
      BY <3>1, <3>2, BookkeepingDropRow
  <2>13. CASE ReadPartial \/ DoPing \/ DoStop
    <3>1. /\ i \in 1..Len(clients) /\ pc = "scan"
          /\ clients' = [clients EXCEPT ![i] = Fill(clients[i])]
          /\ pc' = "scan" \/ (pc' = "down" /\ i' = 1)
          /\ UNCHANGED <<cl, backlog, conns, kids>>
      BY <2>1, <2>13 DEF ReadPartial, DoPing, DoStop, ReadCommand, Reads, InScan, ScanNext,
         env, fds, TypeOK
    <3> QED
      BY <3>1, BookkeepingFill
  <2>14. CASE UNCHANGED vars
    BY <2>14, BookkeepingUnmoved DEF vars, Down
  <2> QED
    BY <2>3, <2>4, <2>5, <2>6, <2>7, <2>8, <2>9, <2>10, <2>11, <2>12, <2>13, <2>14
    DEF Next, Client, Daemon, Scan
<1> QED
  BY <1>1, <1>2, TypeCorrect, PTL DEF Spec

-----------------------------------------------------------------------------
(* What a reader wants of it *)

\* The descriptor table and the vector of clients agree, connection by
\* connection, in every reachable state (daemon_main closes and removes together).
THEOREM DescriptorsHaveRows == Spec => []TableMatchesRows
<1>1. Bookkeeping => TableMatchesRows
  BY DEF Bookkeeping
<1> QED
  BY <1>1, BookkeepingHolds, PTL

\* No child is lost by the loop and no pid is waited for by two rows.
THEOREM ChildrenAreAccounted == Spec => []ChildHasItsRow
<1>1. Bookkeeping => ChildHasItsRow
  BY DEF Bookkeeping
<1> QED
  BY <1>1, BookkeepingHolds, PTL

\* daemon_shutdown leaves no process behind, however many clients are served.
THEOREM ShutdownLeavesNoChild == Spec => []NoOrphanAfterShutdown
<1>1. Bookkeeping => NoOrphanAfterShutdown
  BY DEF Bookkeeping
<1> QED
  BY <1>1, BookkeepingHolds, PTL

LEMMA KillHasCause ==
    ASSUME Bookkeeping, Next, NEW p \in Pids,
           kids[p].st = "running", kids'[p].st = "free"
    PROVE  PeerClosed(kids[p].for) \/ pc = "down" \/ Down
<1>1. TypeOK /\ ChildHasItsRow
  BY BookkeepingParts
<1>2. kids' # kids
  OBVIOUS
<1>3. CASE \E q \in Pids : KidExit(q)
  <2>1. PICK q \in Pids : KidExit(q)
    BY <1>3
  <2>2. SUFFICES ASSUME ~Down PROVE FALSE
    OBVIOUS
  <2>3. kids[q] \in KidRecords
    BY <1>1 DEF TypeOK
  <2>4. kids' = [kids EXCEPT ![q] = [kids[q] EXCEPT !.st = "zombie", !.held = {}]]
    BY <2>1, <2>2 DEF KidExit
  <2>5. kids'[q].st = "zombie"
    BY <1>1, <2>3, <2>4 DEF TypeOK, KidRecords
  <2> QED
    BY <1>1, <2>4, <2>5 DEF TypeOK
<1>4. CASE Crash
  BY <1>1, <1>4 DEF Crash, TypeOK
<1>5. CASE PeekDead
  <2>1. /\ i \in 1..Len(clients) /\ clients[i].pid # Nobody
        /\ PeerClosed(clients[i].conn)
        /\ kids' = [kids EXCEPT ![clients[i].pid] = NoKid]
    BY <1>1, <1>5 DEF PeekDead, InScan, KillChild, TypeOK
  <2>2. p = clients[i].pid
    BY <1>1, <2>1, RowType DEF TypeOK
  <2> QED
    BY <1>1, <2>1, <2>2 DEF ChildHasItsRow
<1>6. CASE \E q \in Pids : DoRun(q)
  <2>1. PICK q \in Pids : DoRun(q)
    BY <1>6
  <2>2. kids'[q].st = "running" /\ \A r \in Pids : r # q => kids'[r] = kids[r]
    BY <1>1, <2>1 DEF DoRun, TypeOK
  <2> QED
    BY <2>2
<1>7. CASE ReapChild
  <2>1. /\ i \in 1..Len(clients)
        /\ WaitNoHang(clients[i].pid) # {}
        /\ kids' = [kids EXCEPT ![clients[i].pid] = NoKid]
    BY <1>1, <1>7 DEF ReapChild, InReap, TypeOK
  <2>2. p = clients[i].pid
    BY <1>1, <2>1, RowType DEF TypeOK
  <2> QED
    BY <2>1, <2>2, NobodyAssumption DEF WaitNoHang
<1>8. CASE ShutdownKill
  BY <1>8 DEF ShutdownKill, InShutdown
<1> QED
  BY <1>2, <1>3, <1>4, <1>5, <1>6, <1>7, <1>8
  DEF Next, Client, Daemon, Scan, Connect, Send, Receive, LoseDaemon, Die, TermSignal,
      NoticeTerm, Poll, Accept, AcceptDone, SkipQuiet, PeekAlive, ReadPartial, ReadEof,
      DoPing, DoStop, DoBad, ForkFails, ReadCommand, ScanDone, ReapNothing, ReapDone,
      ShutdownIdle, Exit

\* A running job is cut short only for its own client's death or a shutdown:
\* the scan that goes on with stale revents after Vec::remove never kills another's.
THEOREM KillsAreDeserved == Spec => KillsOnlyForCause
<1>1. Bookkeeping /\ [Next]_vars =>
          [\A p \in Pids :
              kids[p].st = "running" /\ kids'[p].st = "free" =>
                  PeerClosed(kids[p].for) \/ pc = "down" \/ Down]_vars
  BY KillHasCause
<1> QED
  BY <1>1, BookkeepingHolds, PTL DEF Spec, KillsOnlyForCause

=============================================================================
