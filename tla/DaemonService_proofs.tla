------------------------ MODULE DaemonService_proofs ------------------------
(***************************************************************************)
(* Proofs about DaemonLoop, continued: what a client is told, for every    *)
(* set of clients, pids and commands, and that the loop implements         *)
(* RequestService.                                                         *)
(***************************************************************************)
EXTENDS DaemonLoop_proofs

-----------------------------------------------------------------------------
(* What steps have in common *)

\* What a step does to the process table: every child stays the child of its
\* client, or is gone.
KidsKeptOrGone ==
    \A p \in Pids :
        \/ kids'[p] = kids[p]
        \/ kids[p].st # "free" /\ kids'[p].st # "free" /\ kids'[p].for = kids[p].for
        \/ kids'[p].st = "free" /\ kids'[p].for = Nobody

RightlyTold(c) == Len(ans[c]) <= 1 /\ \A k \in 1..Len(ans[c]) : Right(c, ans[c][k])

LEMMA OwnStatusParts == OwnStatus <=> \A c \in Clients : RightlyTold(c)
BY DEF OwnStatus, RightlyTold

\* A step that is none of d's business leaves what d was told true.
LEMMA Unconcerned ==
    ASSUME NEW d \in Clients, RightlyTold(d),
           ans'[d] = ans[d], op'[d] = op[d], d \in ran' <=> d \in ran,
           \A p \in Pids : kids'[p].for = d => kids[p].for = d
    PROVE  RightlyTold(d)'
<1>1. ASSUME NEW r, Right(d, r) PROVE Right(d, r)'
  BY <1>1 DEF Right
<1> QED
  BY <1>1 DEF RightlyTold

\* Nothing said is nothing wrong.
LEMMA Untold ==
    ASSUME NEW d \in Clients, ans'[d] = <<>>
    PROVE  RightlyTold(d)'
BY DEF RightlyTold

-----------------------------------------------------------------------------
(* The kinds of steps, as far as clients and their replies are concerned *)

\* A step that says nothing to anybody and starts no job.
LEMMA QuietStep ==
    ASSUME Dialogue, OwnStatus,
           UNCHANGED <<op, rx, ans, ran>>, KidsKeptOrGone,
           \A c \in Clients : cl'[c] \in {"init", "connected"} => cl[c] \in {"init", "connected"}
    PROVE  Dialogue' /\ OwnStatus'
<1>1. ASSUME NEW p \in Pids
      PROVE  /\ kids'[p].for # Nobody => kids'[p].for = kids[p].for
             /\ IF kids'[p].st = "free" THEN kids'[p].for = Nobody
                ELSE kids'[p].for \in ran /\ ans[kids'[p].for] = <<>>
  BY DEF Dialogue, KidsKeptOrGone
<1>2. Dialogue'
  BY <1>1 DEF Dialogue
<1>3. \A c \in Clients : RightlyTold(c)'
  BY <1>1, NobodyAssumption, OwnStatusParts, Unconcerned
<1> QED
  BY <1>2, <1>3 DEF OwnStatus, RightlyTold

\* A step that answers client c once, or would have if c had not hung up; its
\* command is read and its child, if it had one, is gone.
LEMMA AnswerStep ==
    ASSUME TypeOK, Dialogue, OwnStatus, NEW c \in Clients, NEW r \in Replies,
           UNCHANGED <<cl, op, ran>>, KidsKeptOrGone, Respond(c, r),
           op[c] # "none", ans[c] = <<>>,
           rx'[c] = "none", \A d \in Clients : rx'[d] = rx[d] \/ rx'[d] = "none",
           \A p \in Pids : kids'[p].for # c,
           Right(c, r)'
    PROVE  Dialogue' /\ OwnStatus'
<1>1. /\ \A d \in Clients : d # c => ans'[d] = ans[d]
      /\ ans'[c] = <<>> \/ ans'[c] = Append(<<>>, r)
  BY DEF TypeOK, Respond
<1>2. ASSUME NEW p \in Pids
      PROVE  /\ kids'[p].for # Nobody => kids'[p].for = kids[p].for
             /\ IF kids'[p].st = "free" THEN kids'[p].for = Nobody
                ELSE kids'[p].for \in ran /\ ans'[kids'[p].for] = <<>>
  <2>1. kids'[p].st # "free" => kids'[p].for \in ran /\ ans[kids'[p].for] = <<>>
    BY DEF Dialogue, KidsKeptOrGone
  <2> QED
    BY <1>1, <2>1 DEF Dialogue, KidsKeptOrGone, TypeOK
<1>3. Dialogue'
  BY <1>1, <1>2 DEF Dialogue
<1>4. ASSUME NEW d \in Clients, d # c PROVE RightlyTold(d)'
  BY <1>1, <1>2, <1>4, NobodyAssumption, OwnStatusParts, Unconcerned
<1>5. RightlyTold(c)'
  <2>1. CASE ans'[c] = <<>>
    BY <2>1, Untold
  <2>2. CASE ans'[c] = Append(<<>>, r)
    <3>1. Len(ans'[c]) = 1 /\ \A k \in 1..Len(ans'[c]) : ans'[c][k] = r
      BY <2>2
    <3> QED
      BY <3>1 DEF RightlyTold, Right
  <2> QED
    BY <1>1, <2>1, <2>2
<1> QED
  BY <1>3, <1>4, <1>5 DEF OwnStatus, RightlyTold

LEMMA SendStep ==
    ASSUME TypeOK, Dialogue, OwnStatus,
           NEW c \in Clients, NEW cmd \in Ops, Send(c, cmd)
    PROVE  Dialogue' /\ OwnStatus'
<1>1. /\ op[c] = "none" /\ ans[c] = <<>> /\ c \notin ran
      /\ UNCHANGED <<ans, kids, ran>>
      /\ op' = [op EXCEPT ![c] = cmd] /\ rx' = [rx EXCEPT ![c] = cmd]
      /\ cl' = [cl EXCEPT ![c] = "waiting"]
      /\ cmd \in Commands /\ cmd # "none"
  BY OpsAssumption DEF Send, Dialogue, Commands
<1>2. Dialogue'
  BY <1>1 DEF Dialogue, TypeOK
<1>3. ASSUME NEW d \in Clients, d # c PROVE RightlyTold(d)'
  <2>1. op'[d] = op[d]
    BY <1>1, <1>3 DEF TypeOK
  <2> QED
    BY <1>1, <2>1, OwnStatusParts, Unconcerned
<1>4. RightlyTold(c)'
  BY <1>1, Untold
<1> QED
  BY <1>2, <1>3, <1>4 DEF OwnStatus, RightlyTold

\* fork(2): the job of a client that has neither a job nor a reply.
LEMMA DoRunFacts ==
    ASSUME TypeOK, Dialogue, NEW p \in Pids, DoRun(p)
    PROVE  /\ i \in 1..Len(clients)
           /\ clients[i].conn \in Clients
           /\ LET c == clients[i].conn IN
                /\ op[c] = "RUN" /\ ans[c] = <<>> /\ c \notin ran
                /\ rx' = [rx EXCEPT ![c] = "none"] /\ ran' = ran \cup {c}
                /\ kids'[p].st = "running" /\ kids'[p].for = c
           /\ \A q \in Pids : q # p => kids'[q] = kids[q]
           /\ UNCHANGED <<cl, op, ans>>
<1>1. i \in 1..Len(clients)
  BY DEF DoRun, Reads, InScan, TypeOK
<1>2. Fill(clients[i]).conn = clients[i].conn /\ clients[i].conn \in Clients
  BY <1>1, RowType, FillFacts
<1>3. rx[clients[i].conn] = "RUN"
  BY DEF DoRun
<1> QED
  BY <1>1, <1>2, <1>3 DEF DoRun, Dialogue, TypeOK, env

LEMMA DoRunStep ==
    ASSUME TypeOK, Dialogue, OwnStatus, NEW p \in Pids, DoRun(p)
    PROVE  Dialogue' /\ OwnStatus'
<1>0. PICK c \in Clients : c = clients[i].conn
  BY DoRunFacts
<1>1. /\ c \in Clients /\ op[c] = "RUN" /\ ans[c] = <<>> /\ c \notin ran
      /\ rx' = [rx EXCEPT ![c] = "none"] /\ ran' = ran \cup {c}
      /\ kids'[p].st = "running" /\ kids'[p].for = c
      /\ \A q \in Pids : q # p => kids'[q] = kids[q]
      /\ UNCHANGED <<cl, op, ans>>
  BY <1>0, DoRunFacts
<1>2. \A q \in Pids : kids[q].for # c
  BY <1>1, NobodyAssumption DEF Dialogue
<1>3. \A d \in Clients : rx'[d] = IF d = c THEN "none" ELSE rx[d]
  BY <1>1 DEF TypeOK
<1>4. Dialogue'
  BY <1>1, <1>2, <1>3 DEF Dialogue
<1>5. ASSUME NEW d \in Clients, d # c PROVE RightlyTold(d)'
  BY <1>1, <1>5, OwnStatusParts, Unconcerned
<1>6. RightlyTold(c)'
  BY <1>1, Untold
<1> QED
  BY <1>1, <1>4, <1>5, <1>6 DEF OwnStatus, RightlyTold

-----------------------------------------------------------------------------
(* One lemma per action that answers *)

\* What reading a command from row i tells about its client.
LEMMA ReadCommandFacts ==
    ASSUME TypeOK, Dialogue, NEW cmd \in Commands, ReadCommand(cmd)
    PROVE  \E c \in Clients :
             /\ c = clients[i].conn /\ i \in 1..Len(clients)
             /\ op[c] = cmd /\ op[c] # "none" /\ ans[c] = <<>> /\ c \notin ran
             /\ rx'[c] = "none" /\ \A d \in Clients : rx'[d] = rx[d] \/ rx'[d] = "none"
             /\ \A p \in Pids : kids[p].for # c
<1>1. i \in 1..Len(clients)
  BY DEF ReadCommand, Reads, InScan, TypeOK
<1>2. PICK c \in Clients : c = clients[i].conn
  BY <1>1, RowType
<1>3. rx[c] = cmd /\ rx' = [rx EXCEPT ![c] = "none"] /\ cmd # "none"
  BY <1>2 DEF ReadCommand, Commands
<1>4. op[c] = cmd /\ ans[c] = <<>> /\ c \notin ran
  BY <1>3 DEF Dialogue
<1>5. \A p \in Pids : kids[p].for # c
  BY <1>4, NobodyAssumption DEF Dialogue
<1>6. rx'[c] = "none" /\ \A d \in Clients : rx'[d] = rx[d] \/ rx'[d] = "none"
  BY <1>3 DEF TypeOK
<1> QED
  BY <1>1, <1>2, <1>3, <1>4, <1>5, <1>6

LEMMA RefusalStep ==
    ASSUME TypeOK, Dialogue, OwnStatus, DoPing \/ DoStop \/ DoBad \/ ForkFails
    PROVE  Dialogue' /\ OwnStatus'
<1>1. PICK cmd \in Commands, kind \in {"OK", "BYE", "ERR"} :
          /\ ReadCommand(cmd)
          /\ Respond(clients[i].conn, Reply(kind, Nobody))
          /\ <<cmd, kind>> \in {<<"PING", "OK">>, <<"STOP", "BYE">>, <<"BAD", "ERR">>, <<"RUN", "ERR">>}
  BY DEF DoPing, DoStop, DoBad, ForkFails, Commands
<1>2. UNCHANGED <<cl, op, kids, ran>>
  BY DEF DoPing, DoStop, DoBad, ForkFails, env
<1>3. PICK c \in Clients :
             /\ c = clients[i].conn
             /\ op[c] = cmd /\ op[c] # "none" /\ ans[c] = <<>> /\ c \notin ran
             /\ rx'[c] = "none" /\ \A d \in Clients : rx'[d] = rx[d] \/ rx'[d] = "none"
             /\ \A p \in Pids : kids[p].for # c
  BY <1>1, ReadCommandFacts
<1>4. PICK r \in Replies : r = Reply(kind, Nobody)
  BY ReplyType
<1>5. Right(c, r)'
  BY <1>1, <1>2, <1>3, <1>4 DEF Right, Reply
<1>6. KidsKeptOrGone /\ Respond(c, r)
  BY <1>1, <1>2, <1>3, <1>4 DEF KidsKeptOrGone
<1> QED
  BY <1>2, <1>3, <1>5, <1>6, AnswerStep

\* The child of row i, reaped by waitpid or by the shutdown, and its client.
LEMMA ReapFacts ==
    ASSUME Bookkeeping, Dialogue, ReapChild \/ ShutdownKill
    PROVE  \E c \in Clients, p \in Pids :
             /\ c = clients[i].conn /\ p = clients[i].pid
             /\ kids[p].st # "free" /\ kids[p].for = c
             /\ ReapChild => kids[p].st = "zombie"
             /\ Respond(c, Reply("STATUS", c))
             /\ kids' = [kids EXCEPT ![p] = NoKid]
             /\ op[c] = "RUN" /\ ans[c] = <<>> /\ c \in ran /\ rx[c] = "none"
             /\ UNCHANGED <<cl, op, rx, ran>>
<1>1. TypeOK /\ ChildHasItsRow
  BY BookkeepingParts
<1>2. i \in 1..Len(clients) /\ clients[i].pid # Nobody
  BY <1>1 DEF ReapChild, ShutdownKill, InReap, InShutdown, TypeOK
<1>3. PICK c \in Clients, p \in Pids : c = clients[i].conn /\ p = clients[i].pid
  BY <1>1, <1>2, RowType
<1>4. kids[p].st # "free" /\ kids[p].for = c
  BY <1>1, <1>2, <1>3 DEF ChildHasItsRow
<1>5. kids' = [kids EXCEPT ![p] = NoKid] /\ UNCHANGED <<cl, op, rx, ran>>
  BY <1>3 DEF ReapChild, ShutdownKill, KillChild, env
<1>6. ASSUME ReapChild
      PROVE  Respond(c, Reply("STATUS", c)) /\ kids[p].st = "zombie"
  <2>1. PICK of \in WaitNoHang(p) : Respond(c, Reply("STATUS", of))
    BY <1>3, <1>6 DEF ReapChild
  <2>2. kids[p].st \in {"running", "zombie"}
    BY <1>1, <1>4 DEF TypeOK, KidRecords
  <2>3. kids[p].st = "zombie" /\ of = c
    BY <1>2, <1>3, <1>4, <2>1, <2>2 DEF WaitNoHang
  <2> QED
    BY <2>1, <2>3
<1>7. ASSUME ShutdownKill
      PROVE  Respond(c, Reply("STATUS", c)) /\ ~ReapChild
  <2>1. Respond(c, Reply("STATUS", c)) /\ pc = "down"
    BY <1>3, <1>4, <1>7 DEF ShutdownKill, InShutdown
  <2> QED
    BY <2>1 DEF ReapChild, InReap
<1>8. op[c] = "RUN" /\ ans[c] = <<>> /\ c \in ran /\ rx[c] = "none"
  BY <1>4 DEF Dialogue
<1>9. Respond(c, Reply("STATUS", c)) /\ (ReapChild => kids[p].st = "zombie")
  BY <1>6, <1>7
<1> QED
  BY <1>3, <1>4, <1>5, <1>8, <1>9

LEMMA ReapStep ==
    ASSUME Bookkeeping, Dialogue, OwnStatus, ReapChild \/ ShutdownKill
    PROVE  Dialogue' /\ OwnStatus'
<1>1. PICK c \in Clients, p \in Pids :
             /\ kids[p].st # "free" /\ kids[p].for = c
             /\ Respond(c, Reply("STATUS", c))
             /\ kids' = [kids EXCEPT ![p] = NoKid]
             /\ op[c] = "RUN" /\ ans[c] = <<>> /\ c \in ran /\ rx[c] = "none"
             /\ UNCHANGED <<cl, op, rx, ran>>
  BY ReapFacts
<1>2. TypeOK
  BY BookkeepingParts
<1>3. kids'[p] = NoKid /\ \A q \in Pids : q # p => kids'[q] = kids[q]
  BY <1>1, <1>2 DEF TypeOK
<1>4. KidsKeptOrGone
  BY <1>3 DEF KidsKeptOrGone, NoKid
<1>5. \A q \in Pids : kids'[q].for # c
  BY <1>1, <1>3, NobodyAssumption DEF Dialogue, NoKid
<1>6. PICK r \in Replies : r = Reply("STATUS", c)
  BY ReplyType
<1>7. Right(c, r)'
  BY <1>1, <1>5, <1>6 DEF Right, Reply
<1> QED
  BY <1>1, <1>2, <1>4, <1>5, <1>6, <1>7, AnswerStep

\* Every other step of the daemon, of a child, of a client and of a signal.
\* A reply to a closed peer is lost, so the row that ends on EOF answers nobody.
LEMMA OtherStep ==
    ASSUME TypeOK, Dialogue, OwnStatus, [Next]_vars,
           ~(\E c \in Clients, cmd \in Ops : Send(c, cmd)),
           ~(\E p \in Pids : DoRun(p)),
           ~(DoPing \/ DoStop \/ DoBad \/ ForkFails), ~(ReapChild \/ ShutdownKill)
    PROVE  Dialogue' /\ OwnStatus'
<1>1. ASSUME NEW c \in Clients, Connect(c) \/ Receive(c) \/ LoseDaemon(c) \/ Die(c)
      PROVE  Dialogue' /\ OwnStatus'
  <2>1. UNCHANGED <<rx, ans, kids, ran>>
    BY <1>1 DEF Connect, Receive, LoseDaemon, Die
  <2>2. UNCHANGED op
    BY <1>1 DEF Connect, Receive, LoseDaemon, Die
  <2>3. \A d \in Clients : cl'[d] \in {"init", "connected"} => cl[d] \in {"init", "connected"}
    BY <1>1 DEF Connect, Receive, LoseDaemon, Die, TypeOK
  <2> QED
    BY <2>1, <2>2, <2>3, QuietStep DEF KidsKeptOrGone
<1>2. ASSUME NEW p \in Pids, KidExit(p)
      PROVE  Dialogue' /\ OwnStatus'
  <2>1. UNCHANGED <<cl, op, rx, ans, ran>>
    BY <1>2 DEF KidExit, env
  <2>2. kids[p] \in KidRecords
    BY DEF TypeOK
  <2>3. [kids[p] EXCEPT !.st = "zombie", !.held = {}].st = "zombie"
        /\ [kids[p] EXCEPT !.st = "zombie", !.held = {}].for = kids[p].for
    BY <2>2 DEF KidRecords
  <2>4. KidsKeptOrGone
    BY <1>2, <2>3 DEF KidExit, KidsKeptOrGone, NoKid, TypeOK
  <2> QED
    BY <2>1, <2>4, QuietStep
<1>3. CASE Crash
  <2>1. KidsKeptOrGone
    BY <1>3 DEF Crash, KidsKeptOrGone, NoKid
  <2> QED
    BY <1>3, <2>1, QuietStep DEF Crash
<1>4. CASE PeekDead
  <2>1. KidsKeptOrGone
    BY <1>4 DEF PeekDead, KillChild, KidsKeptOrGone, NoKid, TypeOK
  <2> QED
    BY <1>4, <2>1, QuietStep DEF PeekDead, env
<1>5. CASE ReadEof
  <2>1. UNCHANGED <<cl, op, rx, ans, kids, ran>>
    BY <1>5 DEF ReadEof, Respond, env
  <2> QED
    BY <2>1, QuietStep DEF KidsKeptOrGone
<1>6. CASE \/ TermSignal \/ NoticeTerm \/ Poll \/ Accept \/ AcceptDone \/ SkipQuiet
           \/ PeekAlive \/ ReadPartial \/ ScanDone \/ ReapNothing \/ ReapDone
           \/ ShutdownIdle \/ Exit \/ UNCHANGED vars
  <2>1. UNCHANGED <<cl, op, rx, ans, kids, ran>>
    BY <1>6 DEF TermSignal, NoticeTerm, Poll, Accept, AcceptDone, SkipQuiet, PeekAlive,
       ReadPartial, ScanDone, ReapNothing, ReapDone, ShutdownIdle, Exit, env, vars
  <2> QED
    BY <2>1, QuietStep DEF KidsKeptOrGone
<1> QED
  BY <1>1, <1>2, <1>3, <1>4, <1>5, <1>6 DEF Next, Client, Daemon, Scan

-----------------------------------------------------------------------------
(* What a client is told *)

LEMMA DialogueHolds == Spec => [](Dialogue /\ OwnStatus)
<1>1. Init => Dialogue /\ OwnStatus
  <2> SUFFICES ASSUME Init PROVE Dialogue /\ OwnStatus
    OBVIOUS
  <2>1. Dialogue
    BY NobodyAssumption DEF Init, Dialogue, NoKid
  <2>2. OwnStatus
    BY DEF Init, OwnStatus
  <2> QED
    BY <2>1, <2>2
<1>2. Bookkeeping /\ Dialogue /\ OwnStatus /\ [Next]_vars => Dialogue' /\ OwnStatus'
  <2> SUFFICES ASSUME Bookkeeping, Dialogue, OwnStatus, [Next]_vars
               PROVE  Dialogue' /\ OwnStatus'
    OBVIOUS
  <2>1. TypeOK
    BY BookkeepingParts
  <2> QED
    BY <2>1, SendStep, DoRunStep, RefusalStep, ReapStep, OtherStep
<1> QED
  BY <1>1, <1>2, BookkeepingHolds, PTL DEF Spec

\* Every client is told the status of its own child and nobody else's, after
\* that child is gone, and at most once (daemon_main answers a row and removes
\* it in the same breath, whatever the scan, the reap and the shutdown do).
THEOREM StatusIsOwn == Spec => []OwnStatus
BY DialogueHolds, PTL

-----------------------------------------------------------------------------
(* The loop implements RequestService *)

LEMMA JobValue ==
    ASSUME Dialogue, NEW c \in Clients
    PROVE  /\ Job[c] = "running" <=> \E p \in Pids : kids[p].st = "running" /\ kids[p].for = c
           /\ Job[c] # "none" <=> c \in ran
           /\ Job[c] \in {"none", "running", "over"}
BY DEF Job, JobRunning, Dialogue

\* A step that keeps every running child running and starts none.
LEMMA JobsUnchanged ==
    ASSUME UNCHANGED ran,
           \A p \in Pids : \/ kids'[p] = kids[p]
                           \/ kids[p].st # "running" /\ kids'[p].st # "running"
    PROVE  Job' = Job
<1>1. \A c \in Clients : JobRunning(c)' <=> JobRunning(c)
  BY DEF JobRunning
<1> QED
  BY <1>1 DEF Job

\* The end of child p is the end of its client's job, and of no other.
LEMMA JobEnds ==
    ASSUME Dialogue, NEW c \in Clients, NEW p \in Pids, UNCHANGED ran,
           kids[p].st # "free", kids[p].for = c, kids'[p].st # "running",
           \A q \in Pids : q # p => kids'[q] = kids[q]
    PROVE  /\ Job' = [Job EXCEPT ![c] = "over"]
           /\ Job[c] = IF kids[p].st = "running" THEN "running" ELSE "over"
<1>1. c \in ran /\ \A q \in Pids : q # p => kids[q].for # c
  BY NobodyAssumption DEF Dialogue
<1>2. \A d \in Clients : d # c => (JobRunning(d)' <=> JobRunning(d))
  BY DEF JobRunning
<1>3. ~JobRunning(c)' /\ (JobRunning(c) <=> kids[p].st = "running")
  BY <1>1 DEF JobRunning
<1> QED
  BY <1>1, <1>2, <1>3 DEF Job

LEMMA SendImplements ==
    ASSUME TypeOK, Dialogue, NEW c \in Clients, NEW cmd \in Ops, Send(c, cmd)
    PROVE  Service!Next
<1>1. op[c] = "none" /\ op' = [op EXCEPT ![c] = cmd] /\ UNCHANGED <<ans, kids, ran>>
  BY DEF Send, Dialogue
<1>2. Job' = Job
  BY <1>1, JobsUnchanged
<1>3. Service!Ask(c, cmd)
  BY <1>1, <1>2 DEF Service!Ask
<1> QED
  BY <1>3 DEF Service!Next

LEMMA DoRunImplements ==
    ASSUME TypeOK, Dialogue, NEW p \in Pids, DoRun(p)
    PROVE  Service!Next
<1>0. PICK c \in Clients : c = clients[i].conn
  BY DoRunFacts
<1>1. /\ op[c] = "RUN" /\ ans[c] = <<>> /\ c \notin ran
      /\ ran' = ran \cup {c}
      /\ kids[p].st = "free" /\ kids'[p].st = "running" /\ kids'[p].for = c
      /\ \A q \in Pids : q # p => kids'[q] = kids[q]
      /\ UNCHANGED <<op, ans>>
  BY <1>0, DoRunFacts DEF DoRun
<1>2. \A d \in Clients : d # c => (JobRunning(d)' <=> JobRunning(d))
  BY <1>1 DEF JobRunning
<1>3. JobRunning(c)'
  BY <1>1 DEF JobRunning
<1>4. Job' = [Job EXCEPT ![c] = "running"]
  BY <1>1, <1>2, <1>3 DEF Job
<1>5. Job[c] = "none"
  BY <1>1, JobValue
<1>6. Service!Start(c)
  BY <1>1, <1>4, <1>5 DEF Service!Start
<1> QED
  BY <1>6 DEF Service!Next

LEMMA RefusalImplements ==
    ASSUME TypeOK, Dialogue, DoPing \/ DoStop \/ DoBad \/ ForkFails
    PROVE  [Service!Next]_Service!vars
<1>1. PICK cmd \in Commands, kind \in {"OK", "BYE", "ERR"} :
          /\ ReadCommand(cmd)
          /\ Respond(clients[i].conn, Reply(kind, Nobody))
          /\ <<cmd, kind>> \in {<<"PING", "OK">>, <<"STOP", "BYE">>, <<"BAD", "ERR">>, <<"RUN", "ERR">>}
  BY DEF DoPing, DoStop, DoBad, ForkFails, Commands
<1>2. UNCHANGED <<op, kids, ran>>
  BY DEF DoPing, DoStop, DoBad, ForkFails, env
<1>3. PICK c \in Clients : c = clients[i].conn /\ op[c] = cmd /\ ans[c] = <<>> /\ c \notin ran
  BY <1>1, ReadCommandFacts
<1>4. Job' = Job /\ Job[c] = "none"
  BY <1>2, <1>3, JobsUnchanged, JobValue
<1>5. ans' = ans \/ ans' = [ans EXCEPT ![c] = Append(<<>>, Reply(kind, Nobody))]
  BY <1>1, <1>3 DEF Respond
<1>6. CASE ans' = ans
  BY <1>2, <1>4, <1>6 DEF Service!vars
<1>7. CASE ans' = [ans EXCEPT ![c] = Append(<<>>, Reply(kind, Nobody))]
  <2>1. Append(<<>>, Reply(kind, Nobody)) = <<Reply(kind, Nobody)>>
    OBVIOUS
  <2>2. Service!Tell(c, kind, Nobody)
    BY <1>3, <1>7, <2>1 DEF Service!Tell, Reply
  <2>3. Service!Refuse(c) \/ Service!Acknowledge(c)
    BY <1>1, <1>2, <1>3, <1>4, <2>2 DEF Service!Refuse, Service!Acknowledge
  <2> QED
    BY <2>3 DEF Service!Next
<1> QED
  BY <1>5, <1>6, <1>7

LEMMA ReapImplements ==
    ASSUME Bookkeeping, Dialogue, ReapChild \/ ShutdownKill
    PROVE  [Service!Next]_Service!vars
<1>1. PICK c \in Clients, p \in Pids :
             /\ kids[p].st # "free" /\ kids[p].for = c
             /\ Respond(c, Reply("STATUS", c))
             /\ kids' = [kids EXCEPT ![p] = NoKid]
             /\ ans[c] = <<>>
             /\ UNCHANGED <<op, ran>>
  BY ReapFacts
<1>2. kids'[p].st # "running" /\ \A q \in Pids : q # p => kids'[q] = kids[q]
  BY <1>1, BookkeepingParts DEF TypeOK, NoKid
<1>3. Job' = [Job EXCEPT ![c] = "over"] /\ Job[c] \in {"running", "over"}
  BY <1>1, <1>2, JobEnds
<1>4. Job[c] = "over" => Job' = Job
  BY <1>3 DEF Job
<1>5. CASE ans' = ans
  <2>1. Service!End(c) \/ Job[c] = "over"
    BY <1>1, <1>3, <1>5 DEF Service!End
  <2> QED
    BY <1>1, <1>4, <1>5, <2>1 DEF Service!Next, Service!vars
<1>6. CASE ans' = [ans EXCEPT ![c] = Append(<<>>, Reply("STATUS", c))]
  <2>1. Append(<<>>, Reply("STATUS", c)) = <<Reply("STATUS", c)>>
    OBVIOUS
  <2>2. Service!Tell(c, "STATUS", c)
    BY <1>1, <1>6, <2>1 DEF Service!Tell, Reply
  <2>3. Service!Report(c) \/ Service!EndAndReport(c)
    BY <1>1, <1>3, <1>4, <2>2 DEF Service!Report, Service!EndAndReport
  <2> QED
    BY <2>3 DEF Service!Next
<1> QED
  BY <1>1, <1>5, <1>6 DEF Respond

\* A job that ends without a word: the child exits, or is killed for its
\* client's death.
LEMMA EndImplements ==
    ASSUME Bookkeeping, Dialogue, PeekDead \/ \E p \in Pids : KidExit(p)
    PROVE  [Service!Next]_Service!vars
<1>1. TypeOK /\ ChildHasItsRow
  BY BookkeepingParts
<1>2. UNCHANGED <<op, ans, ran>>
  BY DEF PeekDead, KidExit, env
<1>3. PICK p \in Pids :
          /\ kids[p].st # "free" /\ kids'[p].st # "running"
          /\ \A q \in Pids : q # p => kids'[q] = kids[q]
  <2>1. ASSUME PeekDead
        PROVE  \E p \in Pids :
                   /\ kids[p].st # "free" /\ kids'[p].st # "running"
                   /\ \A q \in Pids : q # p => kids'[q] = kids[q]
    <3>1. i \in 1..Len(clients) /\ clients[i].pid # Nobody
             /\ kids' = [kids EXCEPT ![clients[i].pid] = NoKid]
      BY <1>1, <2>1 DEF PeekDead, InScan, KillChild, TypeOK
    <3>2. clients[i].pid \in Pids /\ kids[clients[i].pid].st # "free"
      BY <1>1, <3>1, RowType DEF ChildHasItsRow
    <3> QED
      BY <1>1, <3>1, <3>2 DEF TypeOK, NoKid
  <2>2. ASSUME NEW p \in Pids, KidExit(p)
        PROVE  /\ kids[p].st # "free" /\ kids'[p].st # "running"
               /\ \A q \in Pids : q # p => kids'[q] = kids[q]
    <3>1. kids[p] \in KidRecords
      BY <1>1 DEF TypeOK
    <3>2. [kids[p] EXCEPT !.st = "zombie", !.held = {}].st = "zombie"
      BY <3>1 DEF KidRecords
    <3> QED
      BY <1>1, <2>2, <3>2 DEF KidExit, NoKid, TypeOK
  <2> QED
    BY <2>1, <2>2
<1>4. PICK c \in Clients : c = kids[p].for
  BY <1>1, <1>3 DEF Dialogue, TypeOK
<1>5. Job' = [Job EXCEPT ![c] = "over"] /\ Job[c] \in {"running", "over"}
  BY <1>2, <1>3, <1>4, JobEnds
<1>6. Job[c] = "over" => Job' = Job
  BY <1>5 DEF Job
<1>7. Service!End(c) \/ Job[c] = "over"
  BY <1>2, <1>5 DEF Service!End
<1> QED
  BY <1>2, <1>6, <1>7 DEF Service!Next, Service!vars

LEMMA OtherImplements ==
    ASSUME TypeOK, [Next]_vars,
           ~(\E c \in Clients, cmd \in Ops : Send(c, cmd)),
           ~(\E p \in Pids : DoRun(p)), ~(\E p \in Pids : KidExit(p)), ~PeekDead,
           ~(DoPing \/ DoStop \/ DoBad \/ ForkFails), ~(ReapChild \/ ShutdownKill)
    PROVE  UNCHANGED Service!vars
<1>1. UNCHANGED <<op, ans, ran>>
  <2>1. ASSUME NEW c \in Clients, Connect(c) \/ Receive(c) \/ LoseDaemon(c) \/ Die(c)
        PROVE  UNCHANGED <<op, ans, ran>>
    BY <2>1 DEF Connect, Receive, LoseDaemon, Die
  <2>2. CASE Crash \/ ReadEof
    BY <2>2 DEF Crash, ReadEof, Respond, env
  <2>3. CASE \/ TermSignal \/ NoticeTerm \/ Poll \/ Accept \/ AcceptDone \/ SkipQuiet
             \/ PeekAlive \/ ReadPartial \/ ScanDone \/ ReapNothing \/ ReapDone
             \/ ShutdownIdle \/ Exit \/ UNCHANGED vars
    BY <2>3 DEF TermSignal, NoticeTerm, Poll, Accept, AcceptDone, SkipQuiet, PeekAlive,
       ReadPartial, ScanDone, ReapNothing, ReapDone, ShutdownIdle, Exit, env, vars
  <2> QED
    BY <2>1, <2>2, <2>3 DEF Next, Client, Daemon, Scan
<1>2. \A p \in Pids : \/ kids'[p] = kids[p]
                      \/ kids[p].st # "running" /\ kids'[p].st # "running"
  <2>1. ASSUME NEW c \in Clients, Connect(c) \/ Receive(c) \/ LoseDaemon(c) \/ Die(c)
        PROVE  UNCHANGED kids
    BY <2>1 DEF Connect, Receive, LoseDaemon, Die
  <2>2. CASE Crash
    BY <2>2 DEF Crash, NoKid
  <2>3. CASE \/ TermSignal \/ NoticeTerm \/ Poll \/ Accept \/ AcceptDone \/ SkipQuiet
             \/ PeekAlive \/ ReadPartial \/ ReadEof \/ ScanDone \/ ReapNothing \/ ReapDone
             \/ ShutdownIdle \/ Exit \/ UNCHANGED vars
    BY <2>3 DEF TermSignal, NoticeTerm, Poll, Accept, AcceptDone, SkipQuiet, PeekAlive,
       ReadPartial, ReadEof, ScanDone, ReapNothing, ReapDone, ShutdownIdle, Exit, env, vars
  <2> QED
    BY <2>1, <2>2, <2>3 DEF Next, Client, Daemon, Scan
<1> QED
  BY <1>1, <1>2, JobsUnchanged DEF Service!vars

\* The accept loop implements what a client is promised, whatever the number of
\* clients and pids: one job per RUN at most, its status once it is over, one
\* reply to anything else (rows, descriptors, pids and positions are hidden).
THEOREM LoopImplementsService == Spec => ImplementsService
<1>1. Init => Service!Init
  <2> SUFFICES ASSUME Init PROVE Service!Init
    OBVIOUS
  <2>1. \A c \in Clients : ~JobRunning(c) /\ c \notin ran
    BY DEF Init, JobRunning, NoKid
  <2>2. Job = [c \in Clients |-> "none"]
    BY <2>1 DEF Job
  <2> QED
    BY <2>2 DEF Init, Service!Init
<1>2. Bookkeeping /\ Dialogue /\ [Next]_vars => [Service!Next]_Service!vars
  <2> SUFFICES ASSUME Bookkeeping, Dialogue, [Next]_vars
               PROVE  [Service!Next]_Service!vars
    OBVIOUS
  <2>1. TypeOK
    BY BookkeepingParts
  <2> QED
    BY <2>1, SendImplements, DoRunImplements, RefusalImplements, ReapImplements,
       EndImplements, OtherImplements
<1> QED
  BY <1>1, <1>2, BookkeepingHolds, DialogueHolds, PTL DEF Spec, ImplementsService, Service!Spec

=============================================================================
