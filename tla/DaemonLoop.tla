----------------------------- MODULE DaemonLoop -----------------------------
(***************************************************************************)
(* The accept loop of the warm daemon (src/daemon.rs, daemon_main) with    *)
(* everything it touches: the clients behind its unix socket, the kernel's *)
(* listen queue and descriptor table, and the children it forks.           *)
(*                                                                         *)
(* The daemon is one thread.  One step of it is one system call with the   *)
(* bookkeeping that follows, so clients, children and signals interleave   *)
(* with it exactly where the kernel lets them.  A connection is named by   *)
(* the client that made it; a wait status is named by the client whose     *)
(* child it belongs to.  A command arrives whole, its stdio descriptors    *)
(* attached to its first byte (module WireReader cuts commands up).        *)
(***************************************************************************)
EXTENDS Integers, SequencesExt

CONSTANTS
    Clients,     \* client processes, one connection and one command each
    Pids,        \* process ids the kernel hands out; a reaped one is reused
    Ops,         \* commands the clients may send, a subset of Commands
    Nobody       \* no process, no descriptor

Commands == {"RUN", "PING", "STOP", "BAD"}

ASSUME OpsAssumption == Ops \subseteq Commands
ASSUME NobodyAssumption == Nobody \notin Clients /\ Nobody \notin Pids

VARIABLES
    cl,          \* the client processes
    op,          \* the command each client sent
    rx,          \* bytes of the command not yet read by the daemon
    ans,         \* replies the daemon put on each connection
    backlog,     \* connections waiting in accept(2)
    conns,       \* daemon's descriptor table: accepted connections
    stdios,      \* daemon's descriptor table: stdio received by SCM_RIGHTS
    clients,     \* Vec<DaemonClient>
    kids,        \* process table: the forked children
    ran,         \* history: clients for which fork(2) succeeded
    pc, i, polled, ready, term

env   == <<cl, op, backlog>>
fds   == <<conns, stdios>>
loop  == <<pc, i, polled, ready>>
vars  == <<cl, op, rx, ans, backlog, conns, stdios, clients, kids, ran,
           pc, i, polled, ready, term>>

-----------------------------------------------------------------------------
(* Records and helpers *)

\* A fresh DaemonClient, as the accept loop pushes it.
NewRow(c) == [conn |-> c, first |-> TRUE, fds |-> Nobody, pid |-> Nobody]

NoKid == [st |-> "free", for |-> Nobody, io |-> Nobody, held |-> {}]

Rows == [conn : Clients, first : BOOLEAN, fds : Clients \cup {Nobody},
         pid : Pids \cup {Nobody}]

KidRecords == [st : {"free", "running", "zombie"}, for : Clients \cup {Nobody},
               io : Clients \cup {Nobody}, held : SUBSET Clients]

Reply(kind, of) == [kind |-> kind, of |-> of]
Replies == [kind : {"STATUS", "OK", "BYE", "ERR"}, of : Clients \cup {Nobody}]

PeerClosed(c) == cl[c] \in {"done", "dead"}

\* The process is gone: clean exit, or killed on the spot.
Down == pc \in {"off", "crashed"}

\* Faulty variant for ClientDeathKillsJob: POLLHUP is not looked at.
ReadableWithoutHangup(c) == rx[c] # "none"

\* poll(2) reports POLLIN or POLLHUP for the connection.
Readable(c) == rx[c] # "none" \/ PeerClosed(c)

JobRunning(c) == \E p \in Pids : kids[p].st = "running" /\ kids[p].for = c

\* A child keeps every connection its parent had open, its own excepted.
Held(c) == \E p \in Pids : kids[p].st = "running" /\ c \in kids[p].held

\* No process has the daemon's end open any more: the client reads EOF.
Released(c) == c \notin conns /\ c \notin ToSet(backlog) /\ ~Held(c)

\* respond: bytes to a closed peer are lost (EPIPE).
Respond(c, reply) ==
    ans' = IF PeerClosed(c) THEN ans ELSE [ans EXCEPT ![c] = Append(@, reply)]

\* Faulty variant for TableMatchesRows: the row goes, its descriptor stays.
DropRowLeavesOpen(k) ==
    /\ conns' = conns
    /\ clients' = RemoveAt(clients, k)

\* close(clients[i].fd) and clients.remove(i); clients[i].fds is not closed.
DropRow(k) ==
    /\ conns' = conns \ {clients[k].conn}
    /\ clients' = RemoveAt(clients, k)

Carries(cmd) == cmd \in {"RUN", "BAD"}

\* client_fill: the first read takes the descriptors that ride on the bytes;
\* a later one is a plain recv(2), and the kernel discards them.
Fill(row) ==
    [row EXCEPT !.first = FALSE,
                !.fds = IF row.first /\ Carries(rx[row.conn]) THEN row.conn ELSE @]

FillTable(row) ==
    IF row.first /\ Carries(rx[row.conn]) THEN stdios \cup {row.conn} ELSE stdios

\* TERM, 200 ms, KILL, then a blocking waitpid: whatever the child did
\* meanwhile, its pid is free afterwards.
KillChild(p) == kids' = [kids EXCEPT ![p] = NoKid]

\* Faulty variant for OwnStatus: waitpid(-1), the status of whichever child ended.
WaitAny(p) ==
    IF p = Nobody THEN {} ELSE {kids[q].for : q \in {q \in Pids : kids[q].st = "zombie"}}

\* waitpid(pid, WNOHANG): the client whose status is collected, or Nobody for
\* a pid that is no child of the daemon (ECHILD, answered "STATUS 0"); nothing
\* for a child still running or a row without one.
WaitNoHang(p) ==
    CASE p = Nobody              -> {}
      [] kids[p].st = "zombie"  -> {kids[p].for}
      [] kids[p].st = "free"    -> {Nobody}
      [] kids[p].st = "running" -> {}

-----------------------------------------------------------------------------
Init ==
    /\ cl = [c \in Clients |-> "init"]
    /\ op = [c \in Clients |-> "none"]
    /\ rx = [c \in Clients |-> "none"]
    /\ ans = [c \in Clients |-> <<>>]
    /\ backlog = <<>>
    /\ conns = {} /\ stdios = {}
    /\ clients = <<>>
    /\ kids = [p \in Pids |-> NoKid]
    /\ ran = {}
    /\ pc = "poll" /\ i = 1 /\ polled = 0 /\ ready = <<>>
    /\ term = FALSE

-----------------------------------------------------------------------------
(* Clients, children and signals *)

\* UnixStream::connect: succeeds while the socket is bound, accepted or not.
Connect(c) ==
    /\ cl[c] = "init" /\ ~Down
    /\ cl' = [cl EXCEPT ![c] = "connected"]
    /\ backlog' = Append(backlog, c)
    /\ UNCHANGED <<op, rx, ans, fds, clients, kids, ran, loop, term>>

\* send_with_fds or send_cmd, then the client blocks in read_line.
Send(c, cmd) ==
    /\ cl[c] = "connected" /\ ~Released(c)
    /\ cl' = [cl EXCEPT ![c] = "waiting"]
    /\ op' = [op EXCEPT ![c] = cmd]
    /\ rx' = [rx EXCEPT ![c] = cmd]
    /\ UNCHANGED <<ans, backlog, fds, clients, kids, ran, loop, term>>

\* read_line returns the reply; the client exits with its status.
Receive(c) ==
    /\ cl[c] = "waiting" /\ ans[c] # <<>>
    /\ cl' = [cl EXCEPT ![c] = "done"]
    /\ UNCHANGED <<op, rx, ans, backlog, fds, clients, kids, ran, loop, term>>

\* EPIPE in the send or EOF in read_line: "daemon closed connection", exit 1.
LoseDaemon(c) ==
    /\ cl[c] \in {"connected", "waiting"} /\ ans[c] = <<>> /\ Released(c)
    /\ cl' = [cl EXCEPT ![c] = "done"]
    /\ UNCHANGED <<op, rx, ans, backlog, fds, clients, kids, ran, loop, term>>

\* Ctrl-C, or the client is killed: the kernel closes its end.
Die(c) ==
    /\ cl[c] \in {"connected", "waiting"}
    /\ cl' = [cl EXCEPT ![c] = "dead"]
    /\ UNCHANGED <<op, rx, ans, backlog, fds, clients, kids, ran, loop, term>>

\* The script ends; without its parent it is reaped by init at once.
KidExit(p) ==
    /\ kids[p].st = "running"
    /\ kids' = [kids EXCEPT ![p] =
                   IF Down THEN NoKid ELSE [@ EXCEPT !.st = "zombie", !.held = {}]]
    /\ UNCHANGED <<env, rx, ans, fds, clients, ran, loop, term>>

\* on_daemon_term: SIGTERM or SIGHUP only stores the flag.
TermSignal ==
    /\ ~term /\ pc \notin {"down", "off", "crashed"}
    /\ term' = TRUE
    /\ UNCHANGED <<env, rx, ans, fds, clients, kids, ran, loop>>

\* The process ends without daemon_shutdown (SIGKILL, out of memory, the
\* "poll:" error): its descriptors close, its children live on, orphaned.
Crash ==
    /\ ~Down
    /\ pc' = "crashed" /\ i' = 1 /\ polled' = 0 /\ ready' = <<>>
    /\ backlog' = <<>> /\ conns' = {} /\ stdios' = {} /\ clients' = <<>>
    /\ kids' = [p \in Pids |-> IF kids[p].st = "running" THEN kids[p] ELSE NoKid]
    /\ UNCHANGED <<cl, op, rx, ans, ran, term>>

-----------------------------------------------------------------------------
(* The top of the loop: the shutdown flag, poll(2) and accept(2) *)

\* Faulty variant for StopStops: the flag is honoured once nobody is connected.
NoticeTermWhenIdle ==
    /\ pc = "poll" /\ term /\ clients = <<>>
    /\ pc' = "down" /\ i' = 1
    /\ UNCHANGED <<env, rx, ans, fds, clients, kids, ran, polled, ready, term>>

NoticeTerm ==
    /\ pc = "poll" /\ term
    /\ pc' = "down" /\ i' = 1
    /\ UNCHANGED <<env, rx, ans, fds, clients, kids, ran, polled, ready, term>>

\* Faulty variant for RequestIsTakenUp: no accept while somebody is served, as
\* the daemon that waited for each child used to do.
PollOneAtATime ==
    /\ pc = "poll" /\ ~term
    /\ ready' = [k \in 1..Len(clients) |-> Readable(clients[k].conn)]
    /\ polled' = Len(clients)
    /\ pc' = IF backlog # <<>> /\ clients = <<>> THEN "accept" ELSE "scan"
    /\ i' = 1
    /\ UNCHANGED <<env, rx, ans, fds, clients, kids, ran, term>>

\* One poll: revents of every row, and `polled` fixed before the accepts.
Poll ==
    /\ pc = "poll" /\ ~term
    /\ ready' = [k \in 1..Len(clients) |-> Readable(clients[k].conn)]
    /\ polled' = Len(clients)
    /\ pc' = IF backlog # <<>> THEN "accept" ELSE "scan"
    /\ i' = 1
    /\ UNCHANGED <<env, rx, ans, fds, clients, kids, ran, term>>

Accept ==
    /\ pc = "accept" /\ backlog # <<>>
    /\ backlog' = Tail(backlog)
    /\ conns' = conns \cup {Head(backlog)}
    /\ clients' = Append(clients, NewRow(Head(backlog)))
    /\ UNCHANGED <<cl, op, rx, ans, stdios, kids, ran, loop, term>>

\* accept: EWOULDBLOCK.
AcceptDone ==
    /\ pc = "accept" /\ backlog = <<>>
    /\ pc' = "scan"
    /\ UNCHANGED <<env, rx, ans, fds, clients, kids, ran, i, polled, ready, term>>

-----------------------------------------------------------------------------
(* The scan of the rows that were polled.  After clients.remove(i) the rows *)
(* shift down one position and `ready` does not.                            *)

InScan == pc = "scan" /\ i <= polled /\ i <= Len(clients)

ScanNext == i' = i + 1 /\ UNCHANGED <<pc, polled, ready>>
ScanSame == UNCHANGED loop

SkipQuiet ==
    /\ InScan /\ ~ready[i]
    /\ ScanNext
    /\ UNCHANGED <<env, rx, ans, fds, clients, kids, ran, term>>

\* A row with a child: recv(MSG_PEEK) tells a dead client from noise.
PeekAlive ==
    /\ InScan /\ ready[i] /\ clients[i].pid # Nobody
    /\ ~PeerClosed(clients[i].conn)
    /\ ScanNext
    /\ UNCHANGED <<env, rx, ans, fds, clients, kids, ran, term>>

\* Faulty variant for KillsOnlyForCause: revents alone means the client died.
PeekDeadTrustsRevents ==
    /\ InScan /\ ready[i] /\ clients[i].pid # Nobody
    /\ KillChild(clients[i].pid)
    /\ DropRow(i)
    /\ ScanSame
    /\ UNCHANGED <<env, rx, ans, stdios, ran, term>>

\* Faulty variant for ChildHasItsRow: the row is dropped and its child forgotten.
PeekDeadForgetsChild ==
    /\ InScan /\ ready[i] /\ clients[i].pid # Nobody
    /\ PeerClosed(clients[i].conn)
    /\ DropRow(i)
    /\ ScanSame
    /\ UNCHANGED <<env, rx, ans, stdios, kids, ran, term>>

PeekDead ==
    /\ InScan /\ ready[i] /\ clients[i].pid # Nobody
    /\ PeerClosed(clients[i].conn)
    /\ KillChild(clients[i].pid)
    /\ DropRow(i)
    /\ ScanSame
    /\ UNCHANGED <<env, rx, ans, stdios, ran, term>>

\* A row whose command is read now.
Reads == InScan /\ ready[i] /\ clients[i].pid = Nobody

\* client_read_command returns Partial: no bytes yet, `first` already spent.
ReadPartial ==
    /\ Reads /\ rx[clients[i].conn] = "none" /\ ~PeerClosed(clients[i].conn)
    /\ clients' = [clients EXCEPT ![i] = Fill(@)]
    /\ ScanNext
    /\ UNCHANGED <<env, rx, ans, fds, kids, ran, term>>

ReadEof ==
    /\ Reads /\ rx[clients[i].conn] = "none" /\ PeerClosed(clients[i].conn)
    /\ Respond(clients[i].conn, Reply("ERR", Nobody))
    /\ DropRow(i)
    /\ ScanSame
    /\ UNCHANGED <<env, rx, stdios, kids, ran, term>>

\* client_read_command returns a command: its bytes leave the socket.
ReadCommand(cmd) ==
    /\ Reads /\ rx[clients[i].conn] = cmd
    /\ rx' = [rx EXCEPT ![clients[i].conn] = "none"]
    /\ stdios' = FillTable(clients[i])

DoPing ==
    /\ ReadCommand("PING")
    /\ clients' = [clients EXCEPT ![i] = Fill(@)]
    /\ Respond(clients[i].conn, Reply("OK", Nobody))
    /\ ScanNext
    /\ UNCHANGED <<env, conns, kids, ran, term>>

DoStop ==
    /\ ReadCommand("STOP")
    /\ clients' = [clients EXCEPT ![i] = Fill(@)]
    /\ Respond(clients[i].conn, Reply("BYE", Nobody))
    /\ pc' = "down" /\ i' = 1
    /\ UNCHANGED <<env, conns, kids, ran, polled, ready, term>>

\* CommandErr::Bad or an unknown command.
DoBad ==
    /\ ReadCommand("BAD")
    /\ Respond(clients[i].conn, Reply("ERR", Nobody))
    /\ DropRow(i)
    /\ ScanSame
    /\ UNCHANGED <<env, kids, ran, term>>

\* RUN or EVAL: fork; the parent closes its copies of the client's stdio.
DoRun(p) ==
    /\ Reads /\ rx[clients[i].conn] = "RUN" /\ kids[p].st = "free"
    /\ LET row == Fill(clients[i]) IN
        /\ rx' = [rx EXCEPT ![row.conn] = "none"]
        /\ kids' = [kids EXCEPT ![p] =
                       [st |-> "running", for |-> row.conn, io |-> row.fds,
                        held |-> conns \ {row.conn}]]
        /\ stdios' = FillTable(clients[i]) \ {row.fds}
        /\ clients' = [clients EXCEPT ![i] = [row EXCEPT !.fds = Nobody, !.pid = p]]
        /\ ran' = ran \cup {row.conn}
    /\ ScanNext
    /\ UNCHANGED <<env, ans, conns, term>>

\* fork(2) fails (EAGAIN, ENOMEM).
ForkFails ==
    /\ ReadCommand("RUN")
    /\ Respond(clients[i].conn, Reply("ERR", Nobody))
    /\ DropRow(i)
    /\ ScanSame
    /\ UNCHANGED <<env, kids, ran, term>>

ScanDone ==
    /\ pc = "scan" /\ (i > polled \/ i > Len(clients))
    /\ pc' = "reap" /\ i' = 1 /\ polled' = 0 /\ ready' = <<>>
    /\ UNCHANGED <<env, rx, ans, fds, clients, kids, ran, term>>

-----------------------------------------------------------------------------
(* waitpid(WNOHANG) on every row with a child *)

InReap == pc = "reap" /\ i <= Len(clients)

ReapNothing ==
    /\ InReap
    /\ WaitNoHang(clients[i].pid) = {}
    /\ i' = i + 1
    /\ UNCHANGED <<env, rx, ans, fds, clients, kids, ran, pc, polled, ready, term>>

\* Faulty variant for TypeOK: the index moves on although the row was removed.
ReapChildAdvances ==
    /\ InReap /\ clients[i].pid # Nobody
    /\ \E of \in WaitNoHang(clients[i].pid) :
           Respond(clients[i].conn, Reply("STATUS", of))
    /\ kids' = [kids EXCEPT ![clients[i].pid] = NoKid]
    /\ DropRow(i)
    /\ i' = i + 1
    /\ UNCHANGED <<env, rx, stdios, ran, pc, polled, ready, term>>

\* Faulty variant for EndedJobIsReported: reaped, and nobody is told.
ReapChildSilently ==
    /\ InReap /\ WaitNoHang(clients[i].pid) # {}
    /\ kids' = [kids EXCEPT ![clients[i].pid] = NoKid]
    /\ clients' = [clients EXCEPT ![i].pid = Nobody]
    /\ i' = i + 1
    /\ UNCHANGED <<env, rx, ans, fds, ran, pc, polled, ready, term>>

\* Faulty variant for ImplementsService: the client is told, its row stays.
ReapChildKeepsRow ==
    /\ InReap /\ clients[i].pid # Nobody
    /\ \E of \in WaitNoHang(clients[i].pid) :
           Respond(clients[i].conn, Reply("STATUS", of))
    /\ kids' = [kids EXCEPT ![clients[i].pid] = NoKid]
    /\ i' = i + 1
    /\ UNCHANGED <<env, rx, fds, clients, ran, pc, polled, ready, term>>

ReapChild ==
    /\ InReap /\ clients[i].pid # Nobody
    /\ \E of \in WaitNoHang(clients[i].pid) :
           Respond(clients[i].conn, Reply("STATUS", of))
    /\ kids' = [kids EXCEPT ![clients[i].pid] = NoKid]
    /\ DropRow(i)
    /\ UNCHANGED <<env, rx, stdios, ran, loop, term>>

ReapDone ==
    /\ pc = "reap" /\ i > Len(clients)
    /\ pc' = "poll" /\ i' = 1
    /\ UNCHANGED <<env, rx, ans, fds, clients, kids, ran, polled, ready, term>>

-----------------------------------------------------------------------------
(* daemon_shutdown *)

InShutdown == pc = "down" /\ i <= Len(clients)

ShutdownIdle ==
    /\ InShutdown /\ clients[i].pid = Nobody
    /\ i' = i + 1
    /\ UNCHANGED <<env, rx, ans, fds, clients, kids, ran, pc, polled, ready, term>>

\* kill_child reaps it, so its own status is what the client is told.
ShutdownKill ==
    /\ InShutdown /\ clients[i].pid # Nobody
    /\ KillChild(clients[i].pid)
    /\ Respond(clients[i].conn, Reply("STATUS", kids[clients[i].pid].for))
    /\ clients' = [clients EXCEPT ![i].pid = Nobody]
    /\ i' = i + 1
    /\ UNCHANGED <<env, rx, fds, ran, pc, polled, ready, term>>

\* Faulty variant for NoOrphanAfterShutdown: exit before every child is down.
ExitEarly ==
    /\ pc = "down"
    /\ pc' = "off" /\ i' = 1 /\ polled' = 0 /\ ready' = <<>>
    /\ backlog' = <<>> /\ conns' = {} /\ stdios' = {} /\ clients' = <<>>
    /\ UNCHANGED <<cl, op, rx, ans, kids, ran, term>>

\* Socket and pidfile are removed, vm.cleanup runs, the process exits.
Exit ==
    /\ pc = "down" /\ i > Len(clients)
    /\ pc' = "off" /\ i' = 1 /\ polled' = 0 /\ ready' = <<>>
    /\ backlog' = <<>> /\ conns' = {} /\ stdios' = {} /\ clients' = <<>>
    /\ UNCHANGED <<cl, op, rx, ans, kids, ran, term>>

-----------------------------------------------------------------------------
Client(c) ==
    \/ Connect(c)
    \/ \E cmd \in Ops : Send(c, cmd)
    \/ Receive(c)
    \/ LoseDaemon(c)
    \/ Die(c)

Scan ==
    \/ SkipQuiet
    \/ PeekAlive \/ PeekDead
    \/ ReadPartial \/ ReadEof
    \/ DoPing \/ DoStop \/ DoBad
    \/ (\E p \in Pids : DoRun(p)) \/ ForkFails
    \/ ScanDone

Daemon ==
    \/ NoticeTerm \/ Poll
    \/ Accept \/ AcceptDone
    \/ Scan
    \/ ReapNothing \/ ReapChild \/ ReapDone
    \/ ShutdownIdle \/ ShutdownKill \/ Exit

Next ==
    \/ \E c \in Clients : Client(c)
    \/ \E p \in Pids : KidExit(p)
    \/ TermSignal
    \/ Crash
    \/ Daemon

Spec == Init /\ [][Next]_vars

(***************************************************************************)
(* The kernel keeps scheduling the daemon; a client that is connected goes *)
(* on to send, and one that has a reply or an EOF to read reads it.        *)
(* Nobody has to connect, to die, to signal, to crash, and no script has   *)
(* to end.                                                                 *)
(***************************************************************************)
Fairness ==
    /\ WF_vars(Daemon)
    /\ \A c \in Clients : WF_vars(Receive(c) \/ LoseDaemon(c))

FairSpec == Spec /\ Fairness

-----------------------------------------------------------------------------
(* Safety *)

\* Types, and the index the loops keep: after clients.remove(i) it never
\* stands more than one past the end of the vector.
TypeOK ==
    /\ cl \in [Clients -> {"init", "connected", "waiting", "done", "dead"}]
    /\ op \in [Clients -> Commands \cup {"none"}]
    /\ rx \in [Clients -> Commands \cup {"none"}]
    /\ ans \in [Clients -> Seq(Replies)]
    /\ backlog \in Seq(Clients)
    /\ conns \subseteq Clients /\ stdios \subseteq Clients
    /\ clients \in Seq(Rows)
    /\ kids \in [Pids -> KidRecords]
    /\ ran \subseteq Clients
    /\ pc \in {"poll", "accept", "scan", "reap", "down", "off", "crashed"}
    /\ i \in 1..(Len(clients) + 1)
    /\ polled \in Nat /\ ready \in Seq(BOOLEAN) /\ Len(ready) = polled
    /\ term \in BOOLEAN

\* The vector and the descriptor table agree: one row per accepted
\* connection, and a connection leaves both together.  A row that outlived
\* its descriptor would read from whoever is accepted next.
TableMatchesRows ==
    /\ \A j, k \in 1..Len(clients) : clients[j].conn = clients[k].conn => j = k
    /\ conns = {clients[k].conn : k \in 1..Len(clients)}
    /\ \A k \in 1..Len(backlog) : backlog[k] \notin conns

\* While the daemon runs, every child not yet reaped belongs to exactly one
\* row, that of the client it was forked for: none is lost (it would never be
\* reaped) and none is waited for twice (the pid may be somebody else's).
ChildHasItsRow ==
    /\ \A j, k \in 1..Len(clients) :
           clients[j].pid = clients[k].pid /\ clients[j].pid # Nobody => j = k
    /\ \A k \in 1..Len(clients) :
           clients[k].pid # Nobody =>
               /\ kids[clients[k].pid].st # "free"
               /\ kids[clients[k].pid].for = clients[k].conn
    /\ ~Down =>
           \A p \in Pids : kids[p].st # "free" =>
               \E k \in 1..Len(clients) : clients[k].pid = p

\* The reply that c's command calls for, given what became of its job.
Right(c, reply) ==
    \/ /\ reply.kind = "STATUS" /\ reply.of = c
       /\ op[c] = "RUN" /\ c \in ran
       /\ \A p \in Pids : kids[p].for # c
    \/ reply.kind = "OK" /\ op[c] = "PING"
    \/ reply.kind = "BYE" /\ op[c] = "STOP"
    \/ reply.kind = "ERR" /\ op[c] \in {"RUN", "BAD"} /\ c \notin ran

\* A client is told the status of its own child, once that child is gone, and
\* never the status of another's or the "STATUS 0" invented for ECHILD; it
\* reads at most one reply, of the kind its command calls for.
OwnStatus ==
    \A c \in Clients :
        Len(ans[c]) <= 1 /\ \A k \in 1..Len(ans[c]) : Right(c, ans[c][k])

\* A job runs with the stdio of the client that asked for it: protocol.rs says
\* "stdio do cliente via SCM_RIGHTS (1o recvmsg)", and daemon.rs says that a new
\* connection is first read in the tick after its accept.  A row removed during
\* the scan hands its revents to the next row, which may be that new connection.
StdioArrives ==
    \A p \in Pids : kids[p].st # "free" => kids[p].io = kids[p].for

\* The daemon keeps no stdio descriptor of a client whose connection it has
\* dropped (kept, the write end of `calisto run ... | head` never closes).
StdioReleased ==
    stdios \subseteq {clients[k].conn : k \in 1..Len(clients)}

\* After STOP, TERM or HUP nothing the daemon forked is left running
\* (daemon_shutdown takes down every row's child before the process exits).
NoOrphanAfterShutdown ==
    pc = "off" => \A p \in Pids : kids[p].st = "free"

\* A job is cut short only because its client went away or the daemon is
\* shutting down; an event of another connection, or a revents entry that
\* belongs to a removed row, never kills it.
KillsOnlyForCause ==
    [][\A p \in Pids :
          kids[p].st = "running" /\ kids'[p].st = "free" =>
              PeerClosed(kids[p].for) \/ pc = "down" \/ Down]_vars

\* The inductive strengthening: a connection is in accept's queue once, and
\* nowhere before its client connected; daemon_shutdown leaves no child behind
\* its index; a process that is gone has no rows.
Bookkeeping ==
    /\ TypeOK /\ TableMatchesRows /\ ChildHasItsRow /\ NoOrphanAfterShutdown
    /\ \A j, k \in 1..Len(backlog) : backlog[j] = backlog[k] => j = k
    /\ \A k \in 1..Len(backlog) : cl[backlog[k]] # "init"
    /\ \A c \in conns : cl[c] # "init"
    /\ pc = "down" => \A k \in 1..(i - 1) : clients[k].pid = Nobody
    /\ Down => Len(clients) = 0 /\ Len(backlog) = 0 /\ conns = {}

\* The strengthening of OwnStatus: nobody asks before connecting or is answered
\* before asking; a command still in its socket has no reply and no job; a client
\* has one child at most, from its fork until the reply.
Dialogue ==
    /\ \A c \in Clients :
        /\ cl[c] \in {"init", "connected"} => op[c] = "none"
        /\ op[c] = "none" => rx[c] = "none" /\ ans[c] = <<>>
        /\ rx[c] # "none" => rx[c] = op[c] /\ ans[c] = <<>> /\ c \notin ran
        /\ c \in ran => op[c] = "RUN"
    /\ \A p \in Pids :
        IF kids[p].st = "free" THEN kids[p].for = Nobody
                               ELSE kids[p].for \in ran /\ ans[kids[p].for] = <<>>
    /\ \A p, q \in Pids : kids[p].for = kids[q].for /\ kids[p].for # Nobody => p = q

-----------------------------------------------------------------------------
(* Liveness *)

\* A client that dies takes its job with it: the daemon sees the EOF and
\* kills the child, even one that would never end by itself.
ClientDeathKillsJob ==
    \A c \in Clients :
        cl[c] = "dead" /\ JobRunning(c) ~> (~JobRunning(c) \/ pc = "crashed")

\* A request is answered or its job is running.  The one exception is a crash
\* while another client's job runs: that child holds a copy of the connection,
\* so the client sees no EOF until it ends.
RequestIsTakenUp ==
    \A c \in Clients :
        cl[c] = "waiting" ~>
            cl[c] # "waiting" \/ JobRunning(c) \/ (pc = "crashed" /\ Held(c))

\* A job that has ended is reported: its client does not wait on.
EndedJobIsReported ==
    \A c \in Clients :
        cl[c] = "waiting" /\ c \in ran /\ ~JobRunning(c) ~>
            cl[c] # "waiting" \/ (pc = "crashed" /\ Held(c))

\* A STOP that was sent, or a signal, ends the daemon whatever else is going on.
StopStops ==
    (term \/ \E c \in Clients : op[c] = "STOP") ~> Down

-----------------------------------------------------------------------------
(* Refinement *)

Job == [c \in Clients |-> IF JobRunning(c) THEN "running"
                          ELSE IF c \in ran THEN "over" ELSE "none"]

Service == INSTANCE RequestService WITH asked <- op, job <- Job, reply <- ans

\* The loop implements what a client is promised: at most one job per RUN, one
\* true status once it is over, one reply to anything else.
ImplementsService == Service!Spec

=============================================================================
