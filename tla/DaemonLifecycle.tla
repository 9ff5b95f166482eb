--------------------------- MODULE DaemonLifecycle ---------------------------
(***************************************************************************)
(* Who owns the socket of one runtime directory: `calisto run` processes   *)
(* that connect to a daemon or spawn one (src/runtime.rs), the daemons     *)
(* they spawn (src/daemon.rs, from boot to exit), and `calisto stop`.      *)
(*                                                                         *)
(* The file system is two names, calisto.sock and calisto.pid.  A socket   *)
(* file belongs to the daemon that bound it; connect(2) succeeds while     *)
(* that daemon listens.  A daemon is named by the run that spawned it.     *)
(* What a daemon does with its connections is in module DaemonLoop.        *)
(***************************************************************************)
EXTENDS Naturals, FiniteSets

CONSTANTS
    Runs,        \* `calisto run` processes, each the parent of one daemon
    Stops,       \* `calisto stop` processes
    Tries,       \* attempts of a stop: 5 in the code
    None         \* no daemon

ASSUME TriesAssumption == Tries \in Nat \ {0}
ASSUME NoneAssumption == None \notin Runs \cup Stops

VARIABLES
    run,         \* where each run is in connect_or_spawn_daemon_in
    dm,          \* where each daemon is in daemon_main
    sock,        \* calisto.sock: the daemon that bound it
    pidfile,     \* calisto.pid: the daemon whose pid it holds
    stop,        \* where each stop is in stop_daemon_at
    tries,       \* attempts it has made
    peer,        \* the daemon its connection leads to
    bye,         \* stops that were answered BYE
    held,        \* stops whose connection the jobs of each daemon have copies of
    asked,       \* history: daemons each stop has reached
    overlap      \* history: daemons that were not alone while they booted

files == <<sock, pidfile>>
stopper == <<stop, tries, peer, asked, held>>
vars == <<run, dm, sock, pidfile, stop, tries, peer, bye, held, asked, overlap>>

-----------------------------------------------------------------------------
(* The life of a daemon:                                                   *)
(*   boot    VM boot, preload           probe   EADDRINUSE: anybody there? *)
(*   bind    about to bind              unlink  nobody: remove the file    *)
(*   listen  bound, not yet listening   rebind  and bind again             *)
(*   pidfile listening                  serve   in the accept loop         *)
(*   down    shutdown, socket still     rmpid   socket removed             *)
(*   lost    exit 0: another owns it    gone    ended: shut down, failed   *)
(*   unbound bind failed                        in the boot, or killed     *)

Booting  == {"boot", "bind", "listen", "probe", "unlink", "rebind", "pidfile"}
Stopping == {"down", "rmpid"}
Exited   == {"gone", "lost", "unbound"}
Living   == Booting \cup {"serve"} \cup Stopping

\* listen(2) was called, and the process has not ended.
Listening(d) == dm[d] \in {"pidfile", "serve"} \cup Stopping

\* connect(2) on calisto.sock succeeds.
Connectable == sock # None /\ Listening(sock)

\* Serving, and nobody can reach it any more.
Orphan(d) == dm[d] = "serve" /\ sock # d

\* Starting up, from the failed connect of its parent on.
Starting(d) == run[d] = "spawn" \/ dm[d] \in Booting

StopActive(s) == stop[s] \notin {"idle", "done"}

\* Another daemon is alive or on its way, or a stop is.
HasRival(d) ==
    \/ \E e \in Runs \ {d} : Starting(e) \/ dm[e] \in Living
    \/ \E s \in Stops : StopActive(s)

\* Every step notes which starting daemons have company.
NoteOverlap == overlap' = overlap \cup {d \in Runs : Starting(d) /\ HasRival(d)}'

-----------------------------------------------------------------------------
Init ==
    /\ run = [r \in Runs |-> "idle"]
    /\ dm = [r \in Runs |-> "none"]
    /\ sock = None /\ pidfile = None
    /\ stop = [s \in Stops |-> "idle"]
    /\ tries = [s \in Stops |-> 0]
    /\ peer = [s \in Stops |-> None]
    /\ bye = {}
    /\ held = [r \in Runs |-> {}]
    /\ asked = [s \in Stops |-> {}]
    /\ overlap = {}

-----------------------------------------------------------------------------
(* connect_or_spawn_daemon_in *)

RunTo(r, where) == run' = [run EXCEPT ![r] = where]
DaemonTo(d, where) == dm' = [dm EXCEPT ![d] = where]

RunConnect(r) ==
    /\ run[r] = "idle"
    /\ RunTo(r, IF Connectable THEN "connected" ELSE "spawn")
    /\ UNCHANGED <<dm, files, stopper, bye>>
    /\ NoteOverlap

Spawn(r) ==
    /\ run[r] = "spawn"
    /\ RunTo(r, "connect")
    /\ DaemonTo(r, "boot")
    /\ UNCHANGED <<files, stopper, bye>>
    /\ NoteOverlap

RunLoopConnect(r) ==
    /\ run[r] = "connect"
    /\ RunTo(r, IF Connectable THEN "connected" ELSE "try_wait")
    /\ UNCHANGED <<dm, files, stopper, bye>>
    /\ NoteOverlap

\* "daemon exited early"
RunEarly(r) ==
    /\ run[r] = "try_wait" /\ dm[r] \in Exited
    /\ RunTo(r, "early")
    /\ UNCHANGED <<dm, files, stopper, bye>>
    /\ NoteOverlap

\* Still running, and the 15 s are not over: sleep and connect again.
RunAgain(r) ==
    /\ run[r] = "try_wait" /\ dm[r] \in Living
    /\ RunTo(r, "connect")
    /\ UNCHANGED <<dm, files, stopper, bye>>
    /\ NoteOverlap

\* Faulty variant for RunEnds: the deadline is looked at once the child is dead.
RunTimeoutOfDead(r) ==
    /\ run[r] = "try_wait" /\ dm[r] \in Exited
    /\ RunTo(r, "timeout")
    /\ UNCHANGED <<dm, files, stopper, bye>>
    /\ NoteOverlap

\* "timed out waiting for daemon socket": the child is killed.
RunTimeout(r) ==
    /\ run[r] = "try_wait" /\ dm[r] \in Living
    /\ RunTo(r, "timeout")
    /\ DaemonTo(r, "gone")
    /\ UNCHANGED <<files, stopper, bye>>
    /\ NoteOverlap

-----------------------------------------------------------------------------
(* daemon_main *)

\* Preload and warmup: they may end the process, or fail the boot.
Boot(d) ==
    /\ dm[d] = "boot"
    /\ DaemonTo(d, "bind") \/ DaemonTo(d, "gone")
    /\ UNCHANGED <<run, files, stopper, bye>>
    /\ NoteOverlap

\* bind(2) creates the file or finds one: EADDRINUSE.
Bind(d) ==
    /\ dm[d] = "bind"
    /\ \/ sock = None /\ sock' = d /\ DaemonTo(d, "listen")
       \/ sock # None /\ sock' = sock /\ DaemonTo(d, "probe")
    /\ UNCHANGED <<run, pidfile, stopper, bye>>
    /\ NoteOverlap

Listen(d) ==
    /\ dm[d] = "listen"
    /\ DaemonTo(d, "pidfile")
    /\ UNCHANGED <<run, files, stopper, bye>>
    /\ NoteOverlap

\* Faulty variant for StaleSocketIsRecovered: EADDRINUSE always means that
\* another daemon is there.
ProbeAlways(d) ==
    /\ dm[d] = "probe"
    /\ DaemonTo(d, "lost")
    /\ UNCHANGED <<run, files, stopper, bye>>
    /\ NoteOverlap

Probe(d) ==
    /\ dm[d] = "probe"
    /\ DaemonTo(d, IF Connectable THEN "lost" ELSE "unlink")
    /\ UNCHANGED <<run, files, stopper, bye>>
    /\ NoteOverlap

\* remove_file: whatever is bound there by now.
Unlink(d) ==
    /\ dm[d] = "unlink"
    /\ sock' = None
    /\ DaemonTo(d, "rebind")
    /\ UNCHANGED <<run, pidfile, stopper, bye>>
    /\ NoteOverlap

\* Faulty variant for OrphanOnlyByOverlap: the stale file is removed after the
\* new one is bound over it.
RebindThenUnlink(d) ==
    /\ dm[d] = "rebind"
    /\ sock' = None /\ DaemonTo(d, "listen")
    /\ UNCHANGED <<run, pidfile, stopper, bye>>
    /\ NoteOverlap

Rebind(d) ==
    /\ dm[d] = "rebind"
    /\ \/ sock = None /\ sock' = d /\ DaemonTo(d, "listen")
       \/ sock # None /\ sock' = sock /\ DaemonTo(d, "unbound")
    /\ UNCHANGED <<run, pidfile, stopper, bye>>
    /\ NoteOverlap

\* Faulty variant for PidfileNamesOwner: a pidfile that exists is kept.
WritePidfileIfNone(d) ==
    /\ dm[d] = "pidfile"
    /\ pidfile' = IF pidfile = None THEN d ELSE pidfile
    /\ DaemonTo(d, "serve")
    /\ UNCHANGED <<run, sock, stopper, bye>>
    /\ NoteOverlap

WritePidfile(d) ==
    /\ dm[d] = "pidfile"
    /\ pidfile' = d
    /\ DaemonTo(d, "serve")
    /\ UNCHANGED <<run, sock, stopper, bye>>
    /\ NoteOverlap

\* A run's request is forked: the child gets a copy of every accepted
\* connection, and closes its own and the listener only.
Fork(d) ==
    /\ dm[d] = "serve"
    /\ \E r \in Runs : run[r] = "connected"
    /\ \E accepted \in SUBSET {s \in Stops : stop[s] = "read" /\ peer[s] = d} :
           held' = [held EXCEPT ![d] = @ \cup accepted]
    /\ UNCHANGED <<run, dm, files, stop, tries, peer, asked, bye>>
    /\ NoteOverlap

\* Jobs end, whether their daemon is alive or not; nothing says that they do.
JobsEnd(d) ==
    /\ \E left \in SUBSET held[d] : held' = [held EXCEPT ![d] = left]
    /\ UNCHANGED <<run, dm, files, stop, tries, peer, asked, bye>>
    /\ NoteOverlap

\* SIGTERM or SIGHUP, from anybody.
Term(d) ==
    /\ dm[d] = "serve"
    /\ DaemonTo(d, "down")
    /\ UNCHANGED <<run, files, stopper, bye>>
    /\ NoteOverlap

\* A STOP is read: BYE to that client, and the loop is left at once.
ServeStop(d, s) ==
    /\ dm[d] = "serve" /\ stop[s] = "read" /\ peer[s] = d
    /\ DaemonTo(d, "down")
    /\ bye' = bye \cup {s}
    /\ UNCHANGED <<run, files, stopper>>
    /\ NoteOverlap

\* The children are down, which says nothing of what they have forked;
\* remove_file(sock), whoever bound it.
RemoveSocket(d) ==
    /\ dm[d] = "down"
    /\ sock' = None
    /\ DaemonTo(d, "rmpid")
    /\ \E left \in SUBSET held[d] : held' = [held EXCEPT ![d] = left]
    /\ UNCHANGED <<run, pidfile, stop, tries, peer, asked, bye>>
    /\ NoteOverlap

\* The pidfile goes too, whoever wrote it; vm.cleanup, and the process ends.
RemovePidfile(d) ==
    /\ dm[d] = "rmpid"
    /\ pidfile' = None
    /\ DaemonTo(d, "gone")
    /\ UNCHANGED <<run, sock, stopper, bye>>
    /\ NoteOverlap

Crash(d) ==
    /\ dm[d] \in Living
    /\ DaemonTo(d, "gone")
    /\ UNCHANGED <<run, files, stopper, bye>>
    /\ NoteOverlap

-----------------------------------------------------------------------------
(* stop_daemon_at *)

StopTo(s, where) == stop' = [stop EXCEPT ![s] = where]

StopConnect(s) ==
    /\ stop[s] \in {"idle", "connect"}
    /\ \/ /\ Connectable
          /\ StopTo(s, "read")
          /\ peer' = [peer EXCEPT ![s] = sock]
          /\ asked' = [asked EXCEPT ![s] = @ \cup {sock}]
       \/ /\ ~Connectable
          /\ StopTo(s, "wait")
          /\ UNCHANGED <<peer, asked>>
    /\ UNCHANGED <<run, dm, files, tries, bye, held>>
    /\ NoteOverlap

\* Faulty variant for StopIsFinal: STOP is sent, and nothing is waited for.
StopReadNothing(s) ==
    /\ stop[s] = "read"
    /\ StopTo(s, "done")
    /\ UNCHANGED <<run, dm, files, tries, peer, bye, held, asked>>
    /\ NoteOverlap

\* No BYE, the daemon is gone, and a job has a copy of the connection: no EOF.
HeldOpen(s) ==
    s \notin bye /\ \E d \in Runs : d = peer[s] /\ dm[d] \in Exited /\ s \in held[d]

\* Faulty variant for StopReturns: only BYE ends the read, not an EOF.
StopReadBye(s) ==
    /\ stop[s] = "read" /\ s \in bye
    /\ StopTo(s, "wait")
    /\ bye' = bye \ {s}
    /\ held' = [d \in Runs |-> held[d] \ {s}]
    /\ peer' = [peer EXCEPT ![s] = None]
    /\ UNCHANGED <<run, dm, files, tries, asked>>
    /\ NoteOverlap

\* read_line has no timeout: it returns on BYE, or on the EOF of a daemon that
\* ended without reading this STOP, once no job has the connection any more.
StopRead(s) ==
    /\ stop[s] = "read"
    /\ s \in bye \/ (dm[peer[s]] \in Exited /\ ~HeldOpen(s))
    /\ StopTo(s, "wait")
    /\ bye' = bye \ {s}
    /\ held' = [d \in Runs |-> held[d] \ {s}]
    /\ peer' = [peer EXCEPT ![s] = None]
    /\ UNCHANGED <<run, dm, files, tries, asked>>
    /\ NoteOverlap

\* The socket is gone within 400 ms.
StopSeesGone(s) ==
    /\ stop[s] = "wait" /\ sock = None
    /\ StopTo(s, "done")
    /\ UNCHANGED <<run, dm, files, tries, peer, bye, held, asked>>
    /\ NoteOverlap

\* Faulty variant for TypeOK: one attempt too many.
StopTriesOnceMore(s) ==
    /\ stop[s] = "wait" /\ sock # None
    /\ tries' = [tries EXCEPT ![s] = @ + 1]
    /\ StopTo(s, IF tries[s] < Tries THEN "connect" ELSE "remove")
    /\ UNCHANGED <<run, dm, files, peer, bye, held, asked>>
    /\ NoteOverlap

\* It is not: the next attempt, or after the last one the removal.
StopTriesAgain(s) ==
    /\ stop[s] = "wait" /\ sock # None
    /\ tries' = [tries EXCEPT ![s] = @ + 1]
    /\ StopTo(s, IF tries[s] + 1 < Tries THEN "connect" ELSE "remove")
    /\ UNCHANGED <<run, dm, files, peer, bye, held, asked>>
    /\ NoteOverlap

StopRemovesSocket(s) ==
    /\ stop[s] = "remove"
    /\ sock' = None
    /\ StopTo(s, "rmpid")
    /\ UNCHANGED <<run, dm, pidfile, tries, peer, bye, held, asked>>
    /\ NoteOverlap

StopRemovesPidfile(s) ==
    /\ stop[s] = "rmpid"
    /\ pidfile' = None
    /\ StopTo(s, "done")
    /\ UNCHANGED <<run, dm, sock, tries, peer, bye, held, asked>>
    /\ NoteOverlap

-----------------------------------------------------------------------------
Run(r) ==
    RunConnect(r) \/ Spawn(r) \/ RunLoopConnect(r) \/ RunEarly(r) \/ RunAgain(r)

Daemon(d) ==
    \/ Boot(d) \/ Bind(d) \/ Listen(d) \/ Probe(d) \/ Unlink(d) \/ Rebind(d)
    \/ WritePidfile(d)
    \/ \E s \in Stops : ServeStop(d, s)
    \/ RemoveSocket(d) \/ RemovePidfile(d)

Stop(s) ==
    \/ StopConnect(s) \/ StopRead(s) \/ StopSeesGone(s) \/ StopTriesAgain(s)
    \/ StopRemovesSocket(s) \/ StopRemovesPidfile(s)

Next ==
    \/ \E r \in Runs :
        \/ Run(r) \/ RunTimeout(r)
        \/ Daemon(r) \/ Fork(r) \/ JobsEnd(r) \/ Term(r) \/ Crash(r)
    \/ \E s \in Stops : Stop(s)

(***************************************************************************)
(* Once started, a process goes on; a run that polls for ever meets its    *)
(* deadline.  Nobody has to start a run or a stop, no daemon has to be     *)
(* signalled or to crash, and no job has to end.                           *)
(***************************************************************************)
Fairness ==
    /\ \A r \in Runs :
        /\ WF_vars(Run(r) /\ run[r] # "idle")
        /\ SF_vars(RunTimeout(r))
        /\ WF_vars(Daemon(r))
    /\ \A s \in Stops : WF_vars(Stop(s) /\ stop[s] # "idle")

Spec == Init /\ [][Next]_vars /\ Fairness

-----------------------------------------------------------------------------
TypeOK ==
    /\ run \in [Runs -> {"idle", "spawn", "connect", "try_wait", "connected",
                         "early", "timeout"}]
    /\ dm \in [Runs -> {"none"} \cup Living \cup Exited]
    /\ sock \in Runs \cup {None} /\ pidfile \in Runs \cup {None}
    /\ stop \in [Stops -> {"idle", "connect", "read", "wait", "remove", "rmpid", "done"}]
    /\ tries \in [Stops -> 0..Tries]
    /\ peer \in [Stops -> Runs \cup {None}]
    /\ bye \subseteq Stops
    /\ held \in [Runs -> SUBSET Stops]
    /\ asked \in [Stops -> SUBSET Runs]
    /\ overlap \subseteq Runs
    /\ \A s \in Stops : stop[s] = "read" => peer[s] # None

\* A daemon that serves and cannot be reached runs for ever and keeps its VM.
\* It takes company during its boot: used one command at a time, whatever has
\* crashed before, the recovery of a stale socket never strands a daemon.
OrphanOnlyByOverlap == \A d \in Runs : Orphan(d) => d \in overlap

\* `calisto status` reports the pid of the daemon that answers, unless daemons
\* came and went at the same time.
PidfileNamesOwner ==
    \A d \in Runs : dm[d] = "serve" /\ sock = d /\ d \notin overlap => pidfile = d

\* A run whose daemon had no company while it started is not told "daemon
\* exited early" for a socket file in the way: what a crash left behind is
\* recovered (the test stale_socket_is_recovered), at whatever point it came.
StaleSocketIsRecovered ==
    \A r \in Runs : run[r] = "early" /\ dm[r] \in {"lost", "unbound"} => r \in overlap

\* "stop significa daemon realmente parado": when a stop returns, no daemon it
\* reached is serving any more, whatever else was started or stopped meanwhile.
StopIsFinal ==
    \A s \in Stops : stop[s] = "done" => \A d \in asked[s] : dm[d] \notin Booting \cup {"serve"}

\* stop_daemon_at, about its last removal: "Seguro: acabamos de falhar em
\* conectar 5x"; so what it removes is not the socket of a daemon that listens.
StopRemovesOnlyStale ==
    [][\A s \in Stops : StopRemovesSocket(s) => ~Connectable]_vars

\* A run gets its connection or an error; it never polls for ever, even when
\* the daemon it spawned was stranded by another one.
RunEnds == \A r \in Runs : run[r] # "idle" ~> run[r] \in {"connected", "early", "timeout"}

\* A stop returns although read_line has no timeout: a daemon in its accept
\* loop reads the STOP, and one that ends closes the connection.  The one stop
\* that need not return is kept by a job which was forked while it was
\* connected, and which is still there after its daemon; when that job ends,
\* the stop goes on.
StopReturns == \A s \in Stops : StopActive(s) ~> (stop[s] = "done" \/ HeldOpen(s))

=============================================================================
