------------------------------- MODULE VmFork -------------------------------
(***************************************************************************)
(* One fork of the warm daemon, seen by the locks of its threads.  Only    *)
(* the forking thread lives on in the child, and the child's locks are a   *)
(* copy of the parent's: one held by another thread stays held for ever.   *)
(*                                                                         *)
(* Two groups of locks matter: those of the C library's three standard     *)
(* FILEs, which the fork handlers take before the fork and give back on    *)
(* both sides (daemon.rs 80-128), and the lock of the VM's scheduler,      *)
(* which the VM's timer thread takes at each tick: the daemon stops that   *)
(* thread before the fork and starts it again after (daemon.rs 553-590).   *)
(* Both depend on symbols looked up at boot that may be missing; then the  *)
(* daemon warns and forks all the same.  The two functions of the VM are   *)
(* in one symbol table, and are found or missing together.                 *)
(***************************************************************************)
EXTENDS Naturals

CONSTANTS
  NFiles,   \* number of standard FILEs
  Others,   \* other threads of the process, left by an app's preload
  Main,     \* the thread of the accept loop
  Timer,    \* the timer thread of the VM
  Free,     \* no thread
  Sched     \* the lock of the scheduler

Files == 1 .. NFiles
Locks == Files \cup {Sched}
Threads == Others \cup {Main, Timer}

ASSUME ForkAssumption ==
  /\ NFiles \in Nat /\ Sched \notin Nat
  /\ Main # Timer /\ Main \notin Others /\ Timer \notin Others
  /\ Free \notin Threads

VARIABLES
  forkPc,     \* where the accept loop is
  next,       \* the FILE that stdio_fork_prepare takes next
  timer,      \* the timer thread: "ticking" or "stopped"
  held,       \* the daemon's locks
  kid,        \* the child's copy of them
  kidPc,      \* "none", "forked", "running"
  stdioSafe,  \* the FILEs were found and the handlers registered
  timerSafe   \* the VM's functions to stop and start its timer were found

forkVars == <<forkPc, next, timer, held, kid, kidPc, stdioSafe, timerSafe>>

AllFree == [l \in Locks |-> Free]

ForkTypeOK ==
  /\ forkPc \in {"boot", "loop", "joining", "prepare", "release"}
  /\ next \in 1 .. NFiles + 1
  /\ timer \in {"ticking", "stopped"}
  /\ held \in [Locks -> Threads \cup {Free}]
  /\ kid \in [Locks -> Threads \cup {Free}]
  /\ kidPc \in {"none", "forked", "running"}
  /\ stdioSafe \in BOOLEAN /\ timerSafe \in BOOLEAN

ForkInit ==
  /\ forkPc = "boot" /\ next = 1 /\ timer = "ticking"
  /\ held = AllFree /\ kid = AllFree /\ kidPc = "none"
  /\ stdioSafe = FALSE /\ timerSafe = FALSE

\* The locks l as one thread leaves them after giving back the FILEs: the
\* handlers do not look at who holds them.
FilesFreed(l) == [f \in Locks |-> IF f \in Files THEN Free ELSE l[f]]

-----------------------------------------------------------------------------
(* The accept loop.                                                         *)

\* Ruby::open, stdio_atfork_register: each finds its symbols or only warns.
FindSymbols ==
  /\ forkPc = "boot"
  /\ forkPc' = "loop"
  /\ stdioSafe' \in BOOLEAN /\ timerSafe' \in BOOLEAN
  /\ UNCHANGED <<next, timer, held, kid, kidPc>>

\* RUN or EVAL: stop_timer_thread asks the timer to end and joins it.
StopTimer ==
  /\ forkPc = "loop"
  /\ forkPc' = IF timerSafe THEN "joining" ELSE "prepare"
  /\ UNCHANGED <<next, timer, held, kid, kidPc, stdioSafe, timerSafe>>

\* Faulty variant: the timer is told to end, nobody waits for it.
TimerNotJoined ==
  /\ forkPc = "joining"
  /\ timer' = "stopped"
  /\ forkPc' = "prepare"
  /\ UNCHANGED <<next, held, kid, kidPc, stdioSafe, timerSafe>>

\* The timer thread ends between two ticks, when it holds nothing.
TimerJoined ==
  /\ forkPc = "joining"
  /\ \A l \in Locks : held[l] # Timer
  /\ timer' = "stopped"
  /\ forkPc' = "prepare"
  /\ UNCHANGED <<next, held, kid, kidPc, stdioSafe, timerSafe>>

\* stdio_fork_prepare, inside fork(): the FILEs in their order.
Prepare ==
  /\ forkPc = "prepare" /\ stdioSafe
  /\ next <= NFiles /\ held[next] = Free
  /\ held' = [held EXCEPT ![next] = Main]
  /\ next' = next + 1
  /\ UNCHANGED <<forkPc, timer, kid, kidPc, stdioSafe, timerSafe>>

Prepared == forkPc = "prepare" /\ (stdioSafe => next > NFiles)

\* fork(): the child starts with a copy of the locks as they are.
Fork ==
  /\ Prepared /\ kidPc = "none"
  /\ kid' = held /\ kidPc' = "forked"
  /\ forkPc' = "release"
  /\ UNCHANGED <<next, timer, held, stdioSafe, timerSafe>>

\* fork() fails: the handlers of the parent run, and the loop goes on.
ForkFails ==
  /\ Prepared
  /\ forkPc' = "release"
  /\ UNCHANGED <<next, timer, held, kid, kidPc, stdioSafe, timerSafe>>

\* stdio_fork_release in the parent, then start_timer_thread.
ParentReleases ==
  /\ forkPc = "release"
  /\ held' = IF stdioSafe THEN FilesFreed(held) ELSE held
  /\ timer' = "ticking"
  /\ next' = 1 /\ forkPc' = "loop"
  /\ UNCHANGED <<kid, kidPc, stdioSafe, timerSafe>>

-----------------------------------------------------------------------------
(* The child.                                                               *)

\* stdio_fork_release in the child, then thread_atfork makes its own timer.
ChildReleases ==
  /\ kidPc = "forked"
  /\ kid' = IF stdioSafe THEN FilesFreed(kid) ELSE kid
  /\ kidPc' = "running"
  /\ UNCHANGED <<forkPc, next, timer, held, stdioSafe, timerSafe>>

\* The child uses its locks and ends; with one held by a thread it does not
\* have, it never does.
ChildEnds ==
  /\ kidPc = "running" /\ kid = AllFree
  /\ kidPc' = "none"
  /\ UNCHANGED <<forkPc, next, timer, held, kid, stdioSafe, timerSafe>>

-----------------------------------------------------------------------------
(* The other threads: one lock at a time, except that the timer also takes  *)
(* a FILE inside a tick.                                                    *)

TimerTicks ==
  /\ forkPc # "boot" /\ timer = "ticking" /\ held[Sched] = Free
  /\ held' = [held EXCEPT ![Sched] = Timer]
  /\ UNCHANGED <<forkPc, next, timer, kid, kidPc, stdioSafe, timerSafe>>

TimerTakesFile(f) ==
  /\ held[Sched] = Timer /\ held[f] = Free
  /\ \A g \in Files : held[g] # Timer
  /\ held' = [held EXCEPT ![f] = Timer]
  /\ UNCHANGED <<forkPc, next, timer, kid, kidPc, stdioSafe, timerSafe>>

TimerLetsGo(l) ==
  /\ held[l] = Timer
  /\ l = Sched => \A f \in Files : held[f] # Timer
  /\ held' = [held EXCEPT ![l] = Free]
  /\ UNCHANGED <<forkPc, next, timer, kid, kidPc, stdioSafe, timerSafe>>

OtherTakesFile(o, f) ==
  /\ forkPc # "boot" /\ held[f] = Free
  /\ \A l \in Locks : held[l] # o
  /\ held' = [held EXCEPT ![f] = o]
  /\ UNCHANGED <<forkPc, next, timer, kid, kidPc, stdioSafe, timerSafe>>

OtherLetsGo(o, f) ==
  /\ held[f] = o
  /\ held' = [held EXCEPT ![f] = Free]
  /\ UNCHANGED <<forkPc, next, timer, kid, kidPc, stdioSafe, timerSafe>>

ForkNext ==
  \/ FindSymbols \/ StopTimer \/ TimerJoined \/ Prepare \/ Fork \/ ForkFails
  \/ ParentReleases \/ ChildReleases \/ ChildEnds \/ TimerTicks
  \/ \E f \in Files : TimerTakesFile(f)
  \/ \E l \in Locks : TimerLetsGo(l)
  \/ \E o \in Others, f \in Files : OtherTakesFile(o, f) \/ OtherLetsGo(o, f)

ForkSpec == ForkInit /\ [][ForkNext]_forkVars

-----------------------------------------------------------------------------
(* Property.                                                                *)

\* A forked child can take every lock it needs: none of them was copied while
\* a thread that the child does not have held it.  The exceptions are those
\* the daemon warns about at boot: without the symbols of the C library a FILE
\* may be stuck (daemon.rs 116-122), without those of the VM the scheduler.
ChildNeverStuck ==
  kidPc = "running" =>
    \A l \in Locks : kid[l] # Free =>
      IF l = Sched THEN ~timerSafe ELSE ~stdioSafe
=============================================================================
