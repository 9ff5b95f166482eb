----------------------------- MODULE TestRunner -----------------------------
(***************************************************************************)
(* `calisto test`: worker threads take the selected files from a shared    *)
(* counter and run each in a child of the warm daemon; with --watch the    *)
(* files are polled and run again after an edit (test.rs 175-309).         *)
(*                                                                         *)
(* The daemon may end and come back at any time: the command spawns it     *)
(* once, before the first run, and its workers only connect.               *)
(***************************************************************************)
EXTENDS TestFiles, Naturals, FiniteSets

CONSTANTS
  Workers,    \* the threads, as many as the machine has CPUs
  Typed,      \* what may be typed: [tree, pats, watch, badFlag]
  MaxEdits    \* bound on the edits of the user

ASSUME TestAssumption ==
  /\ Workers # {} /\ IsFiniteSet(Workers) /\ MaxEdits \in Nat
  /\ \A t \in Typed : IsFiniteSet(Selected(t.tree, t.pats))

VARIABLES
  testPc,    \* "typed", "running", "joined", "watching", "rerunning", "ended"
  typed,     \* the command
  queue,     \* the selected files, in their order
  nextFile,  \* the shared counter
  at,        \* thread -> "out", "free", "took", "asked", "lost"
  doing,     \* thread -> the file it holds, 0 for none
  results,   \* [file, by, code], as the threads push them
  code,      \* the exit code of the first run
  up,        \* a daemon answers
  version,   \* file -> how often the user wrote it since the start
  snap,      \* file -> the version of the last snapshot
  begun      \* file -> the version when its last run began

testVars == <<testPc, typed, queue, nextFile, at, doing, results, code, up,
              version, snap, begun>>
threads == <<nextFile, at, doing, results>>
disk == <<version, snap, begun>>

Indices == DOMAIN queue
Running == testPc \in {"running", "rerunning"}

TestInit ==
  /\ testPc = "typed" /\ typed \in Typed /\ queue = <<>> /\ nextFile = 1
  /\ at = [w \in Workers |-> "out"] /\ doing = [w \in Workers |-> 0]
  /\ results = {} /\ code = 0 /\ up = FALSE
  /\ version = <<>> /\ snap = <<>> /\ begun = <<>>

\* run_once over n files: as many threads as files, none more than CPUs.
StartThreads(n) ==
  /\ nextFile' = 1 /\ results' = {}
  /\ \E ws \in SUBSET Workers :
       /\ Cardinality(ws) = IF n < Cardinality(Workers) THEN n ELSE Cardinality(Workers)
       /\ at' = [w \in Workers |-> IF w \in ws THEN "free" ELSE "out"]
  /\ UNCHANGED doing

\* An unknown flag, a broken calisto.toml, no file, no Ruby, no daemon.
Refuse ==
  /\ testPc = "typed"
  /\ testPc' = "ended" /\ code' = 1
  /\ UNCHANGED <<typed, queue, threads, up, disk>>

\* cmd_test: the files are selected, a daemon is connected to or spawned, and
\* the first run begins.
Begin ==
  LET files == Selected(typed.tree, typed.pats) IN
    /\ testPc = "typed" /\ ~typed.badFlag /\ files # {}
    /\ testPc' = "running" /\ up' = TRUE
    /\ queue' = InOrder(files)
    /\ version' = [f \in DOMAIN queue' |-> 0]
    /\ snap' = version' /\ begun' = version'
    /\ StartThreads(Cardinality(files))
    /\ UNCHANGED <<typed, code>>

-----------------------------------------------------------------------------
(* The threads.                                                             *)

\* fetch_add: the next file, or the end of the thread.
Take(w) ==
  /\ at[w] = "free"
  /\ nextFile' = nextFile + 1
  /\ IF nextFile \in Indices
     THEN /\ at' = [at EXCEPT ![w] = "took"] /\ doing' = [doing EXCEPT ![w] = nextFile]
          /\ begun' = [begun EXCEPT ![nextFile] = version[nextFile]]
     ELSE at' = [at EXCEPT ![w] = "out"] /\ UNCHANGED <<doing, begun>>
  /\ UNCHANGED <<testPc, typed, queue, results, code, up, version, snap>>

\* The result of w is pushed, and w goes for the next file.
Push(w, c) ==
  /\ results' = results \cup {[file |-> doing[w], by |-> w, code |-> c]}
  /\ at' = [at EXCEPT ![w] = "free"] /\ doing' = [doing EXCEPT ![w] = 0]
  /\ UNCHANGED <<testPc, typed, queue, nextFile, code, up, disk>>

\* Faulty variant: a file whose connection fails is skipped.
ConnectFailsSilently(w) ==
  /\ at[w] = "took" /\ ~up
  /\ at' = [at EXCEPT ![w] = "free"] /\ doing' = [doing EXCEPT ![w] = 0]
  /\ UNCHANGED <<testPc, typed, queue, nextFile, results, code, up, disk>>

\* No daemon in the directory: the file fails with code 2.
ConnectFails(w) == at[w] = "took" /\ ~up /\ Push(w, 2)

\* run_request_full: the request is sent.
Ask(w) ==
  /\ at[w] = "took" /\ up
  /\ at' = [at EXCEPT ![w] = "asked"]
  /\ UNCHANGED <<testPc, typed, queue, nextFile, doing, results, code, up, disk>>

\* STATUS: the child ended with some code, of which 0 and 1 stand for all; a
\* file that is not there does not load.
Answer(w) ==
  /\ at[w] = "asked"
  /\ \E c \in {0, 1} : (~IsFile(typed.tree, queue[doing[w]]) => c = 1) /\ Push(w, c)

\* "daemon closed connection".
Lost(w) == at[w] = "lost" /\ Push(w, 1)

Worker(w) == Take(w) \/ ConnectFails(w) \/ Ask(w) \/ Answer(w) \/ Lost(w)

Joined == \A w \in Workers : at[w] = "out"

\* join of the first run, and its exit code.
Join ==
  /\ testPc = "running" /\ Joined
  /\ testPc' = "joined"
  /\ code' = IF \E r \in results : r.code # 0 THEN 1 ELSE 0
  /\ UNCHANGED <<typed, queue, threads, up, disk>>

-----------------------------------------------------------------------------
(* The watch loop.                                                          *)

Finish ==
  /\ testPc = "joined" /\ ~typed.watch
  /\ testPc' = "ended"
  /\ UNCHANGED <<typed, queue, threads, code, up, disk>>

\* The first snapshot, after the first run.
Watch ==
  /\ testPc = "joined" /\ typed.watch
  /\ testPc' = "watching" /\ snap' = version
  /\ UNCHANGED <<typed, queue, threads, code, up, version, begun>>

\* A poll, every 300 ms, that finds a difference: the new snapshot is kept and
\* all the files run again.
Poll ==
  /\ testPc = "watching" /\ version # snap
  /\ testPc' = "rerunning" /\ snap' = version
  /\ StartThreads(Cardinality(Indices))
  /\ UNCHANGED <<typed, queue, code, up, version, begun>>

\* Faulty variant: the snapshot is taken when the run has ended.
JoinAgainSnaps ==
  /\ testPc = "rerunning" /\ Joined
  /\ testPc' = "watching" /\ snap' = version
  /\ UNCHANGED <<typed, queue, threads, code, up, version, begun>>

\* join of a later run, whose code is dropped.
JoinAgain ==
  /\ testPc = "rerunning" /\ Joined
  /\ testPc' = "watching"
  /\ UNCHANGED <<typed, queue, threads, code, up, disk>>

-----------------------------------------------------------------------------
(* The daemon and the user.                                                 *)

\* A stop, a signal, a crash: the requests in flight are lost.
DaemonGoes ==
  /\ up
  /\ up' = FALSE
  /\ at' = [w \in Workers |-> IF at[w] = "asked" THEN "lost" ELSE at[w]]
  /\ UNCHANGED <<testPc, typed, queue, nextFile, doing, results, code, disk>>

\* Another command spawns a daemon in the directory.
DaemonComes ==
  /\ ~up /\ testPc # "typed"
  /\ up' = TRUE
  /\ UNCHANGED <<testPc, typed, queue, threads, code, disk>>

Edits == SumFunction(version)

\* The user writes a file of the run.
Edit(f) ==
  /\ testPc \notin {"typed", "ended"} /\ Edits < MaxEdits
  /\ version' = [version EXCEPT ![f] = @ + 1]
  /\ UNCHANGED <<testPc, typed, queue, threads, code, up, snap, begun>>

TestNext ==
  \/ Refuse \/ Begin \/ Join \/ Finish \/ Watch \/ Poll \/ JoinAgain
  \/ \E w \in Workers : Worker(w)
  \/ DaemonGoes \/ DaemonComes
  \/ \E f \in Indices : Edit(f)

\* The threads are scheduled, children end, and the loop wakes up.
TestFairness ==
  /\ WF_testVars(Join) /\ WF_testVars(Watch) /\ WF_testVars(Poll) /\ WF_testVars(JoinAgain)
  /\ \A w \in Workers : WF_testVars(Worker(w))

TestSpec == TestInit /\ [][TestNext]_testVars

-----------------------------------------------------------------------------
(* Properties.                                                              *)

\* Threads hold files exactly while they work on them, and push results of
\* files of the run only.
TestTypeOK ==
  /\ testPc \in {"typed", "running", "joined", "watching", "rerunning", "ended"}
  /\ nextFile \in Nat \ {0}
  /\ at \in [Workers -> {"out", "free", "took", "asked", "lost"}]
  /\ doing \in [Workers -> Indices \cup {0}]
  /\ \A w \in Workers : doing[w] # 0 <=> at[w] \in {"took", "asked", "lost"}
  /\ results \subseteq [file : Indices, by : Workers, code : 0 .. 2]
  /\ code \in {0, 1} /\ up \in BOOLEAN

\* The result of file f, and no other of it.
ResultOnce(f) ==
  \E r \in results : r.file = f /\ \A q \in results : q.file = f => q = r

\* When the threads have been joined every selected file has exactly one
\* result, however they took them and whatever became of the daemon; a file the
\* user named in the root of the project is among them; and the code of a
\* command without --watch is 0 only if every file passed.
EveryFileCounted ==
  /\ testPc \in {"joined", "watching"} =>
       /\ \A f \in Indices : ResultOnce(f)
       /\ typed.tree.cwd = typed.tree.root => Named(typed.tree, typed.pats) \subseteq Range(queue)
  /\ testPc = "joined" /\ code = 0 => \A r \in results : r.code = 0

\* While it watches, an edit that came after the last snapshot leads to a run
\* that begins after it: none falls between a run and the next poll.  An edit
\* during the first run has no such promise.
EditIsRerun == (testPc = "watching" /\ version # snap) ~> (begun = version)
=============================================================================
