--------------------------- MODULE Commands_proofs ---------------------------
(***************************************************************************)
(* Proofs about the commands.                                              *)
(*                                                                         *)
(* TestRunner, for any number of threads, files and edits: the invariant   *)
(* follows a file through a run: not yet reached by the counter, held by   *)
(* one thread, or with one result; and says that a run can only be joined  *)
(* when the counter has passed every file.                                 *)
(*                                                                         *)
(* VmFork, for any number of FILEs and of other threads: the invariant     *)
(* says who holds what at each point of the fork: the FILEs below `next`   *)
(* are the forking thread's, a stopped timer holds nothing, and only the   *)
(* timer ever holds the scheduler's lock.                                  *)
(*                                                                         *)
(* RunFlags, for texts of any tokens: what is written and read again piece *)
(* by piece is a fold, and folds are followed element by element: Split    *)
(* gives back the segments that JoinTexts put together, ParseSegment the   *)
(* flags that Segments took apart.                                         *)
(*                                                                         *)
(* RunCommand, for any places and command lines: the invariant says that a *)
(* directory names the version its daemon was booted with (Booted), that a *)
(* job is made of texts and asks for a daemon of its own Ruby (JobOK), and *)
(* that a script that was served saw what the child of the daemon in the   *)
(* directory shows (Served).  That the child and the interpreter show the  *)
(* same is then a fact about two functions of a job (ChildIsCold): ruby    *)
(* comes back from its arguments to the flags as the child does from the   *)
(* variable, and both put the directories of -I in the same order.         *)
(***************************************************************************)
EXTENDS MCCommands, SequenceFacts, FiniteSetTheorems

-----------------------------------------------------------------------------
(* calisto test.                                                            *)

Started == testPc \notin {"typed", "ended"}

\* The files of a run are numbered from 1.
Numbered == \E n \in Nat : Indices = 1 .. n

\* Files the counter has not reached are untouched, others are held or done.
Reached ==
  /\ \A r \in results : r.file < nextFile
  /\ \A w \in Workers : doing[w] < nextFile
  /\ \A f \in Indices : f < nextFile =>
       (\E r \in results : r.file = f) \/ (\E w \in Workers : doing[w] = f)

\* A file is held by one thread or has one result, never both.
OneEach ==
  /\ \A w, v \in Workers : doing[w] = doing[v] /\ doing[w] # 0 => w = v
  /\ \A r, q \in results : r.file = q.file => r = q
  /\ \A r \in results, w \in Workers : r.file # doing[w]

\* Threads exist only during a run, and leave it only past the last file.
ThreadsOut ==
  /\ ~Running => \A w \in Workers : at[w] = "out"
  /\ Running => nextFile \notin Indices \/ \E w \in Workers : at[w] # "out"
  /\ testPc \in {"joined", "watching"} => nextFile \notin Indices

\* What was selected is what is run.
Selection ==
  /\ typed \in Typed
  /\ testPc = "typed" => queue = <<>>
  /\ Started => /\ Indices # {}
                /\ Range(queue) = Selected(typed.tree, typed.pats)

CodeKnown == testPc = "joined" /\ code = 0 => \A r \in results : r.code = 0

TestInv ==
  /\ TestTypeOK /\ Numbered /\ Reached /\ OneEach /\ ThreadsOut /\ Selection /\ CodeKnown

-----------------------------------------------------------------------------
(* Facts about the selection and the threads.                               *)

\* files.sort() loses and adds nothing.
LEMMA InOrderLists ==
  ASSUME NEW D, IsFiniteSet(D)
  PROVE  /\ InOrder(D) \in [1 .. Cardinality(D) -> D]
         /\ Range(InOrder(D)) = D
<1> DEFINE IsOrder(q) == \A f \in D : \E i \in 1 .. Cardinality(D) : q[i] = f
<1>1. PICK q \in Bijection(1 .. Cardinality(D), D) : TRUE
  BY FS_CardinalityType DEF ExistsBijection
<1>2. q \in [1 .. Cardinality(D) -> D] /\ IsOrder(q)
  BY <1>1 DEF Bijection, Surjection
<1>3. InOrder(D) \in [1 .. Cardinality(D) -> D] /\ IsOrder(InOrder(D))
  BY <1>2 DEF InOrder
<1> QED
  BY <1>3 DEF Range

\* In the root a file that is named is selected.
LEMMA NamedSelected ==
  ASSUME NEW t, t.tree.cwd = t.tree.root
  PROVE  Named(t.tree, t.pats) \subseteq Selected(t.tree, t.pats)
<1>1. Named(t.tree, t.pats) = Explicit(t.tree, t.pats)
  BY DEF Named, Explicit
<1>2. CASE t.pats = {}
  BY <1>2 DEF Named
<1>3. CASE t.pats # {}
  BY <1>1, <1>3 DEF Selected
<1> QED
  BY <1>2, <1>3

\* A run over some files has a thread.
LEMMA ThreadsStart ==
  ASSUME TestAssumption, NEW n \in Nat \ {0}, StartThreads(n)
  PROVE  /\ at' \in [Workers -> {"out", "free"}]
         /\ \E w \in Workers : at'[w] = "free"
<1>1. PICK ws \in SUBSET Workers :
        /\ Cardinality(ws) = IF n < Cardinality(Workers) THEN n ELSE Cardinality(Workers)
        /\ at' = [w \in Workers |-> IF w \in ws THEN "free" ELSE "out"]
  BY DEF StartThreads
<1>2. Cardinality(ws) # 0
  BY <1>1, FS_EmptySet DEF TestAssumption
<1>3. ws # {}
  BY <1>2, FS_EmptySet
<1> QED
  BY <1>1, <1>3

\* How many files there are.
LEMMA FilesCounted ==
  ASSUME Numbered, Indices # {}
  PROVE  Cardinality(Indices) \in Nat \ {0}
<1>1. IsFiniteSet(Indices)
  BY FS_Interval DEF Numbered
<1> QED
  BY <1>1, FS_CardinalityType, FS_EmptySet

-----------------------------------------------------------------------------
\* The command starts without files and threads.
\* The invariant holds before a run,
LEMMA TestInitHolds == TestInit => TestInv
<1> SUFFICES ASSUME TestInit PROVE TestInv
  OBVIOUS
<1>1. Indices = {}
  BY DEF TestInit, Indices
<1>2. TestTypeOK /\ Reached /\ OneEach
  <2>1. \A w \in Workers : at[w] = "out" /\ doing[w] = 0
    BY DEF TestInit
  <2>2. doing \in [Workers -> Indices \cup {0}]
    BY DEF TestInit
  <2>3. at \in [Workers -> {"out", "free", "took", "asked", "lost"}]
    BY DEF TestInit
  <2>4. TestTypeOK
    <3>1. \A w \in Workers : doing[w] # 0 <=> at[w] \in {"took", "asked", "lost"}
      BY <2>1
    <3>2. up \in BOOLEAN
      BY DEF TestInit
    <3>3. testPc = "typed" /\ nextFile = 1 /\ results = {} /\ code = 0
      BY DEF TestInit
    <3> QED
      BY <2>2, <2>3, <3>1, <3>2, <3>3 DEF TestTypeOK
  <2> QED
    BY <1>1, <2>1, <2>4 DEF TestInit, Reached, OneEach
<1>3. Numbered
  BY <1>1, 1 .. 0 = {} DEF Numbered
<1>4. ThreadsOut /\ Selection /\ CodeKnown
  BY DEF TestInit, ThreadsOut, Running, Selection, Started, CodeKnown
<1> QED
  BY <1>2, <1>3, <1>4 DEF TestInv

\* The first run: the files are numbered, none is reached.
LEMMA BeginHolds == TestAssumption /\ TestInv /\ Begin => TestInv'
<1> SUFFICES ASSUME TestAssumption, TestInv, Begin PROVE TestInv'
  OBVIOUS
<1> DEFINE files == Selected(typed.tree, typed.pats)
<1>1. files # {} /\ IsFiniteSet(files) /\ Cardinality(files) \in Nat \ {0}
  BY FS_CardinalityType, FS_EmptySet DEF Begin, TestAssumption, TestInv, Selection
<1>2. queue' = InOrder(files)
  BY DEF Begin
<1>3. Indices' = 1 .. Cardinality(files) /\ Range(queue') = files
  BY <1>1, <1>2, InOrderLists DEF Indices
<1>4. StartThreads(Cardinality(files))
  BY DEF Begin
<1>5. at' \in [Workers -> {"out", "free"}] /\ \E w \in Workers : at'[w] = "free"
  BY <1>1, <1>4, ThreadsStart
<1>6. nextFile' = 1 /\ results' = {} /\ doing' = doing
  BY <1>4 DEF StartThreads
<1>7. testPc' = "running" /\ typed' = typed /\ code' = code /\ up' = TRUE
  BY DEF Begin
<1>8. \A w \in Workers : at[w] = "out" /\ doing[w] = 0
  BY DEF TestInv, ThreadsOut, Running, TestTypeOK, Begin
<1>9. TestTypeOK'
  <2>1. doing' \in [Workers -> Indices' \cup {0}]
    BY <1>6, <1>8 DEF TestInv, TestTypeOK
  <2> QED
    BY <1>5, <1>6, <1>7, <1>8, <2>1 DEF TestInv, TestTypeOK
<1>10. Numbered'
  BY <1>1, <1>3 DEF Numbered
<1>11. Reached' /\ OneEach'
  BY <1>3, <1>6, <1>8 DEF Reached, OneEach
<1>12. ThreadsOut' /\ CodeKnown'
  BY <1>5, <1>7 DEF ThreadsOut, Running, CodeKnown
<1>13. Selection'
  BY <1>1, <1>3, <1>7 DEF TestInv, Selection, Started
<1> QED
  BY <1>9, <1>10, <1>11, <1>12, <1>13 DEF TestInv

\* A later run: the same files, none reached.
LEMMA PollHolds == TestAssumption /\ TestInv /\ Poll => TestInv'
<1> SUFFICES ASSUME TestAssumption, TestInv, Poll PROVE TestInv'
  OBVIOUS
<1>1. Indices # {} /\ Cardinality(Indices) \in Nat \ {0}
  BY FilesCounted DEF TestInv, Selection, Started, Poll
<1>2. StartThreads(Cardinality(Indices))
  BY DEF Poll
<1>3. at' \in [Workers -> {"out", "free"}] /\ \E w \in Workers : at'[w] = "free"
  BY <1>1, <1>2, ThreadsStart
<1>4. nextFile' = 1 /\ results' = {} /\ doing' = doing
  BY <1>2 DEF StartThreads
<1>5. testPc' = "rerunning" /\ UNCHANGED <<typed, queue, code, up>>
  BY DEF Poll
<1>6. Indices' = Indices
  BY <1>5 DEF Indices
<1>7. \A w \in Workers : at[w] = "out" /\ doing[w] = 0
  BY DEF TestInv, ThreadsOut, Running, TestTypeOK, Poll
<1>8. TestTypeOK'
  BY <1>3, <1>4, <1>5, <1>6, <1>7 DEF TestInv, TestTypeOK
<1>9. Numbered' /\ Reached' /\ OneEach'
  BY <1>4, <1>6, <1>7 DEF TestInv, Numbered, Reached, OneEach
<1>10. ThreadsOut' /\ Selection' /\ CodeKnown'
  BY <1>1, <1>3, <1>5, <1>6 DEF TestInv, ThreadsOut, Running, Selection, Started, CodeKnown, Poll
<1> QED
  BY <1>8, <1>9, <1>10 DEF TestInv

\* fetch_add gives a file to one thread, or ends it past the last.
LEMMA TakeHolds == ASSUME TestInv, NEW w \in Workers, Take(w) PROVE TestInv'
<1>1. UNCHANGED <<testPc, typed, queue, results, code, up>> /\ nextFile' = nextFile + 1
  BY DEF Take
<1>2. Indices' = Indices
  BY <1>1 DEF Indices
<1>3. Running /\ doing[w] = 0 /\ at[w] = "free"
  BY DEF Take, TestInv, ThreadsOut, TestTypeOK
<1>4. Numbered' /\ Selection' /\ CodeKnown'
  BY <1>1, <1>2 DEF TestInv, Numbered, Selection, Started, CodeKnown
<1>5. CASE nextFile \in Indices
  <2>1. at' = [at EXCEPT ![w] = "took"] /\ doing' = [doing EXCEPT ![w] = nextFile]
    BY <1>5 DEF Take
  <2>2. TestTypeOK'
    BY <1>1, <1>2, <1>3, <1>5, <2>1 DEF TestInv, TestTypeOK
  <2>3. Reached'
    <3>1. \A r \in results' : r.file < nextFile'
      BY <1>1 DEF TestInv, TestTypeOK, Reached, Numbered
    <3>2. \A v \in Workers : doing'[v] < nextFile'
      BY <1>1, <2>1 DEF TestInv, TestTypeOK, Reached, Numbered
    <3>3. ASSUME NEW f \in Indices, f < nextFile + 1, f # nextFile
          PROVE  (\E r \in results : r.file = f) \/ (\E v \in Workers : doing'[v] = f)
      <4>1. f < nextFile /\ f # 0
        BY <3>3 DEF TestInv, TestTypeOK, Numbered
      <4>2. CASE \E r \in results : r.file = f
        BY <4>2
      <4>3. CASE \E v \in Workers : doing[v] = f
        BY <4>1, <4>3, <1>3, <2>1 DEF TestInv, TestTypeOK
      <4> QED
        BY <4>1, <4>2, <4>3 DEF TestInv, Reached
    <3>4. doing'[w] = nextFile
      BY <2>1 DEF TestInv, TestTypeOK
    <3> QED
      BY <1>1, <1>2, <3>1, <3>2, <3>3, <3>4 DEF Reached
  <2>4. OneEach'
    <3>1. \A v \in Workers : v # w => doing'[v] = doing[v] /\ doing[v] # nextFile
      BY <2>1 DEF TestInv, TestTypeOK, Reached
    <3>2. \A r \in results : r.file # nextFile
      BY DEF TestInv, TestTypeOK, Reached
    <3>3. doing'[w] = nextFile
      BY <2>1 DEF TestInv, TestTypeOK
    <3> QED
      BY <1>1, <3>1, <3>2, <3>3 DEF TestInv, OneEach
  <2>5. ThreadsOut'
    BY <1>1, <1>2, <1>3, <2>1 DEF TestInv, TestTypeOK, ThreadsOut, Running
  <2> QED
    BY <1>4, <2>2, <2>3, <2>4, <2>5 DEF TestInv
<1>6. CASE nextFile \notin Indices
  <2>1. at' = [at EXCEPT ![w] = "out"] /\ doing' = doing
    BY <1>6 DEF Take
  <2>2. TestTypeOK'
    BY <1>1, <1>2, <1>3, <2>1 DEF TestInv, TestTypeOK
  <2>3. \A f \in Indices : f < nextFile + 1 => f < nextFile
    BY <1>6 DEF TestInv, TestTypeOK, Numbered
  <2>4. Reached' /\ OneEach'
    <3>1. \A r \in results : r.file < nextFile + 1
      BY DEF TestInv, TestTypeOK, Reached, Numbered
    <3>2. \A v \in Workers : doing[v] < nextFile + 1
      BY DEF TestInv, TestTypeOK, Reached, Numbered
    <3> QED
      BY <1>1, <1>2, <2>1, <2>3, <3>1, <3>2 DEF TestInv, Reached, OneEach
  <2>5. nextFile + 1 \notin Indices
    BY <1>6 DEF TestInv, TestTypeOK, Numbered
  <2>6. ThreadsOut'
    BY <1>1, <1>2, <1>3, <2>1, <2>5 DEF TestInv, TestTypeOK, ThreadsOut, Running
  <2> QED
    BY <1>4, <2>2, <2>4, <2>6 DEF TestInv
<1> QED
  BY <1>5, <1>6

\* A result is pushed by the one thread that holds the file.
LEMMA PushHolds ==
  ASSUME TestInv, NEW w \in Workers, NEW c \in 0 .. 2, at[w] \in {"took", "asked", "lost"},
         Push(w, c)
  PROVE  TestInv'
<1> DEFINE new == [file |-> doing[w], by |-> w, code |-> c]
<1>1. UNCHANGED <<testPc, typed, queue, nextFile, code, up>>
  BY DEF Push
<1>2. Indices' = Indices
  BY <1>1 DEF Indices
<1>3. results' = results \cup {new}
  BY DEF Push
<1>4. at' = [at EXCEPT ![w] = "free"] /\ doing' = [doing EXCEPT ![w] = 0]
  BY DEF Push
<1>5. doing[w] \in Indices /\ doing[w] # 0 /\ Running
  BY DEF TestInv, TestTypeOK, ThreadsOut
<1>6. TestTypeOK'
  BY <1>1, <1>2, <1>3, <1>4, <1>5 DEF TestInv, TestTypeOK
<1>7. Reached'
  <2>1. \A r \in results' : r.file < nextFile'
    BY <1>1, <1>3 DEF TestInv, Reached
  <2>2. \A v \in Workers : doing'[v] < nextFile'
    BY <1>1, <1>4 DEF TestInv, TestTypeOK, Reached
  <2>3. ASSUME NEW f \in Indices, f < nextFile
        PROVE  (\E r \in results' : r.file = f) \/ (\E v \in Workers : doing'[v] = f)
    <3>1. CASE f = doing[w]
      <4>1. new \in results' /\ new.file = f
        BY <1>3, <3>1
      <4> QED
        BY <4>1
    <3>2. CASE f # doing[w]
      BY <1>3, <1>4, <2>3, <3>2 DEF TestInv, TestTypeOK, Reached
    <3> QED
      BY <3>1, <3>2
  <2> QED
    BY <1>1, <1>2, <2>1, <2>2, <2>3 DEF Reached
<1>8. OneEach'
  <2>1. \A v \in Workers : doing'[v] = (IF v = w THEN 0 ELSE doing[v])
    BY <1>4 DEF TestInv, TestTypeOK
  <2>2. \A v, u \in Workers : doing'[v] = doing'[u] /\ doing'[v] # 0 => v = u
    BY <2>1 DEF TestInv, OneEach
  <2>3. \A r, q \in results' : r.file = q.file => r = q
    BY <1>3 DEF TestInv, OneEach
  <2>4. \A r \in results', v \in Workers : r.file # doing'[v]
    <3>1. \A r \in results' : r.file # 0
      BY <1>3, <1>5 DEF TestInv, TestTypeOK, Numbered
    <3>2. \A v \in Workers : v # w => doing[v] # doing[w]
      BY <1>5 DEF TestInv, OneEach
    <3> QED
      BY <1>3, <2>1, <3>1, <3>2 DEF TestInv, OneEach
  <2> QED
    BY <2>2, <2>3, <2>4 DEF OneEach
<1>9. ThreadsOut'
  BY <1>1, <1>2, <1>4, <1>5 DEF TestInv, TestTypeOK, ThreadsOut, Running
<1>10. Numbered' /\ Selection' /\ CodeKnown'
  BY <1>1, <1>2, <1>5 DEF TestInv, Numbered, Selection, Started, CodeKnown, Running
<1> QED
  BY <1>6, <1>7, <1>8, <1>9, <1>10 DEF TestInv

\* Steps that only move a thread between holding states.
LEMMA TestMoveHolds ==
  ASSUME TestInv, at' \in [Workers -> {"out", "free", "took", "asked", "lost"}],
         \A w \in Workers : \/ at'[w] = at[w]
                            \/ {at[w], at'[w]} \subseteq {"took", "asked", "lost"},
         up' \in BOOLEAN,
         UNCHANGED <<testPc, typed, queue, nextFile, doing, results, code>>
  PROVE  TestInv'
<1>1. Indices' = Indices
  BY DEF Indices
<1>2. TestTypeOK'
  <2>1. \A w \in Workers : doing[w] # 0 <=> at'[w] \in {"took", "asked", "lost"}
    BY DEF TestInv, TestTypeOK
  <2> QED
    BY <1>1, <2>1 DEF TestInv, TestTypeOK
<1>3. Numbered' /\ Reached' /\ OneEach'
  BY <1>1 DEF TestInv, Numbered, Reached, OneEach
<1>4. ThreadsOut'
  BY <1>1 DEF TestInv, ThreadsOut, Running
<1>5. Selection' /\ CodeKnown'
  BY <1>1 DEF TestInv, Selection, Started, CodeKnown
<1> QED
  BY <1>2, <1>3, <1>4, <1>5 DEF TestInv

\* Every step of the command, the daemon and the user keeps the invariant.
LEMMA TestStepHolds == TestAssumption /\ TestInv /\ [TestNext]_testVars => TestInv'
<1> SUFFICES ASSUME TestAssumption, TestInv, [TestNext]_testVars PROVE TestInv'
  OBVIOUS
<1> USE DEF threads, disk
<1>1. CASE Refuse
  <2>1. Indices' = Indices /\ ~Started'
    BY <1>1 DEF Refuse, Indices, Started
  <2>2. TestTypeOK' /\ Numbered' /\ Reached' /\ OneEach'
    BY <1>1, <2>1 DEF TestInv, TestTypeOK, Numbered, Reached, OneEach, Refuse
  <2>3. ThreadsOut' /\ Selection' /\ CodeKnown'
    BY <1>1, <2>1 DEF TestInv, ThreadsOut, Running, Selection, Started, CodeKnown, Refuse
  <2> QED
    BY <2>2, <2>3 DEF TestInv
<1>2. CASE Begin
  BY <1>2, BeginHolds
<1>3. CASE Join
  <2>1. Indices' = Indices
    BY <1>3 DEF Join, Indices
  <2>2. TestTypeOK' /\ Numbered' /\ Reached' /\ OneEach'
    BY <1>3, <2>1 DEF TestInv, TestTypeOK, Numbered, Reached, OneEach, Join
  <2>3. ThreadsOut'
    BY <1>3, <2>1 DEF TestInv, ThreadsOut, Running, Join, Joined
  <2>4. Selection' /\ CodeKnown'
    BY <1>3, <2>1 DEF TestInv, Selection, Started, CodeKnown, Join
  <2> QED
    BY <2>2, <2>3, <2>4 DEF TestInv
<1>4. CASE Finish \/ Watch
  <2>1. Indices' = Indices
    BY <1>4 DEF Finish, Watch, Indices
  <2>2. TestTypeOK' /\ Numbered' /\ Reached' /\ OneEach'
    BY <1>4, <2>1 DEF TestInv, TestTypeOK, Numbered, Reached, OneEach, Finish, Watch
  <2>3. ThreadsOut' /\ Selection' /\ CodeKnown'
    BY <1>4, <2>1 DEF TestInv, ThreadsOut, Running, Selection, Started, CodeKnown, Finish, Watch
  <2> QED
    BY <2>2, <2>3 DEF TestInv
<1>5. CASE Poll
  BY <1>5, PollHolds
<1>6. CASE JoinAgain
  <2>1. Indices' = Indices
    BY <1>6 DEF JoinAgain, Indices
  <2>2. TestTypeOK' /\ Numbered' /\ Reached' /\ OneEach'
    BY <1>6, <2>1 DEF TestInv, TestTypeOK, Numbered, Reached, OneEach, JoinAgain
  <2>3. ThreadsOut'
    BY <1>6, <2>1 DEF TestInv, ThreadsOut, Running, JoinAgain, Joined
  <2>4. Selection' /\ CodeKnown'
    BY <1>6, <2>1 DEF TestInv, Selection, Started, CodeKnown, JoinAgain
  <2> QED
    BY <2>2, <2>3, <2>4 DEF TestInv
<1>7. ASSUME NEW w \in Workers, Worker(w) PROVE TestInv'
  <2>1. CASE Take(w)
    BY <2>1, TakeHolds
  <2>2. CASE ConnectFails(w)
    BY <2>2, PushHolds DEF ConnectFails
  <2>3. CASE Ask(w)
    BY <2>3, TestMoveHolds DEF Ask, TestInv, TestTypeOK
  <2>4. CASE Answer(w)
    <3>1. PICK c \in {0, 1} : Push(w, c)
      BY <2>4 DEF Answer
    <3> QED
      BY <2>4, <3>1, PushHolds DEF Answer
  <2>5. CASE Lost(w)
    BY <2>5, PushHolds DEF Lost
  <2> QED
    BY <1>7, <2>1, <2>2, <2>3, <2>4, <2>5 DEF Worker
<1>8. CASE DaemonGoes
  BY <1>8, TestMoveHolds DEF DaemonGoes, TestInv, TestTypeOK
<1>9. CASE DaemonComes
  BY <1>9, TestMoveHolds DEF DaemonComes, TestInv, TestTypeOK
<1>10. ASSUME NEW f \in Indices, Edit(f) PROVE TestInv'
  BY <1>10, TestMoveHolds DEF Edit, TestInv, TestTypeOK
<1>11. CASE UNCHANGED testVars
  BY <1>11, TestMoveHolds DEF testVars, TestInv, TestTypeOK
<1> QED
  BY <1>1, <1>2, <1>3, <1>4, <1>5, <1>6, <1>7, <1>8, <1>9, <1>10, <1>11 DEF TestNext

\* A joined run has counted every file.
LEMMA JoinedIsCounted == TestInv => EveryFileCounted
<1> SUFFICES ASSUME TestInv PROVE EveryFileCounted
  OBVIOUS
<1>1. ASSUME testPc \in {"joined", "watching"}, NEW f \in Indices PROVE ResultOnce(f)
  <2>1. f < nextFile
    <3>1. PICK n \in Nat : Indices = 1 .. n
      BY DEF TestInv, Numbered
    <3> QED
      BY <1>1, <3>1 DEF TestInv, ThreadsOut, TestTypeOK
  <2>2. \A w \in Workers : doing[w] = 0
    BY <1>1 DEF TestInv, ThreadsOut, Running, TestTypeOK
  <2>3. f # 0
    BY DEF TestInv, Numbered
  <2>4. PICK r \in results : r.file = f
    BY <2>1, <2>2, <2>3 DEF TestInv, Reached
  <2> QED
    BY <2>4 DEF ResultOnce, TestInv, OneEach
<1>2. ASSUME testPc \in {"joined", "watching"}, typed.tree.cwd = typed.tree.root
      PROVE  Named(typed.tree, typed.pats) \subseteq Range(queue)
  BY <1>2, NamedSelected DEF TestInv, Selection, Started
<1> QED
  BY <1>1, <1>2 DEF EveryFileCounted, TestInv, CodeKnown

\* The states of the threads and the results fit the files of the run.
THEOREM RunnerTypeCorrect == TestSpec => []TestTypeOK
<1>1. TestInit => TestInv
  BY TestInitHolds
<1>2. TestInv /\ [TestNext]_testVars => TestInv'
  BY TestStepHolds, TestAssumption
<1>3. TestInv => TestTypeOK
  BY DEF TestInv
<1> QED
  BY <1>1, <1>2, <1>3, PTL DEF TestSpec

\* Every selected file has exactly one result when the threads are joined, for
\* any number of threads and whatever becomes of the daemon (test.rs 215-262).
THEOREM FilesAreCounted == TestSpec => []EveryFileCounted
<1>1. TestInit => TestInv
  BY TestInitHolds
<1>2. TestInv /\ [TestNext]_testVars => TestInv'
  BY TestStepHolds, TestAssumption
<1>3. TestInv => EveryFileCounted
  BY JoinedIsCounted
<1> QED
  BY <1>1, <1>2, <1>3, PTL DEF TestSpec

-----------------------------------------------------------------------------
(* The forks of the daemon.                                                 *)

\* The FILEs that stdio_fork_prepare has taken, and the handlers around it.
FilesPrepared ==
  /\ stdioSafe => \A f \in Files : f < next => held[f] = Main
  /\ forkPc \in {"boot", "loop", "joining"} => next = 1
  /\ ~stdioSafe => next = 1
  /\ forkPc = "release" /\ stdioSafe => next > NFiles

\* The scheduler's lock is the timer's; a stopped timer holds nothing.
TimerKnown ==
  /\ forkPc = "boot" => timer = "ticking"
  /\ held[Sched] \in {Free, Timer}
  /\ timerSafe /\ forkPc \in {"prepare", "release"} => timer = "stopped"
  /\ timerSafe /\ timer = "stopped" => \A l \in Locks : held[l] # Timer

\* What a child was born with.
KidKnown ==
  /\ forkPc = "boot" => kidPc = "none"
  /\ kidPc = "forked" /\ stdioSafe => \A f \in Files : kid[f] = Main
  /\ kidPc # "none" /\ timerSafe => kid[Sched] = Free

ForkInv == ForkTypeOK /\ FilesPrepared /\ TimerKnown /\ KidKnown /\ ChildNeverStuck

-----------------------------------------------------------------------------
\* At boot no lock is taken and there is no child.
\* The invariant holds before the first fork,
LEMMA ForkInitHolds == ForkAssumption /\ ForkInit => ForkInv
<1> SUFFICES ASSUME ForkAssumption, ForkInit PROVE ForkInv
  OBVIOUS
<1> USE DEF ForkAssumption, ForkInit, AllFree, Locks, Files, Threads
<1>1. ForkTypeOK
  <2>1. AllFree \in [Locks -> Threads \cup {Free}]
    BY DEF AllFree
  <2>2. 1 \in 1 .. NFiles + 1
    OBVIOUS
  <2> QED
    BY <2>1, <2>2 DEF ForkTypeOK
<1>2. FilesPrepared
  BY DEF FilesPrepared
<1>3. TimerKnown
  BY DEF TimerKnown
<1>4. KidKnown /\ ChildNeverStuck
  BY DEF KidKnown, ChildNeverStuck
<1> QED
  BY <1>1, <1>2, <1>3, <1>4 DEF ForkInv

\* Every step of the loop, of the child and of the other threads keeps it.
LEMMA ForkStepHolds == ForkAssumption /\ ForkInv /\ [ForkNext]_forkVars => ForkInv'
<1> SUFFICES ASSUME ForkAssumption, ForkInv, [ForkNext]_forkVars PROVE ForkInv'
  OBVIOUS
<1> USE DEF ForkAssumption, Locks, Files, Threads
<1>1. CASE FindSymbols
  <2>1. ForkTypeOK'
    BY <1>1 DEF ForkInv, ForkTypeOK, FindSymbols
  <2>2. FilesPrepared'
    BY <1>1 DEF ForkInv, ForkTypeOK, FilesPrepared, FindSymbols
  <2>3. TimerKnown'
    BY <1>1 DEF ForkInv, ForkTypeOK, TimerKnown, FindSymbols
  <2>4. KidKnown'
    BY <1>1 DEF ForkInv, ForkTypeOK, FilesPrepared, TimerKnown, KidKnown, FindSymbols
  <2>5. ChildNeverStuck'
    BY <1>1 DEF ForkInv, ForkTypeOK, KidKnown, ChildNeverStuck, FindSymbols
  <2> QED
    BY <2>1, <2>2, <2>3, <2>4, <2>5 DEF ForkInv
<1>2. CASE StopTimer
  <2>1. ForkTypeOK'
    BY <1>2 DEF ForkInv, ForkTypeOK, StopTimer
  <2>2. FilesPrepared'
    BY <1>2 DEF ForkInv, ForkTypeOK, FilesPrepared, StopTimer
  <2>3. TimerKnown'
    BY <1>2 DEF ForkInv, ForkTypeOK, TimerKnown, StopTimer
  <2>4. KidKnown'
    BY <1>2 DEF ForkInv, ForkTypeOK, FilesPrepared, TimerKnown, KidKnown, StopTimer
  <2>5. ChildNeverStuck'
    BY <1>2 DEF ForkInv, ForkTypeOK, KidKnown, ChildNeverStuck, StopTimer
  <2> QED
    BY <2>1, <2>2, <2>3, <2>4, <2>5 DEF ForkInv
<1>3. CASE TimerJoined
  <2>1. ForkTypeOK'
    BY <1>3 DEF ForkInv, ForkTypeOK, TimerJoined
  <2>2. FilesPrepared'
    BY <1>3 DEF ForkInv, ForkTypeOK, FilesPrepared, TimerJoined
  <2>3. TimerKnown'
    BY <1>3 DEF ForkInv, ForkTypeOK, TimerKnown, TimerJoined
  <2>4. KidKnown'
    BY <1>3 DEF ForkInv, ForkTypeOK, FilesPrepared, TimerKnown, KidKnown, TimerJoined
  <2>5. ChildNeverStuck'
    BY <1>3 DEF ForkInv, ForkTypeOK, KidKnown, ChildNeverStuck, TimerJoined
  <2> QED
    BY <2>1, <2>2, <2>3, <2>4, <2>5 DEF ForkInv
<1>4. CASE Prepare
  <2>1. ForkTypeOK'
    BY <1>4 DEF ForkInv, ForkTypeOK, Prepare
  <2>2. FilesPrepared'
    BY <1>4 DEF ForkInv, ForkTypeOK, FilesPrepared, Prepare
  <2>3. TimerKnown'
    BY <1>4 DEF ForkInv, ForkTypeOK, TimerKnown, Prepare
  <2>4. KidKnown'
    BY <1>4 DEF ForkInv, ForkTypeOK, FilesPrepared, TimerKnown, KidKnown, Prepare
  <2>5. ChildNeverStuck'
    BY <1>4 DEF ForkInv, ForkTypeOK, KidKnown, ChildNeverStuck, Prepare
  <2> QED
    BY <2>1, <2>2, <2>3, <2>4, <2>5 DEF ForkInv
<1>5. CASE Fork
  <2>1. ForkTypeOK'
    BY <1>5 DEF ForkInv, ForkTypeOK, Fork, Prepared
  <2>2. FilesPrepared'
    BY <1>5 DEF ForkInv, ForkTypeOK, FilesPrepared, Fork, Prepared
  <2>3. TimerKnown'
    BY <1>5 DEF ForkInv, ForkTypeOK, TimerKnown, Fork, Prepared
  <2>4. KidKnown'
    <3>1. stdioSafe => \A f \in Files : held[f] = Main
      BY <1>5 DEF ForkInv, ForkTypeOK, FilesPrepared, Fork, Prepared
    <3>2. timerSafe => held[Sched] = Free
      BY <1>5 DEF ForkInv, TimerKnown, Fork, Prepared
    <3> QED
      BY <1>5, <3>1, <3>2 DEF KidKnown, Fork, Prepared
  <2>5. ChildNeverStuck'
    BY <1>5 DEF ForkInv, ForkTypeOK, KidKnown, ChildNeverStuck, Fork, Prepared
  <2> QED
    BY <2>1, <2>2, <2>3, <2>4, <2>5 DEF ForkInv
<1>6. CASE ForkFails
  <2>1. ForkTypeOK'
    BY <1>6 DEF ForkInv, ForkTypeOK, ForkFails, Prepared
  <2>2. FilesPrepared'
    BY <1>6 DEF ForkInv, ForkTypeOK, FilesPrepared, ForkFails, Prepared
  <2>3. TimerKnown'
    BY <1>6 DEF ForkInv, ForkTypeOK, TimerKnown, ForkFails, Prepared
  <2>4. KidKnown'
    BY <1>6 DEF ForkInv, ForkTypeOK, FilesPrepared, TimerKnown, KidKnown, ForkFails, Prepared
  <2>5. ChildNeverStuck'
    BY <1>6 DEF ForkInv, ForkTypeOK, KidKnown, ChildNeverStuck, ForkFails, Prepared
  <2> QED
    BY <2>1, <2>2, <2>3, <2>4, <2>5 DEF ForkInv
<1>7. CASE ParentReleases
  <2>1. ForkTypeOK'
    BY <1>7 DEF ForkInv, ForkTypeOK, ParentReleases, FilesFreed
  <2>2. FilesPrepared'
    BY <1>7 DEF ForkInv, ForkTypeOK, FilesPrepared, ParentReleases, FilesFreed
  <2>3. TimerKnown'
    BY <1>7 DEF ForkInv, ForkTypeOK, TimerKnown, ParentReleases, FilesFreed
  <2>4. KidKnown'
    BY <1>7 DEF ForkInv, ForkTypeOK, FilesPrepared, TimerKnown, KidKnown, ParentReleases, FilesFreed
  <2>5. ChildNeverStuck'
    BY <1>7 DEF ForkInv, ForkTypeOK, KidKnown, ChildNeverStuck, ParentReleases, FilesFreed
  <2> QED
    BY <2>1, <2>2, <2>3, <2>4, <2>5 DEF ForkInv
<1>8. CASE ChildReleases
  <2>1. ForkTypeOK'
    BY <1>8 DEF ForkInv, ForkTypeOK, ChildReleases, FilesFreed
  <2>2. FilesPrepared'
    BY <1>8 DEF ForkInv, ForkTypeOK, FilesPrepared, ChildReleases, FilesFreed
  <2>3. TimerKnown'
    BY <1>8 DEF ForkInv, ForkTypeOK, TimerKnown, ChildReleases, FilesFreed
  <2>4. KidKnown'
    BY <1>8 DEF ForkInv, ForkTypeOK, FilesPrepared, TimerKnown, KidKnown, ChildReleases, FilesFreed
  <2>5. ChildNeverStuck'
    BY <1>8 DEF ForkInv, ForkTypeOK, KidKnown, ChildNeverStuck, ChildReleases, FilesFreed
  <2> QED
    BY <2>1, <2>2, <2>3, <2>4, <2>5 DEF ForkInv
<1>9. CASE ChildEnds
  <2>1. ForkTypeOK'
    BY <1>9 DEF ForkInv, ForkTypeOK, ChildEnds
  <2>2. FilesPrepared'
    BY <1>9 DEF ForkInv, ForkTypeOK, FilesPrepared, ChildEnds
  <2>3. TimerKnown'
    BY <1>9 DEF ForkInv, ForkTypeOK, TimerKnown, ChildEnds
  <2>4. KidKnown'
    BY <1>9 DEF ForkInv, ForkTypeOK, FilesPrepared, TimerKnown, KidKnown, ChildEnds
  <2>5. ChildNeverStuck'
    BY <1>9 DEF ForkInv, ForkTypeOK, KidKnown, ChildNeverStuck, ChildEnds
  <2> QED
    BY <2>1, <2>2, <2>3, <2>4, <2>5 DEF ForkInv
<1>10. CASE TimerTicks
  <2>1. ForkTypeOK'
    BY <1>10 DEF ForkInv, ForkTypeOK, TimerTicks
  <2>2. FilesPrepared'
    BY <1>10 DEF ForkInv, ForkTypeOK, FilesPrepared, TimerTicks
  <2>3. TimerKnown'
    BY <1>10 DEF ForkInv, ForkTypeOK, TimerKnown, TimerTicks
  <2>4. KidKnown'
    BY <1>10 DEF ForkInv, ForkTypeOK, FilesPrepared, TimerKnown, KidKnown, TimerTicks
  <2>5. ChildNeverStuck'
    BY <1>10 DEF ForkInv, ForkTypeOK, KidKnown, ChildNeverStuck, TimerTicks
  <2> QED
    BY <2>1, <2>2, <2>3, <2>4, <2>5 DEF ForkInv
<1>11. ASSUME NEW f \in Files, TimerTakesFile(f) PROVE ForkInv'
  <2>1. ForkTypeOK'
    BY <1>11 DEF ForkInv, ForkTypeOK, TimerTakesFile
  <2>2. FilesPrepared'
    BY <1>11 DEF ForkInv, ForkTypeOK, FilesPrepared, TimerTakesFile
  <2>3. TimerKnown'
    BY <1>11 DEF ForkInv, ForkTypeOK, TimerKnown, TimerTakesFile
  <2>4. KidKnown'
    BY <1>11 DEF ForkInv, ForkTypeOK, FilesPrepared, TimerKnown, KidKnown, TimerTakesFile
  <2>5. ChildNeverStuck'
    BY <1>11 DEF ForkInv, ForkTypeOK, KidKnown, ChildNeverStuck, TimerTakesFile
  <2> QED
    BY <2>1, <2>2, <2>3, <2>4, <2>5 DEF ForkInv
<1>12. ASSUME NEW l \in Locks, TimerLetsGo(l) PROVE ForkInv'
  <2>1. ForkTypeOK'
    BY <1>12 DEF ForkInv, ForkTypeOK, TimerLetsGo
  <2>2. FilesPrepared'
    BY <1>12 DEF ForkInv, ForkTypeOK, FilesPrepared, TimerLetsGo
  <2>3. TimerKnown'
    BY <1>12 DEF ForkInv, ForkTypeOK, TimerKnown, TimerLetsGo
  <2>4. KidKnown'
    BY <1>12 DEF ForkInv, ForkTypeOK, FilesPrepared, TimerKnown, KidKnown, TimerLetsGo
  <2>5. ChildNeverStuck'
    BY <1>12 DEF ForkInv, ForkTypeOK, KidKnown, ChildNeverStuck, TimerLetsGo
  <2> QED
    BY <2>1, <2>2, <2>3, <2>4, <2>5 DEF ForkInv
<1>13. ASSUME NEW o \in Others, NEW f \in Files, OtherTakesFile(o, f) PROVE ForkInv'
  <2>1. ForkTypeOK'
    BY <1>13 DEF ForkInv, ForkTypeOK, OtherTakesFile
  <2>2. FilesPrepared'
    BY <1>13 DEF ForkInv, ForkTypeOK, FilesPrepared, OtherTakesFile
  <2>3. TimerKnown'
    BY <1>13 DEF ForkInv, ForkTypeOK, TimerKnown, OtherTakesFile
  <2>4. KidKnown'
    BY <1>13 DEF ForkInv, ForkTypeOK, FilesPrepared, TimerKnown, KidKnown, OtherTakesFile
  <2>5. ChildNeverStuck'
    BY <1>13 DEF ForkInv, ForkTypeOK, KidKnown, ChildNeverStuck, OtherTakesFile
  <2> QED
    BY <2>1, <2>2, <2>3, <2>4, <2>5 DEF ForkInv
<1>14. ASSUME NEW o \in Others, NEW f \in Files, OtherLetsGo(o, f) PROVE ForkInv'
  <2>1. ForkTypeOK'
    BY <1>14 DEF ForkInv, ForkTypeOK, OtherLetsGo
  <2>2. FilesPrepared'
    BY <1>14 DEF ForkInv, ForkTypeOK, FilesPrepared, OtherLetsGo
  <2>3. TimerKnown'
    BY <1>14 DEF ForkInv, ForkTypeOK, TimerKnown, OtherLetsGo
  <2>4. KidKnown'
    BY <1>14 DEF ForkInv, ForkTypeOK, FilesPrepared, TimerKnown, KidKnown, OtherLetsGo
  <2>5. ChildNeverStuck'
    BY <1>14 DEF ForkInv, ForkTypeOK, KidKnown, ChildNeverStuck, OtherLetsGo
  <2> QED
    BY <2>1, <2>2, <2>3, <2>4, <2>5 DEF ForkInv
<1>15. CASE UNCHANGED forkVars
  <2>1. ForkTypeOK'
    BY <1>15 DEF ForkInv, ForkTypeOK, forkVars
  <2>2. FilesPrepared'
    BY <1>15 DEF ForkInv, ForkTypeOK, FilesPrepared, forkVars
  <2>3. TimerKnown'
    BY <1>15 DEF ForkInv, ForkTypeOK, TimerKnown, forkVars
  <2>4. KidKnown'
    BY <1>15 DEF ForkInv, ForkTypeOK, FilesPrepared, TimerKnown, KidKnown, forkVars
  <2>5. ChildNeverStuck'
    BY <1>15 DEF ForkInv, ForkTypeOK, KidKnown, ChildNeverStuck, forkVars
  <2> QED
    BY <2>1, <2>2, <2>3, <2>4, <2>5 DEF ForkInv
<1> QED
  BY <1>1, <1>2, <1>3, <1>4, <1>5, <1>6, <1>7, <1>8, <1>9, <1>10, <1>11, <1>12, <1>13, <1>14, <1>15
     DEF ForkNext

\* The locks are only ever held by threads of the daemon.
THEOREM ForkTypeCorrect == ForkSpec => []ForkTypeOK
<1>1. ForkInit => ForkInv
  BY ForkInitHolds, ForkAssumption
<1>2. ForkInv /\ [ForkNext]_forkVars => ForkInv'
  BY ForkStepHolds, ForkAssumption
<1>3. ForkInv => ForkTypeOK
  BY DEF ForkInv
<1> QED
  BY <1>1, <1>2, <1>3, PTL DEF ForkSpec

\* With the symbols found at boot, no forked child is ever stuck on a lock it
\* was born with (daemon.rs 80-104 and 553-565).
THEOREM ChildIsFree == ForkSpec => []ChildNeverStuck
<1>1. ForkInit => ForkInv
  BY ForkInitHolds, ForkAssumption
<1>2. ForkInv /\ [ForkNext]_forkVars => ForkInv'
  BY ForkStepHolds, ForkAssumption
<1>3. ForkInv => ChildNeverStuck
  BY DEF ForkInv
<1> QED
  BY <1>1, <1>2, <1>3, PTL DEF ForkSpec

-----------------------------------------------------------------------------
(* The trip of the flags of run.                                            *)

\* Split, one token after the other.
OneMore(segs, c, sep) ==
  IF c = sep THEN Append(segs, <<>>) ELSE [segs EXCEPT ![Len(segs)] = Append(@, c)]

\* Split is a fold.
LEMMA SplitIsFold ==
  ASSUME NEW D, NEW sep
  PROVE  IsFold(Seq(Seq(D)) \ {<<>>}, D, << <<>> >>,
                [c \in D |-> [segs \in Seq(Seq(D)) \ {<<>>} |-> OneMore(segs, c, sep)]],
                [text \in Seq(D) |-> Split(text, sep)])
<1> DEFINE X == Seq(Seq(D)) \ {<<>>}
           b == << <<>> >>
           op(segs, c) == OneMore(segs, c, sep)
           Op == [c \in D |-> [segs \in X |-> op(segs, c)]]
           fold == [text \in Seq(D) |-> Split(text, sep)]
<1>1. b \in X
    OBVIOUS
<1>2. ASSUME NEW segs \in X, NEW c \in D PROVE op(segs, c) \in X
  <2>1. segs \in Seq(Seq(D)) /\ Len(segs) \in 1 .. Len(segs) /\ segs[Len(segs)] \in Seq(D)
      OBVIOUS
  <2>2. Append(segs, <<>>) \in X
      BY <2>1
  <2>3. Append(segs[Len(segs)], c) \in Seq(D)
      BY <2>1
  <2>4. [segs EXCEPT ![Len(segs)] = Append(@, c)] \in X
      BY <2>1, <2>3
  <2> QED BY <2>2, <2>4 DEF OneMore
<1> HIDE DEF X, b, op
<1>3. Op \in [D -> [X -> X]] /\ \A c \in D, x \in X : Op[c][x] = op(x, c)
    BY <1>2
<1>4. ASSUME NEW s \in Seq(D)
      PROVE  Computed(X, b, Len(s), StepsOver(Op, s), Split(s, sep))
  <2> DEFINE Is(c) == c = [u \in SUBSET DOMAIN s |->
                             IF u = {} THEN b ELSE op(c[u \ {Max(u)}], s[Max(u)])]
             c == CHOOSE d : Is(d)
  <2> HIDE DEF Op
  <2>1. PICK d : FoldsOver(X, D, b, Op, s, d)
      BY <1>1, <1>3, FoldOver
  <2>2. Is(d)
      BY <1>3, <2>1 DEF FoldsOver
  <2>3. Is(c)
      BY <2>2
  <2>4. Split(s, sep) = c[DOMAIN s]
      BY DEF Split, FoldLeft, MapThenFoldSet, Max, op, OneMore, b
  <2> HIDE DEF c
  <2>5. c[{}] = b /\ \A u \in SUBSET DOMAIN s :
                       u # {} => c[u] = op(c[u \ {Max(u)}], s[Max(u)])
      BY <2>3
  <2>6. \A u \in SUBSET DOMAIN s :
           u # {} /\ s[Max(u)] \in D /\ c[u \ {Max(u)}] \in X
           => c[u] = Op[s[Max(u)]][c[u \ {Max(u)}]]
      BY <1>3, <2>5
  <2>7. Computed(X, b, Len(s), StepsOver(Op, s), c[DOMAIN s])
      BY <1>1, <1>3, <2>5, <2>6, FoldOverAll
  <2> QED BY <2>4, <2>7
<1> HIDE DEF Op
<1>5. IsFold(X, D, b, Op, fold)
  <2>1. fold = [s \in Seq(D) |-> fold[s]] /\ \A s \in Seq(D) : fold[s] = Split(s, sep)
      OBVIOUS
  <2> HIDE DEF fold
  <2> QED BY <1>1, <1>3, <1>4, <2>1, FoldByElement
<1> QED BY <1>5 DEF X, b, op, Op

\* Split is a sequence of at least one segment.
LEMMA SplitTyped ==
  ASSUME NEW D, NEW sep, NEW t \in Seq(D)
  PROVE  Split(t, sep) \in Seq(Seq(D)) \ {<<>>}
<1> DEFINE fold == [text \in Seq(D) |-> Split(text, sep)]
<1>1. fold \in [Seq(D) -> Seq(Seq(D)) \ {<<>>}]
    BY SplitIsFold DEF IsFold
<1> QED BY <1>1

\* A separator starts a new segment, another token is added to the last one.
LEMMA SplitAppend ==
  ASSUME NEW D, NEW sep, NEW t \in Seq(D), NEW c \in D
  PROVE  Split(Append(t, c), sep) = OneMore(Split(t, sep), c, sep)
<1> DEFINE X == Seq(Seq(D)) \ {<<>>}
           Op == [x \in D |-> [segs \in X |-> OneMore(segs, x, sep)]]
           fold == [text \in Seq(D) |-> Split(text, sep)]
<1>1. IsFold(X, D, << <<>> >>, Op, fold)
    BY SplitIsFold
<1>2. fold[Append(t, c)] = Op[c][fold[t]]
    BY <1>1 DEF IsFold
<1>3. fold[t] = Split(t, sep) /\ fold[Append(t, c)] = Split(Append(t, c), sep)
    BY ConcatOne
<1>4. Split(t, sep) \in X
    BY SplitTyped
<1> HIDE DEF X
<1>5. Op[c][Split(t, sep)] = OneMore(Split(t, sep), c, sep)
    BY <1>4
<1> HIDE DEF Op, fold
<1> QED BY <1>2, <1>3, <1>5

\* A text with nothing in it has one segment, with nothing in it.
LEMMA SplitEmpty ==
  ASSUME NEW sep
  PROVE  Split(<<>>, sep) = << <<>> >>
<1> DEFINE D == {}
           X == Seq(Seq(D)) \ {<<>>}
           Op == [x \in D |-> [segs \in X |-> OneMore(segs, x, sep)]]
           fold == [text \in Seq(D) |-> Split(text, sep)]
<1>1. IsFold(X, D, << <<>> >>, Op, fold)
    BY SplitIsFold
<1>2. fold[<<>>] = << <<>> >>
    BY <1>1 DEF IsFold
<1>3. <<>> \in Seq(D)
    OBVIOUS
<1> HIDE DEF D
<1>4. fold[<<>>] = Split(<<>>, sep)
    BY <1>3
<1> HIDE DEF fold
<1> QED BY <1>2, <1>4

\* t splits into the segments A and, behind the last separator, q.
SplitsInto(t, sep, A, q) == Split(t, sep) = Append(A, q)

\* A token that is not the separator makes the last segment longer.
LEMMA SplitGrows ==
  ASSUME NEW D, NEW sep, NEW t \in Seq(D), NEW c \in D \ {sep},
         NEW A \in Seq(Seq(D)), NEW q \in Seq(D), SplitsInto(t, sep, A, q)
  PROVE  SplitsInto(Append(t, c), sep, A, Append(q, c))
<1>1. Append(q, c) \in Seq(D)
    OBVIOUS
<1> DEFINE segs == Append(A, q)
           r == Append(q, c)
<1>2. Split(Append(t, c), sep) = OneMore(segs, c, sep)
    BY SplitAppend DEF SplitsInto
<1>3. segs[Len(segs)] = q /\ [segs EXCEPT ![Len(segs)] = r] = Append(A, r)
  <2> HIDE DEF segs, r
  <2>1. r \in Seq(D)
      BY <1>1 DEF r
  <2> QED BY <2>1, LastReplaced DEF segs
<1> HIDE DEF segs
<1> QED BY <1>1, <1>2, <1>3 DEF OneMore, SplitsInto

\* What follows a separator, up to the next one, is a segment.
LEMMA SplitClean ==
  ASSUME NEW D, NEW sep \in D, NEW t \in Seq(D), NEW p \in Seq(D \ {sep})
  PROVE  Split((t \o <<sep>>) \o p, sep) = Append(Split(t, sep), p)
<1> DEFINE segs == Split(t, sep)
           u == t \o <<sep>>
           R == {q \in Seq(D) : SplitsInto(u \o q, sep, segs, q)}
<1>1. segs \in Seq(Seq(D)) /\ u \in Seq(D) /\ u = Append(t, sep)
  <2>1. u = Append(t, sep) /\ Append(t, sep) \in Seq(D)
      BY ConcatOne
  <2> QED BY <2>1, SplitTyped
<1>2. <<>> \in R
  <2>1. u \o <<>> = u
      BY <1>1, ConcatEmpty
  <2>2. Split(Append(t, sep), sep) = Append(segs, <<>>)
      BY SplitAppend DEF OneMore
  <2>3. <<>> \in Seq(D) /\ Split(u \o <<>>, sep) = Append(segs, <<>>)
    <3> HIDE DEF u, segs
    <3> QED BY <1>1, <2>1, <2>2
  <2> QED BY <2>3 DEF SplitsInto
<1> HIDE DEF segs, u
<1>3. ASSUME NEW q \in Seq(D \ {sep}), NEW c \in D \ {sep}, q \in R PROVE Append(q, c) \in R
  <2>1. q \in Seq(D) /\ SplitsInto(u \o q, sep, segs, q)
      BY <1>3
  <2>2. u \o q \in Seq(D) /\ Append(q, c) \in Seq(D) /\ u \o Append(q, c) = Append(u \o q, c)
      BY <1>1, <2>1, ConcatAppend
  <2> HIDE DEF R
  <2>3. SplitsInto(Append(u \o q, c), sep, segs, Append(q, c))
      BY <1>1, <2>1, <2>2, SplitGrows
  <2> QED BY <2>2, <2>3 DEF R
<1> HIDE DEF R
<1>4. \A q \in Seq(D \ {sep}), c \in D \ {sep} : q \in R => Append(q, c) \in R
    BY <1>3
<1>5. p \in R
    BY <1>2, <1>4, AppendInduction
<1> QED BY <1>5 DEF R, u, segs, SplitsInto

\* A text without a separator is one segment.
LEMMA SplitWhole ==
  ASSUME NEW D, NEW sep, NEW p \in Seq(D \ {sep})
  PROVE  Split(p, sep) = <<p>>
<1> DEFINE none == <<>>
           R == {q \in Seq(D) : SplitsInto(q, sep, none, q)}
<1>1. <<>> \in R
    BY SplitEmpty DEF SplitsInto
<1>2. none \in Seq(Seq(D))
    OBVIOUS
<1> HIDE DEF none
<1>3. ASSUME NEW q \in Seq(D \ {sep}), NEW c \in D \ {sep}, q \in R PROVE Append(q, c) \in R
  <2>1. q \in Seq(D) /\ SplitsInto(q, sep, none, q) /\ Append(q, c) \in Seq(D)
      BY <1>3
  <2>2. SplitsInto(Append(q, c), sep, none, Append(q, c))
      BY <1>2, <2>1, SplitGrows
  <2> QED BY <2>1, <2>2
<1> HIDE DEF R
<1>4. \A q \in Seq(D \ {sep}), c \in D \ {sep} : q \in R => Append(q, c) \in R
    BY <1>3
<1>5. p \in R
    BY <1>1, <1>4, AppendInduction
<1> QED BY <1>5 DEF R, none, SplitsInto

\* The parts joined to a text that is not empty, one after the other.
JoinedTo(b, parts, sep) == FoldLeft(LAMBDA t, p : t \o <<sep>> \o p, b, parts)

\* So is the join of texts.
LEMMA JoinIsFold ==
  ASSUME NEW D, NEW sep \in D, NEW b \in Seq(D)
  PROVE  IsFold(Seq(D), Seq(D), b,
                [p \in Seq(D) |-> [t \in Seq(D) |-> t \o <<sep>> \o p]],
                [parts \in Seq(Seq(D)) |-> JoinedTo(b, parts, sep)])
<1> DEFINE X == Seq(D)
           op(t, p) == t \o <<sep>> \o p
           Op == [p \in X |-> [t \in X |-> op(t, p)]]
           fold == [parts \in Seq(X) |-> JoinedTo(b, parts, sep)]
<1>1. b \in X
    OBVIOUS
<1>2. ASSUME NEW t \in X, NEW p \in X PROVE op(t, p) \in X
    OBVIOUS
<1> HIDE DEF X, op
<1>3. Op \in [X -> [X -> X]] /\ \A p \in X, t \in X : Op[p][t] = op(t, p)
    BY <1>2
<1>4. ASSUME NEW s \in Seq(X)
      PROVE  Computed(X, b, Len(s), StepsOver(Op, s), JoinedTo(b, s, sep))
  <2> DEFINE Is(c) == c = [u \in SUBSET DOMAIN s |->
                             IF u = {} THEN b ELSE op(c[u \ {Max(u)}], s[Max(u)])]
             c == CHOOSE d : Is(d)
  <2> HIDE DEF Op
  <2>1. PICK d : FoldsOver(X, X, b, Op, s, d)
      BY <1>1, <1>3, FoldOver
  <2>2. Is(d)
      BY <1>3, <2>1 DEF FoldsOver
  <2>3. Is(c)
      BY <2>2
  <2>4. JoinedTo(b, s, sep) = c[DOMAIN s]
      BY DEF JoinedTo, FoldLeft, MapThenFoldSet, Max, op
  <2> HIDE DEF c
  <2>5. c[{}] = b /\ \A u \in SUBSET DOMAIN s :
                       u # {} => c[u] = op(c[u \ {Max(u)}], s[Max(u)])
      BY <2>3
  <2>6. \A u \in SUBSET DOMAIN s :
           u # {} /\ s[Max(u)] \in X /\ c[u \ {Max(u)}] \in X
           => c[u] = Op[s[Max(u)]][c[u \ {Max(u)}]]
      BY <1>3, <2>5
  <2>7. Computed(X, b, Len(s), StepsOver(Op, s), c[DOMAIN s])
      BY <1>1, <1>3, <2>5, <2>6, FoldOverAll
  <2> QED BY <2>4, <2>7
<1> HIDE DEF Op
<1>5. IsFold(X, X, b, Op, fold)
  <2>1. fold = [s \in Seq(X) |-> fold[s]] /\ \A s \in Seq(X) : fold[s] = JoinedTo(b, s, sep)
      OBVIOUS
  <2> HIDE DEF fold
  <2> QED BY <1>1, <1>3, <1>4, <2>1, FoldByElement
<1> QED BY <1>5 DEF X, op, Op

\* One link: the separator and the part.
Link(t, sep, p) == t \o <<sep>> \o p

\* It starts with b, and every part adds a link.
LEMMA JoinedToFacts ==
  ASSUME NEW D, NEW sep \in D, NEW b \in Seq(D)
  PROVE  /\ JoinedTo(b, <<>>, sep) = b
         /\ \A parts \in Seq(Seq(D)), p \in Seq(D) :
              /\ JoinedTo(b, parts, sep) \in Seq(D)
              /\ JoinedTo(b, Append(parts, p), sep) = Link(JoinedTo(b, parts, sep), sep, p)
<1> DEFINE X == Seq(D)
           op(t, p) == Link(t, sep, p)
           Op == [p \in X |-> [t \in X |-> op(t, p)]]
           fold == [parts \in Seq(X) |-> JoinedTo(b, parts, sep)]
<1>1. IsFold(X, X, b, Op, fold)
    BY JoinIsFold DEF Link
<1> HIDE DEF X, op
<1>2. fold[<<>>] = JoinedTo(b, <<>>, sep) /\ fold[<<>>] = b
  <2>1. <<>> \in Seq(X)
      OBVIOUS
  <2>2. fold[<<>>] = b
      BY <1>1 DEF IsFold
  <2> QED BY <2>1, <2>2
<1>3. ASSUME NEW parts \in Seq(X), NEW p \in X
      PROVE  /\ JoinedTo(b, parts, sep) \in X
             /\ JoinedTo(b, Append(parts, p), sep) = op(JoinedTo(b, parts, sep), p)
  <2>1. fold[Append(parts, p)] = Op[p][fold[parts]] /\ fold[parts] \in X
      BY <1>1 DEF IsFold
  <2>2. /\ fold[parts] = JoinedTo(b, parts, sep)
        /\ fold[Append(parts, p)] = JoinedTo(b, Append(parts, p), sep)
      BY ConcatOne
  <2> HIDE DEF fold
  <2>3. Op[p][fold[parts]] = op(fold[parts], p)
      BY <2>1
  <2> QED BY <2>1, <2>2, <2>3
<1> QED BY <1>2, <1>3 DEF X, op

\* Join of one part, and of one more.
LEMMA JoinOne ==
  ASSUME NEW D, NEW sep \in D, NEW p \in Seq(D)
  PROVE  JoinTexts(<<p>>, sep) = p
<1>1. <<p>> # <<>> /\ Head(<<p>>) = p /\ Tail(<<p>>) = <<>>
    OBVIOUS
<1>2. JoinTexts(<<p>>, sep) = JoinedTo(p, <<>>, sep)
    BY <1>1 DEF JoinTexts, JoinedTo
<1> QED BY <1>2, JoinedToFacts

\* A further part of a join adds a link too.
LEMMA JoinStep ==
  ASSUME NEW D, NEW sep \in D, NEW parts \in Seq(Seq(D)) \ {<<>>}, NEW p \in Seq(D)
  PROVE  /\ JoinTexts(parts, sep) \in Seq(D)
         /\ JoinTexts(Append(parts, p), sep) = Link(JoinTexts(parts, sep), sep, p)
<1> DEFINE h == Head(parts)
           t == Tail(parts)
           q == Append(parts, p)
<1>1. h \in Seq(D) /\ t \in Seq(Seq(D)) /\ parts # <<>>
    OBVIOUS
<1>2. q # <<>> /\ Head(q) = h /\ Tail(q) = Append(t, p)
    BY HeadAndTail
<1>3. JoinTexts(parts, sep) = JoinedTo(h, t, sep)
    BY <1>1 DEF JoinTexts, JoinedTo
<1>4. JoinTexts(q, sep) = JoinedTo(h, Append(t, p), sep)
  <2> HIDE DEF h, t, q
  <2> QED BY <1>2 DEF JoinTexts, JoinedTo
<1> HIDE DEF h, t
<1>5. JoinedTo(h, t, sep) \in Seq(D)
      /\ JoinedTo(h, Append(t, p), sep) = Link(JoinedTo(h, t, sep), sep, p)
    BY <1>1, JoinedToFacts
<1> QED BY <1>3, <1>4, <1>5

\* Segments without a separator come back from their join as they were.
LEMMA SplitJoin ==
  ASSUME NEW D, NEW sep \in D, NEW segs \in Seq(Seq(D \ {sep})), segs # <<>>
  PROVE  JoinTexts(segs, sep) \in Seq(D) /\ Split(JoinTexts(segs, sep), sep) = segs
<1> DEFINE Back(s) == JoinTexts(s, sep) \in Seq(D) /\ Split(JoinTexts(s, sep), sep) = s
           R == {s \in Seq(Seq(D \ {sep})) : s # <<>> => Back(s)}
<1>1. <<>> \in R
    OBVIOUS
<1>2. ASSUME NEW s \in Seq(Seq(D \ {sep})), NEW p \in Seq(D \ {sep}), s \in R
      PROVE  Append(s, p) \in R
  <2>1. p \in Seq(D) /\ s \in Seq(Seq(D)) /\ Append(s, p) \in Seq(Seq(D \ {sep}))
      OBVIOUS
  <2>2. CASE s = <<>>
    <3>1. Append(s, p) = <<p>>
        BY <2>2
    <3>2. Back(<<p>>)
        BY <2>1, JoinOne, SplitWhole
    <3> QED BY <2>1, <3>1, <3>2
  <2>3. CASE s # <<>>
    <3> DEFINE j == JoinTexts(s, sep)
    <3>1. j \in Seq(D) /\ Split(j, sep) = s
        BY <1>2, <2>3
    <3>2. JoinTexts(Append(s, p), sep) = Link(j, sep, p)
        BY <2>1, <2>3, JoinStep
    <3> HIDE DEF j
    <3>3. Split((j \o <<sep>>) \o p, sep) = Append(s, p)
        BY <3>1, SplitClean
    <3>4. (j \o <<sep>>) \o p \in Seq(D)
        BY <2>1, <3>1
    <3>5. Back(Append(s, p))
        BY <3>2, <3>3, <3>4 DEF Link
    <3> QED BY <2>1, <3>5
  <2> QED BY <2>2, <2>3
<1> HIDE DEF R, Back
<1>3. \A s \in Seq(Seq(D \ {sep})), p \in Seq(D \ {sep}) : s \in R => Append(s, p) \in R
    BY <1>2
<1>4. segs \in R
    BY <1>1, <1>3, AppendInduction
<1> QED BY <1>4 DEF R, Back

-----------------------------------------------------------------------------
(* The flags and their segments.  U is any set of tokens that has those of  *)
(* the program, Literals.                                                   *)

\* The flags of a command line of such tokens.
Flags(U) ==
  [dirs : Seq(Seq(U)), libs : Seq(Seq(U)), verbose : {NoLevel, -1, 0, 1, 2}, check : BOOLEAN,
   enc : Seq(U)]

\* A run without flags.
LEMMA NoFlagsTyped ==
  ASSUME NEW U, Literals \subseteq U
  PROVE  NoFlags \in Flags(U)
<1>1. "None" \in U
    BY DEF Literals
<1>2. <<"None">> \in Seq(U) /\ <<>> \in Seq(Seq(U))
    BY <1>1
<1> QED BY <1>2 DEF Flags, NoFlags, NoText, NoLevel

\* The levels of -W0 .. -W2.
LEMMA LevelsTyped ==
  ASSUME NEW t, IsLevel(t)
  PROVE  Levels[t] \in {0, 1, 2}
BY DEF IsLevel, Levels

\* The tokens that a segment may be.
LEMMA OneToken ==
  ASSUME NEW seg, NEW k, seg = <<k>>
  PROVE  seg # <<>> /\ seg[1] = k
OBVIOUS

\* A segment with another token is none of the two that are one word.
LEMMA OtherToken ==
  ASSUME NEW seg, seg[1] # "w", seg[1] # "c"
  PROVE  seg # <<"w">> /\ seg # <<"c">>
BY OneToken

\* The two shapes of a segment: one word, or a key and its value.
Word(k) == <<k>>
Seg(k, v) == <<k>> \o v

\* A segment with a key: the key and what follows it.
LEMMA KeyedSegment ==
  ASSUME NEW U, NEW v \in Seq(U), NEW k \in U
  PROVE  /\ <<k>> \o v \in Seq(U) /\ <<k>> \o v # <<>>
         /\ (<<k>> \o v)[1] = k /\ Tail(<<k>> \o v) = v
<1>1. /\ <<k>> \o v \in Seq(U) /\ Len(<<k>> \o v) = Len(v) + 1
      /\ (<<k>> \o v)[1] = k /\ \A i \in 1 .. Len(v) : (<<k>> \o v)[i + 1] = v[i]
    OBVIOUS
<1>2. PICK w \in Seq(U) : w = <<k>> \o v
    BY <1>1
<1>3. PICK n \in Nat : n = Len(v)
    OBVIOUS
<1>4. Len(w) = n + 1 /\ w[1] = k /\ \A i \in 1 .. n : w[i + 1] = v[i]
    BY <1>1, <1>2, <1>3
<1>5. w # <<>> /\ Tail(w) \in Seq(U) /\ Len(Tail(w)) = n /\ \A i \in 1 .. n : Tail(w)[i] = w[i + 1]
    BY <1>3, <1>4
<1>6. Tail(w) = v
    BY <1>3, <1>4, <1>5
<1> QED BY <1>2, <1>4, <1>5, <1>6

\* Flags by their parts.
FlagsOf(d, l, n, c, e) == [dirs |-> d, libs |-> l, verbose |-> n, check |-> c, enc |-> e]

\* What comes of flags when a segment of each kind is read.
LEMMA DirSegment ==
  ASSUME NEW U, "I:" \in U, NEW v \in Seq(U), NEW d, NEW l, NEW n, NEW c, NEW e
  PROVE  ParseSegment(FlagsOf(d, l, n, c, e), Seg("I:", v)) = FlagsOf(Append(d, v), l, n, c, e)
<1>1. PICK seg \in Seq(U) : seg = <<"I:">> \o v /\ seg # <<>> /\ seg[1] = "I:" /\ Tail(seg) = v
    BY KeyedSegment
<1>2. seg # <<"w">> /\ seg # <<"c">>
    BY <1>1, OtherToken
<1>3. ParseSegment(FlagsOf(d, l, n, c, e), seg) = FlagsOf(Append(d, v), l, n, c, e)
    BY <1>1, <1>2 DEF ParseSegment, FlagsOf
<1> QED BY <1>1, <1>3 DEF Seg

\* A library.
LEMMA LibSegment ==
  ASSUME NEW U, "r:" \in U, NEW v \in Seq(U), NEW d, NEW l, NEW n, NEW c, NEW e
  PROVE  ParseSegment(FlagsOf(d, l, n, c, e), Seg("r:", v)) = FlagsOf(d, Append(l, v), n, c, e)
<1>1. PICK seg \in Seq(U) : seg = <<"r:">> \o v /\ seg # <<>> /\ seg[1] = "r:" /\ Tail(seg) = v
    BY KeyedSegment
<1>2. seg # <<"w">> /\ seg # <<"c">>
    BY <1>1, OtherToken
<1>3. ParseSegment(FlagsOf(d, l, n, c, e), seg) = FlagsOf(d, Append(l, v), n, c, e)
    BY <1>1, <1>2 DEF ParseSegment, FlagsOf
<1> QED BY <1>1, <1>3 DEF Seg

\* An encoding.
LEMMA EncodingSegment ==
  ASSUME NEW U, "E:" \in U, NEW v \in Seq(U), NEW d, NEW l, NEW n, NEW c, NEW e
  PROVE  ParseSegment(FlagsOf(d, l, n, c, e), Seg("E:", v)) = FlagsOf(d, l, n, c, v)
<1>1. PICK seg \in Seq(U) : seg = <<"E:">> \o v /\ seg # <<>> /\ seg[1] = "E:" /\ Tail(seg) = v
    BY KeyedSegment
<1>2. seg # <<"w">> /\ seg # <<"c">>
    BY <1>1, OtherToken
<1>3. ParseSegment(FlagsOf(d, l, n, c, e), seg) = FlagsOf(d, l, n, c, v)
    BY <1>1, <1>2 DEF ParseSegment, FlagsOf
<1> QED BY <1>1, <1>3 DEF Seg

\* The number of a level is read back as that level.
LEMMA NumbersAreLevels ==
  ASSUME NEW U, Literals \subseteq U, NEW n \in {0, 1, 2}
  PROVE  Number(n) \in Seq(U) /\ IsLevel(Number(n)) /\ Levels[Number(n)] = n
<1>1. "0" \in U /\ "1" \in U /\ "2" \in U
    BY DEF Literals
<1> DEFINE a == <<"0">>
           b == <<"1">>
           c == <<"2">>
<1>2. a # b /\ a # c /\ b # c
    OBVIOUS
<1>3. a \in Seq(U) /\ b \in Seq(U) /\ c \in Seq(U)
    BY <1>1
<1>4. Number(0) = a /\ Number(1) = b /\ Number(2) = c
    BY DEF Number
<1>5. Levels = [t \in {a, b, c} |-> CASE t = a -> 0 [] t = b -> 1 [] t = c -> 2]
    BY DEF Levels
<1> HIDE DEF a, b, c
<1>6. DOMAIN Levels = {a, b, c} /\ Levels[a] = 0 /\ Levels[b] = 1 /\ Levels[c] = 2
    BY <1>2, <1>5
<1> QED BY <1>3, <1>4, <1>6 DEF IsLevel

\* A level.
LEMMA LevelSegment ==
  ASSUME NEW m \in {0, 1, 2}, NEW d, NEW l, NEW n, NEW c, NEW e
  PROVE  ParseSegment(FlagsOf(d, l, n, c, e), Seg("W:", Number(m))) = FlagsOf(d, l, m, c, e)
<1> DEFINE U == Literals
<1>1. Number(m) \in Seq(U) /\ IsLevel(Number(m)) /\ Levels[Number(m)] = m /\ "W:" \in U
    BY NumbersAreLevels DEF Literals
<1>2. PICK seg \in Seq(U) : seg = <<"W:">> \o Number(m) /\ seg # <<>> /\ seg[1] = "W:"
                           /\ Tail(seg) = Number(m)
    BY <1>1, KeyedSegment
<1>3. seg # <<"w">> /\ seg # <<"c">>
    BY <1>2, OtherToken
<1>4. ParseSegment(FlagsOf(d, l, n, c, e), seg) = FlagsOf(d, l, m, c, e)
    BY <1>1, <1>2, <1>3 DEF ParseSegment, FlagsOf
<1> QED BY <1>2, <1>4 DEF Seg

\* The flag -w.
LEMMA WarnSegment ==
  ASSUME NEW d, NEW l, NEW n, NEW c, NEW e
  PROVE  ParseSegment(FlagsOf(d, l, n, c, e), Word("w")) = FlagsOf(d, l, -1, c, e)
<1> DEFINE s == <<"w">>
<1>1. s # <<>> /\ s[1] = "w" /\ s # <<"c">>
    OBVIOUS
<1>2. ParseSegment(FlagsOf(d, l, n, c, e), s) = FlagsOf(d, l, -1, c, e)
  <2>1. s = <<"w">>
      OBVIOUS
  <2> HIDE DEF s
  <2> QED BY <1>1, <2>1 DEF ParseSegment, FlagsOf
<1> QED BY <1>2 DEF Word

\* The flag -c.
LEMMA CheckSegment ==
  ASSUME NEW d, NEW l, NEW n, NEW c, NEW e
  PROVE  ParseSegment(FlagsOf(d, l, n, c, e), Word("c")) = FlagsOf(d, l, n, TRUE, e)
<1> DEFINE s == <<"c">>
<1>1. s # <<>> /\ s[1] = "c" /\ s # <<"w">>
    OBVIOUS
<1>2. ParseSegment(FlagsOf(d, l, n, c, e), s) = FlagsOf(d, l, n, TRUE, e)
  <2>1. s = <<"c">>
      OBVIOUS
  <2> HIDE DEF s
  <2> QED BY <1>1, <2>1 DEF ParseSegment, FlagsOf
<1> QED BY <1>2 DEF Word

\* Whatever a segment holds, flags come of it.
LEMMA SegmentTyped ==
  ASSUME NEW U, NEW f \in Flags(U), NEW seg \in Seq(U)
  PROVE  ParseSegment(f, seg) \in Flags(U)
<1>1. CASE seg = <<>>
    BY <1>1 DEF ParseSegment
<1>2. CASE seg # <<>>
  <2> DEFINE v == Tail(seg)
  <2>1. v \in Seq(U) /\ \A ts \in Seq(Seq(U)) : Append(ts, v) \in Seq(Seq(U))
      BY <1>2
  <2>2. IsLevel(v) => Levels[v] \in {0, 1, 2}
      BY LevelsTyped
  <2> HIDE DEF v
  <2>3. /\ [f EXCEPT !.dirs = Append(@, v)] \in Flags(U)
        /\ [f EXCEPT !.libs = Append(@, v)] \in Flags(U)
        /\ [f EXCEPT !.verbose = -1] \in Flags(U)
        /\ IsLevel(v) => [f EXCEPT !.verbose = Levels[v]] \in Flags(U)
        /\ [f EXCEPT !.check = TRUE] \in Flags(U)
        /\ [f EXCEPT !.enc = v] \in Flags(U)
      BY <2>1, <2>2 DEF Flags
  <2> HIDE DEF Flags
  <2> QED BY <1>2, <2>3 DEF ParseSegment, v
<1> QED BY <1>1, <1>2

\* ParseBlob, one segment after the other.
Parsed(segs) == FoldLeft(ParseSegment, NoFlags, segs)

\* ParseBlob folds the segments.
LEMMA ParseIsFold ==
  ASSUME NEW U, Literals \subseteq U
  PROVE  IsFold(Flags(U), Seq(U), NoFlags,
                [seg \in Seq(U) |-> [f \in Flags(U) |-> ParseSegment(f, seg)]],
                [segs \in Seq(Seq(U)) |-> Parsed(segs)])
<1> DEFINE X == Flags(U)
           D == Seq(U)
           b == NoFlags
           op(f, seg) == ParseSegment(f, seg)
           Op == [seg \in D |-> [f \in X |-> op(f, seg)]]
           fold == [segs \in Seq(D) |-> Parsed(segs)]
<1>1. b \in X
    BY NoFlagsTyped
<1>2. ASSUME NEW f \in X, NEW seg \in D PROVE op(f, seg) \in X
    BY SegmentTyped
<1> HIDE DEF X, D, b, op
<1>3. Op \in [D -> [X -> X]] /\ \A seg \in D, f \in X : Op[seg][f] = op(f, seg)
    BY <1>2
<1>4. ASSUME NEW s \in Seq(D)
      PROVE  Computed(X, b, Len(s), StepsOver(Op, s), Parsed(s))
  <2> DEFINE Is(c) == c = [u \in SUBSET DOMAIN s |->
                             IF u = {} THEN b ELSE op(c[u \ {Max(u)}], s[Max(u)])]
             c == CHOOSE d : Is(d)
  <2> HIDE DEF Op
  <2>1. PICK d : FoldsOver(X, D, b, Op, s, d)
      BY <1>1, <1>3, FoldOver
  <2>2. Is(d)
      BY <1>3, <2>1 DEF FoldsOver
  <2>3. Is(c)
      BY <2>2
  <2>4. Parsed(s) = c[DOMAIN s]
      BY DEF Parsed, FoldLeft, MapThenFoldSet, Max, op, b
  <2> HIDE DEF c
  <2>5. c[{}] = b /\ \A u \in SUBSET DOMAIN s :
                       u # {} => c[u] = op(c[u \ {Max(u)}], s[Max(u)])
      BY <2>3
  <2>6. \A u \in SUBSET DOMAIN s :
           u # {} /\ s[Max(u)] \in D /\ c[u \ {Max(u)}] \in X
           => c[u] = Op[s[Max(u)]][c[u \ {Max(u)}]]
      BY <1>3, <2>5
  <2>7. Computed(X, b, Len(s), StepsOver(Op, s), c[DOMAIN s])
      BY <1>1, <1>3, <2>5, <2>6, FoldOverAll
  <2> QED BY <2>4, <2>7
<1> HIDE DEF Op
<1>5. IsFold(X, D, b, Op, fold)
  <2>1. fold = [s \in Seq(D) |-> fold[s]] /\ \A s \in Seq(D) : fold[s] = Parsed(s)
      OBVIOUS
  <2> HIDE DEF fold
  <2> QED BY <1>1, <1>3, <1>4, <2>1, FoldByElement
<1> QED BY <1>5 DEF X, D, b, op, Op

\* It starts without flags, and reads one segment after the other.
LEMMA ParsedFacts ==
  ASSUME NEW U, Literals \subseteq U
  PROVE  /\ Parsed(<<>>) = NoFlags
         /\ \A segs \in Seq(Seq(U)) : Parsed(segs) \in Flags(U)
         /\ \A segs \in Seq(Seq(U)), seg \in Seq(U) :
              Parsed(Append(segs, seg)) = ParseSegment(Parsed(segs), seg)
<1> DEFINE X == Flags(U)
           D == Seq(U)
           Op == [seg \in D |-> [f \in X |-> ParseSegment(f, seg)]]
           fold == [segs \in Seq(D) |-> Parsed(segs)]
<1>1. IsFold(X, D, NoFlags, Op, fold)
    BY ParseIsFold
<1> HIDE DEF X, D
<1>2. fold[<<>>] = Parsed(<<>>) /\ fold[<<>>] = NoFlags
  <2>1. <<>> \in Seq(D)
      OBVIOUS
  <2>2. fold[<<>>] = NoFlags
      BY <1>1 DEF IsFold
  <2> QED BY <2>1, <2>2
<1>3. ASSUME NEW segs \in Seq(D), NEW seg \in D
      PROVE  Parsed(segs) \in X /\ Parsed(Append(segs, seg)) = ParseSegment(Parsed(segs), seg)
  <2>1. fold[Append(segs, seg)] = Op[seg][fold[segs]] /\ fold[segs] \in X
      BY <1>1 DEF IsFold
  <2>2. fold[segs] = Parsed(segs) /\ fold[Append(segs, seg)] = Parsed(Append(segs, seg))
      BY ConcatOne
  <2> HIDE DEF fold
  <2>3. Op[seg][fold[segs]] = ParseSegment(fold[segs], seg)
      BY <2>1
  <2> QED BY <2>1, <2>2, <2>3
<1>4. ASSUME NEW segs \in Seq(D) PROVE Parsed(segs) \in X
  <2>1. fold[segs] \in X
      BY <1>1 DEF IsFold
  <2> QED BY <2>1
<1> QED BY <1>2, <1>3, <1>4 DEF X, D

\* The segments that values with a key make, one value after the other.
LEMMA KeyedFacts ==
  ASSUME NEW U, NEW k \in U
  PROVE  /\ Keyed(k, <<>>) = <<>>
         /\ \A vs \in Seq(Seq(U)) : Keyed(k, vs) \in Seq(Seq(U))
         /\ \A v \in Seq(U) : Seg(k, v) \in Seq(U)
         /\ \A vs \in Seq(Seq(U)), v \in Seq(U) :
              Keyed(k, Append(vs, v)) = Append(Keyed(k, vs), Seg(k, v))
<1>1. Keyed(k, <<>>) = <<>>
    BY DEF Keyed
<1> DEFINE one(v) == Seg(k, v)
<1>2. \A v \in Seq(U) : one(v) \in Seq(U)
    BY KeyedSegment DEF Seg
<1>3. \A vs : Keyed(k, vs) = [i \in DOMAIN vs |-> one(vs[i])]
    BY DEF Keyed, Seg
<1> HIDE DEF one
<1>4. ASSUME NEW vs \in Seq(Seq(U))
      PROVE  /\ Keyed(k, vs) \in Seq(Seq(U)) /\ Len(Keyed(k, vs)) = Len(vs)
             /\ \A i \in 1 .. Len(vs) : Keyed(k, vs)[i] = one(vs[i])
  <2>1. PICK n \in Nat : n = Len(vs) /\ DOMAIN vs = 1 .. n
      OBVIOUS
  <2>2. \A i \in 1 .. n : vs[i] \in Seq(U)
      BY <2>1
  <2>3. Keyed(k, vs) = [i \in 1 .. n |-> one(vs[i])]
      BY <1>3, <2>1
  <2>4. Keyed(k, vs) \in [1 .. n -> Seq(U)]
      BY <1>2, <2>2, <2>3
  <2>5. Keyed(k, vs) \in Seq(Seq(U)) /\ Len(Keyed(k, vs)) = n
      BY <2>4
  <2>6. \A i \in 1 .. n : Keyed(k, vs)[i] = one(vs[i])
      BY <2>3
  <2> QED BY <2>1, <2>5, <2>6
<1>5. ASSUME NEW vs \in Seq(Seq(U)), NEW v \in Seq(U)
      PROVE  Keyed(k, Append(vs, v)) = Append(Keyed(k, vs), one(v))
  <2> DEFINE ws == Append(vs, v)
             a == Keyed(k, ws)
             b == Append(Keyed(k, vs), one(v))
  <2>1. PICK n \in Nat : n = Len(vs)
      OBVIOUS
  <2>2. /\ ws \in Seq(Seq(U)) /\ Len(ws) = n + 1 /\ ws[n + 1] = v
        /\ \A i \in 1 .. n : ws[i] = vs[i]
      BY <2>1
  <2> HIDE DEF ws
  <2>3. /\ a \in Seq(Seq(U)) /\ Len(a) = n + 1
        /\ \A i \in 1 .. n + 1 : a[i] = one(ws[i])
      BY <1>4, <2>2
  <2>4. /\ b \in Seq(Seq(U)) /\ Len(b) = n + 1 /\ b[n + 1] = one(v)
        /\ \A i \in 1 .. n : b[i] = Keyed(k, vs)[i]
      BY <1>2, <1>4, <2>1
  <2>5. \A i \in 1 .. n : Keyed(k, vs)[i] = one(vs[i])
      BY <1>4, <2>1
  <2> HIDE DEF a, b
  <2>6. \A i \in 1 .. n + 1 : a[i] = b[i]
      BY <2>2, <2>3, <2>4, <2>5
  <2>7. a = b
      BY <2>3, <2>4, <2>6
  <2> QED BY <2>7 DEF a, b, ws
<1> QED BY <1>1, <1>2, <1>4, <1>5 DEF one

\* The segments are of tokens of U, and parsed they are the flags f.
Reads(U, segs, f) == segs \in Seq(Seq(U)) /\ Parsed(segs) = f

\* One more segment.
LEMMA ReadsMore ==
  ASSUME NEW U, Literals \subseteq U, NEW segs, NEW f, Reads(U, segs, f), NEW seg \in Seq(U)
  PROVE  Reads(U, Append(segs, seg), ParseSegment(f, seg))
<1>1. segs \in Seq(Seq(U)) /\ Parsed(segs) = f
    BY DEF Reads
<1>2. Parsed(Append(segs, seg)) = ParseSegment(f, seg)
    BY <1>1, ParsedFacts
<1>3. Append(segs, seg) \in Seq(Seq(U))
    BY <1>1
<1> QED BY <1>2, <1>3 DEF Reads

\* A segment that is there or not.
LEMMA ReadsWhen ==
  ASSUME NEW U, Literals \subseteq U, NEW segs, NEW f, Reads(U, segs, f),
         NEW cond \in BOOLEAN, NEW seg, cond => seg \in Seq(U)
  PROVE  Reads(U, segs \o When(cond, seg), IF cond THEN ParseSegment(f, seg) ELSE f)
<1>1. segs \in Seq(Seq(U))
    BY DEF Reads
<1>2. CASE cond
  <2>1. segs \o When(cond, seg) = Append(segs, seg)
      BY <1>1, <1>2, ConcatOne DEF When
  <2>2. Reads(U, Append(segs, seg), ParseSegment(f, seg))
      BY <1>2, ReadsMore
  <2> QED BY <1>2, <2>1, <2>2
<1>3. CASE ~cond
  <2>1. segs \o When(cond, seg) = segs
      BY <1>1, <1>3, ConcatEmpty DEF When
  <2> QED BY <1>3, <2>1
<1> QED BY <1>2, <1>3

\* The directories come first and are read in their order, then the libraries.
LEMMA ReadsDirs ==
  ASSUME NEW U, Literals \subseteq U, NEW ds \in Seq(Seq(U))
  PROVE  Reads(U, Keyed("I:", ds), FlagsOf(ds, <<>>, NoLevel, FALSE, NoText))
<1>1. "I:" \in U
    BY DEF Literals
<1> DEFINE none == <<>>
           Now(s) == FlagsOf(s, none, NoLevel, FALSE, NoText)
           R == {s \in Seq(Seq(U)) : Reads(U, Keyed("I:", s), Now(s))}
<1>2. <<>> \in R
  <2>1. Keyed("I:", <<>>) = <<>> /\ Parsed(<<>>) = NoFlags
      BY <1>1, KeyedFacts, ParsedFacts
  <2>2. <<>> \in Seq(Seq(U)) /\ NoFlags = Now(<<>>)
      BY DEF NoFlags, FlagsOf
  <2> QED BY <2>1, <2>2 DEF Reads
<1> HIDE DEF none
<1>3. ASSUME NEW s \in Seq(Seq(U)), NEW v \in Seq(U), s \in R PROVE Append(s, v) \in R
  <2> DEFINE K == Keyed("I:", s)
             w == Seg("I:", v)
  <2>1. Reads(U, K, Now(s)) /\ Append(s, v) \in Seq(Seq(U))
    <3>1. Append(s, v) \in Seq(Seq(U))
        OBVIOUS
    <3> HIDE DEF Now
    <3> QED BY <1>3, <3>1
  <2>2. w \in Seq(U) /\ Keyed("I:", Append(s, v)) = Append(K, w)
      BY <1>1, KeyedFacts
  <2>3. ParseSegment(Now(s), w) = Now(Append(s, v))
    <3>1. \A l, n, c, e : ParseSegment(FlagsOf(s, l, n, c, e), w) = FlagsOf(Append(s, v), l, n, c, e)
        BY <1>1, DirSegment
    <3> QED BY <3>1
  <2> HIDE DEF K, w, Now
  <2>4. Reads(U, Append(K, w), ParseSegment(Now(s), w))
      BY <2>1, <2>2, ReadsMore
  <2> QED BY <2>1, <2>2, <2>3, <2>4
<1> HIDE DEF R
<1>4. \A s \in Seq(Seq(U)), v \in Seq(U) : s \in R => Append(s, v) \in R
    BY <1>3
<1>5. ds \in R
    BY <1>2, <1>4, AppendInduction
<1> QED BY <1>5 DEF R, none

\* The segments of the libraries, after others.
LEMMA ReadsLibs ==
  ASSUME NEW U, Literals \subseteq U, NEW segs, NEW d, NEW n, NEW c, NEW e,
         Reads(U, segs, FlagsOf(d, <<>>, n, c, e)), NEW ls \in Seq(Seq(U))
  PROVE  Reads(U, segs \o Keyed("r:", ls), FlagsOf(d, ls, n, c, e))
<1>1. "r:" \in U
    BY DEF Literals
<1> DEFINE Now(s) == FlagsOf(d, s, n, c, e)
           R == {s \in Seq(Seq(U)) : Reads(U, segs \o Keyed("r:", s), Now(s))}
<1>2. segs \in Seq(Seq(U))
    BY DEF Reads
<1>3. <<>> \in R
  <2>1. segs \o Keyed("r:", <<>>) = segs
      BY <1>1, <1>2, KeyedFacts, ConcatEmpty
  <2>2. Reads(U, segs \o Keyed("r:", <<>>), Now(<<>>))
      BY <2>1
  <2>3. <<>> \in Seq(Seq(U))
      OBVIOUS
  <2> QED BY <2>2, <2>3
<1>4. ASSUME NEW s \in Seq(Seq(U)), NEW v \in Seq(U), s \in R PROVE Append(s, v) \in R
  <2> DEFINE L == Keyed("r:", s)
             K == segs \o L
             w == Seg("r:", v)
  <2>1. Reads(U, K, Now(s)) /\ Append(s, v) \in Seq(Seq(U))
      BY <1>4
  <2>2. L \in Seq(Seq(U)) /\ w \in Seq(U) /\ Keyed("r:", Append(s, v)) = Append(L, w)
      BY <1>1, KeyedFacts
  <2>3. ParseSegment(Now(s), w) = Now(Append(s, v))
      BY <1>1, LibSegment
  <2> HIDE DEF L, w, Now
  <2>4. segs \o Append(L, w) = Append(K, w)
      BY <1>2, <2>2, ConcatAppend
  <2> HIDE DEF K
  <2>5. Reads(U, Append(K, w), ParseSegment(Now(s), w))
      BY <2>1, <2>2, ReadsMore
  <2> QED BY <2>1, <2>2, <2>3, <2>4, <2>5
<1> HIDE DEF R
<1>5. \A s \in Seq(Seq(U)), v \in Seq(U) : s \in R => Append(s, v) \in R
    BY <1>4
<1>6. ls \in R
    BY <1>3, <1>5, AppendInduction
<1> QED BY <1>6 DEF R

\* The segments of flags, read one after the other, are those flags.
LEMMA SegmentsRead ==
  ASSUME NEW U, Literals \subseteq U, NEW f \in Flags(U)
  PROVE  Reads(U, Segments(f), f)
<1> DEFINE d == f.dirs
           l == f.libs
           n == f.verbose
           c == f.check
           e == f.enc
           single == Word("w")
           number == Seg("W:", Number(n))
           check == Word("c")
           encoding == Seg("E:", e)
           s1 == Keyed("I:", d)
           s2 == s1 \o Keyed("r:", l)
           s3 == s2 \o When(n = -1, single)
           s4 == s3 \o When(n \in 0 .. 2, number)
           s5 == s4 \o When(c, check)
           s6 == s5 \o When(e # NoText, encoding)
<1>1. /\ d \in Seq(Seq(U)) /\ l \in Seq(Seq(U)) /\ e \in Seq(U)
      /\ n \in {NoLevel, -1, 0, 1, 2} /\ c \in BOOLEAN /\ f = FlagsOf(d, l, n, c, e)
    BY DEF Flags, FlagsOf
<1>2. single \in Seq(U) /\ check \in Seq(U) /\ "E:" \in U
    BY DEF Literals, Word
<1>3. Segments(f) = s6
    BY DEF Segments, Word, Seg
<1> HIDE DEF d, l, n, c, e
<1>4. Reads(U, s1, FlagsOf(d, <<>>, NoLevel, FALSE, NoText))
    BY <1>1, ReadsDirs
<1> HIDE DEF s1
<1>5. Reads(U, s2, FlagsOf(d, l, NoLevel, FALSE, NoText))
    BY <1>1, <1>4, ReadsLibs
<1>6. ParseSegment(FlagsOf(d, l, NoLevel, FALSE, NoText), single) = FlagsOf(d, l, -1, FALSE, NoText)
  <2>1. \A n1, c1, e1 : ParseSegment(FlagsOf(d, l, n1, c1, e1), single) = FlagsOf(d, l, -1, c1, e1)
      BY WarnSegment
  <2> HIDE DEF single
  <2> QED BY <2>1
<1>7. ASSUME n \in {0, 1, 2}
      PROVE  ParseSegment(FlagsOf(d, l, NoLevel, FALSE, NoText), number) = FlagsOf(d, l, n, FALSE, NoText)
  <2>1. \A m, c1, e1 : ParseSegment(FlagsOf(d, l, m, c1, e1), number) = FlagsOf(d, l, n, c1, e1)
      BY <1>7, LevelSegment
  <2> QED BY <2>1
<1>8. ParseSegment(FlagsOf(d, l, n, FALSE, NoText), check) = FlagsOf(d, l, n, TRUE, NoText)
  <2>1. \A n1, c1, e1 : ParseSegment(FlagsOf(d, l, n1, c1, e1), check) = FlagsOf(d, l, n1, TRUE, e1)
      BY CheckSegment
  <2> HIDE DEF check
  <2> QED BY <2>1
<1>9. encoding \in Seq(U) /\ ParseSegment(FlagsOf(d, l, n, c, NoText), encoding) = FlagsOf(d, l, n, c, e)
    BY <1>1, <1>2, EncodingSegment, KeyedFacts
<1>13. n \in {0, 1, 2} => number \in Seq(U)
  <2>1. "W:" \in U
      BY DEF Literals
  <2> QED BY <2>1, NumbersAreLevels, KeyedFacts
<1> HIDE DEF single, number, check, encoding, s2
<1>10. Reads(U, s4, FlagsOf(d, l, n, FALSE, NoText))
  <2> DEFINE g == FlagsOf(d, l, NoLevel, FALSE, NoText)
             g3 == IF n = -1 THEN ParseSegment(g, single) ELSE g
             g4 == IF n \in 0 .. 2 THEN ParseSegment(g3, number) ELSE g3
  <2>0. (n \in 0 .. 2 <=> n \in {0, 1, 2}) /\ (n = -1 => n \notin 0 .. 2)
        /\ (n = NoLevel => n # -1 /\ n \notin 0 .. 2)
      BY <1>1 DEF NoLevel
  <2>1. g4 = FlagsOf(d, l, n, FALSE, NoText)
    <3>1. CASE n = -1
        BY <3>1, <2>0, <1>6
    <3>2. CASE n = NoLevel
        BY <3>2, <2>0
    <3>3. CASE n \in {0, 1, 2}
        BY <3>3, <2>0, <1>7
    <3> QED BY <1>1, <3>1, <3>2, <3>3
  <2>2. n \in 0 .. 2 => number \in Seq(U)
      BY <1>13, <2>0
  <2>3. Reads(U, s3, g3)
    <3> DEFINE cond == n = -1
    <3>1. cond \in BOOLEAN
        OBVIOUS
    <3> HIDE DEF cond, g
    <3>2. Reads(U, s2 \o When(cond, single), IF cond THEN ParseSegment(g, single) ELSE g)
        BY <1>2, <1>5, <3>1, ReadsWhen DEF g
    <3> QED BY <3>2 DEF cond
  <2> HIDE DEF s3, g3
  <2>4. Reads(U, s4, g4)
    <3> DEFINE cond == n \in 0 .. 2
    <3>1. cond \in BOOLEAN
        OBVIOUS
    <3> HIDE DEF cond
    <3>2. Reads(U, s3 \o When(cond, number), IF cond THEN ParseSegment(g3, number) ELSE g3)
        BY <2>2, <2>3, <3>1, ReadsWhen DEF cond
    <3> QED BY <3>2 DEF cond
  <2> QED BY <2>1, <2>4
<1> HIDE DEF s4
<1>11. Reads(U, s5, FlagsOf(d, l, n, c, NoText))
  <2> DEFINE g == FlagsOf(d, l, n, FALSE, NoText)
             g5 == IF c THEN ParseSegment(g, check) ELSE g
  <2>1. g5 = FlagsOf(d, l, n, c, NoText)
      BY <1>1, <1>8
  <2> HIDE DEF g
  <2>2. Reads(U, s5, g5)
      BY <1>1, <1>2, <1>10, ReadsWhen DEF g
  <2> QED BY <2>1, <2>2
<1> HIDE DEF s5
<1>12. Reads(U, s6, FlagsOf(d, l, n, c, e))
  <2> DEFINE g == FlagsOf(d, l, n, c, NoText)
             g6 == IF e # NoText THEN ParseSegment(g, encoding) ELSE g
  <2>1. g6 = FlagsOf(d, l, n, c, e) /\ (e # NoText) \in BOOLEAN
      BY <1>9
  <2> HIDE DEF g
  <2>2. Reads(U, s6, g6)
      BY <1>9, <1>11, <2>1, ReadsWhen DEF g
  <2> QED BY <2>1, <2>2
<1> QED BY <1>1, <1>3, <1>12

\* Flags without a separator come back from their trip.
LEMMA TripKeepsFlags ==
  ASSUME NEW V, Literals \subseteq V, US \notin V, RS \notin V, NEW f \in Flags(V), NEW env,
         AnyFlag(f) \/ "CALISTO_RUN_FLAGS" \notin DOMAIN env
  PROVE  ChildFlags(f, env) = f
<1> DEFINE segs == Segments(f)
           D == V \cup {US}
           E == D \cup {RS}
           blob == JoinTexts(segs, US)
<1>1. CASE f = NoFlags
    BY <1>1 DEF ChildFlags, AnyFlag
<1>2. CASE f # NoFlags
  <2>1. segs \in Seq(Seq(V)) /\ Parsed(segs) = f
      BY SegmentsRead DEF Reads
  <2>2. segs # <<>>
      BY <1>2, <2>1, ParsedFacts
  <2> HIDE DEF segs
  <2>3. US \in D /\ D \ {US} = V
      OBVIOUS
  <2>4. RS # US
      BY DEF US, RS
  <2>5. E \ {RS} = D
      BY <2>4
  <2> HIDE DEF D
  <2>6. blob \in Seq(D) /\ Split(blob, US) = segs
      BY <2>1, <2>2, <2>3, SplitJoin
  <2> HIDE DEF blob, E
  <2>7. Split(blob, RS) = <<blob>>
      BY <2>5, <2>6, SplitWhole
  <2>8. Arriving(blob) = blob
      BY <2>7 DEF Arriving
  <2>9. ParseBlob(blob) = f
      BY <2>1, <2>6 DEF ParseBlob, Parsed
  <2> QED BY <1>2, <2>8, <2>9 DEF ChildFlags, AnyFlag, Blob, blob, segs
<1> QED BY <1>1, <1>2

-----------------------------------------------------------------------------
(* The command line.                                                        *)

\* The states of the loop over the arguments.
Reading(U) ==
  [pc : {"flags", "value", "rest", "version", "refused"}, of : Takes \cup {""},
   flags : Flags(U), cold : BOOLEAN, preload : Seq(U), evals : Seq(Seq(U)), rest : Seq(Seq(U))]
\* A loop that waits for a value knows for which flag.
LineStates(U) == {s \in Reading(U) : s.pc = "value" => s.of \in Takes}

\* A value goes to its flag and leaves pc alone.
LEMMA ValueTyped ==
  ASSUME NEW U, NEW s \in LineStates(U), s.pc # "value", NEW o \in Takes, NEW t \in Seq(U)
  PROVE  WithValue(s, o, t) \in LineStates(U) /\ WithValue(s, o, t).pc = s.pc
<1> DEFINE F == s.flags
           T == Seq(U)
           G == Flags(U)
<1>1. F \in G /\ s.evals \in Seq(T) /\ s \in Reading(U)
    BY DEF LineStates, Reading
<1>2. Append(s.evals, t) \in Seq(T)
    BY <1>1
<1>3. /\ [F EXCEPT !.dirs = Append(@, t)] \in G
      /\ [F EXCEPT !.libs = Append(@, t)] \in G
      /\ [F EXCEPT !.enc = t] \in G
  <2>1. /\ Append(F.dirs, t) \in Seq(T) /\ Append(F.libs, t) \in Seq(T) /\ t \in T
        /\ F \in Flags(U)
      BY <1>1 DEF Flags
  <2> HIDE DEF F, T
  <2> QED BY <2>1 DEF Flags, T
<1> HIDE DEF G, T
<1>4. /\ [s EXCEPT !.evals = Append(@, t)] \in LineStates(U)
      /\ [s EXCEPT !.preload = t] \in LineStates(U)
      /\ [s EXCEPT !.flags.dirs = Append(@, t)] \in LineStates(U)
      /\ [s EXCEPT !.flags.libs = Append(@, t)] \in LineStates(U)
      /\ [s EXCEPT !.flags.enc = t] \in LineStates(U)
    BY <1>1, <1>2, <1>3 DEF LineStates, Reading, G, T
<1>5. /\ [s EXCEPT !.evals = Append(@, t)].pc = s.pc
      /\ [s EXCEPT !.preload = t].pc = s.pc
      /\ [s EXCEPT !.flags.dirs = Append(@, t)].pc = s.pc
      /\ [s EXCEPT !.flags.libs = Append(@, t)].pc = s.pc
      /\ [s EXCEPT !.flags.enc = t].pc = s.pc
    BY <1>1 DEF Reading
<1> HIDE DEF F
<1> QED BY <1>4, <1>5 DEF WithValue, Takes

\* One argument of the command line.
LEMMA ArgumentTyped ==
  ASSUME NEW U, Literals \subseteq U, NEW s \in LineStates(U), NEW a \in Arguments(U)
  PROVE  ParseArg(s, a) \in LineStates(U)
<1>1. a.opt \in U /\ a.att \in Seq(U) /\ s \in Reading(U)
    BY DEF Arguments, LineStates
<1>2. Whole(a) \in Seq(U)
    BY <1>1, KeyedSegment DEF Whole
<1>3. CASE s.pc = "value"
  <2> DEFINE r == [s EXCEPT !.pc = "flags"]
  <2>1. r \in LineStates(U) /\ r.pc # "value" /\ s.of \in Takes
      BY <1>1, <1>3 DEF LineStates, Reading
  <2> HIDE DEF r
  <2>2. WithValue(r, s.of, Whole(a)) \in LineStates(U)
      BY <1>2, <2>1, ValueTyped
  <2>3. ParseArg(s, a) = WithValue(r, s.of, Whole(a))
      BY <1>3 DEF ParseArg, r
  <2> QED BY <2>2, <2>3
<1>4. CASE s.pc = "flags" /\ a.opt # ""
  <2>1. CASE a.att = <<>>
    <3>1. /\ [s EXCEPT !.pc = "rest"] \in LineStates(U)
          /\ a.opt \in Takes => [s EXCEPT !.pc = "value", !.of = a.opt] \in LineStates(U)
          /\ [s EXCEPT !.cold = TRUE] \in LineStates(U)
          /\ [s EXCEPT !.pc = "version"] \in LineStates(U)
          /\ [s EXCEPT !.pc = "refused"] \in LineStates(U)
        BY <1>1, <1>4 DEF LineStates, Reading
    <3>2. /\ [s.flags EXCEPT !.verbose = -1] \in Flags(U)
          /\ [s.flags EXCEPT !.check = TRUE] \in Flags(U)
        BY <1>1 DEF Reading, Flags
    <3>3. /\ [s EXCEPT !.flags.verbose = -1] \in LineStates(U)
          /\ [s EXCEPT !.flags.check = TRUE] \in LineStates(U)
        BY <1>1, <1>4, <3>2 DEF LineStates, Reading
    <3>4. ParseFlag(s, a) \in LineStates(U)
        BY <2>1, <3>1, <3>3 DEF ParseFlag
    <3> QED BY <1>4, <3>4 DEF ParseArg
  <2>2. CASE a.att # <<>>
    <3>1. a.opt \in {"-I", "-r", "-E"} => WithValue(s, a.opt, a.att) \in LineStates(U)
        BY <1>1, <1>4, ValueTyped DEF Takes
    <3>2. [s EXCEPT !.pc = "refused"] \in LineStates(U)
        BY <1>1, <1>4 DEF LineStates, Reading
    <3>3. IsLevel(a.att) => [s EXCEPT !.flags.verbose = Levels[a.att]] \in LineStates(U)
      <4>1. IsLevel(a.att) => [s.flags EXCEPT !.verbose = Levels[a.att]] \in Flags(U)
        <5>1. IsLevel(a.att) => Levels[a.att] \in {0, 1, 2}
            BY LevelsTyped
        <5> QED BY <1>1, <5>1 DEF Reading, Flags
      <4> QED BY <1>1, <1>4, <4>1 DEF LineStates, Reading
    <3>4. ParseFlag(s, a) \in LineStates(U)
        BY <2>2, <3>1, <3>2, <3>3 DEF ParseFlag
    <3> QED BY <1>4, <3>4 DEF ParseArg
  <2> QED BY <2>1, <2>2
<1>5. CASE (s.pc = "flags" /\ a.opt = "") \/ s.pc = "rest"
  <2>1. [s EXCEPT !.pc = "rest", !.rest = Append(@, Whole(a))] \in LineStates(U)
    <3>1. Append(s.rest, Whole(a)) \in Seq(Seq(U))
      <4>1. s.rest \in Seq(Seq(U))
          BY <1>1 DEF Reading
      <4> QED BY <1>2, <4>1, ConcatOne
    <3> QED BY <1>1, <3>1 DEF LineStates, Reading
  <2> QED BY <1>5, <2>1 DEF ParseArg
<1>6. CASE s.pc \notin {"value", "flags", "rest"}
    BY <1>6 DEF ParseArg
<1> QED BY <1>3, <1>4, <1>5, <1>6

\* The loop over the arguments.
LineRead(line) == FoldLeft(ParseArg, LineStart, line)

\* ParseLine folds the arguments.
LEMMA LineIsFold ==
  ASSUME NEW U, Literals \subseteq U
  PROVE  IsFold(LineStates(U), Arguments(U), LineStart,
                [a \in Arguments(U) |-> [s \in LineStates(U) |-> ParseArg(s, a)]],
                [line \in Seq(Arguments(U)) |-> LineRead(line)])
<1> DEFINE X == LineStates(U)
           D == Arguments(U)
           b == LineStart
           op(r, a) == ParseArg(r, a)
           Op == [a \in D |-> [r \in X |-> op(r, a)]]
           fold == [line \in Seq(D) |-> LineRead(line)]
<1>1. b \in X
  <2>1. NoText \in Seq(U) /\ <<>> \in Seq(Seq(U))
      BY DEF Literals, NoText
  <2> QED BY <2>1, NoFlagsTyped DEF LineStart, LineStates, Reading
<1>2. ASSUME NEW r \in X, NEW a \in D PROVE op(r, a) \in X
    BY ArgumentTyped
<1> HIDE DEF X, D, b, op
<1>3. Op \in [D -> [X -> X]] /\ \A a \in D, r \in X : Op[a][r] = op(r, a)
    BY <1>2
<1>4. ASSUME NEW s \in Seq(D)
      PROVE  Computed(X, b, Len(s), StepsOver(Op, s), LineRead(s))
  <2> DEFINE Is(c) == c = [u \in SUBSET DOMAIN s |->
                             IF u = {} THEN b ELSE op(c[u \ {Max(u)}], s[Max(u)])]
             c == CHOOSE d : Is(d)
  <2> HIDE DEF Op
  <2>1. PICK d : FoldsOver(X, D, b, Op, s, d)
      BY <1>1, <1>3, FoldOver
  <2>2. Is(d)
      BY <1>3, <2>1 DEF FoldsOver
  <2>3. Is(c)
      BY <2>2
  <2>4. LineRead(s) = c[DOMAIN s]
      BY DEF LineRead, FoldLeft, MapThenFoldSet, Max, op, b
  <2> HIDE DEF c
  <2>5. c[{}] = b /\ \A u \in SUBSET DOMAIN s :
                       u # {} => c[u] = op(c[u \ {Max(u)}], s[Max(u)])
      BY <2>3
  <2>6. \A u \in SUBSET DOMAIN s :
           u # {} /\ s[Max(u)] \in D /\ c[u \ {Max(u)}] \in X
           => c[u] = Op[s[Max(u)]][c[u \ {Max(u)}]]
      BY <1>3, <2>5
  <2>7. Computed(X, b, Len(s), StepsOver(Op, s), c[DOMAIN s])
      BY <1>1, <1>3, <2>5, <2>6, FoldOverAll
  <2> QED BY <2>4, <2>7
<1> HIDE DEF Op
<1>5. IsFold(X, D, b, Op, fold)
  <2>1. fold = [s \in Seq(D) |-> fold[s]] /\ \A s \in Seq(D) : fold[s] = LineRead(s)
      OBVIOUS
  <2> HIDE DEF fold
  <2> QED BY <1>1, <1>3, <1>4, <2>1, FoldByElement
<1> QED BY <1>5 DEF X, D, b, op, Op

\* The flags of a command line are flags.
LEMMA LineTyped ==
  ASSUME NEW U, Literals \subseteq U, NEW line \in Seq(Arguments(U))
  PROVE  ParseLine(line).flags \in Flags(U)
<1> DEFINE fold == [l \in Seq(Arguments(U)) |-> LineRead(l)]
<1>1. fold \in [Seq(Arguments(U)) -> LineStates(U)]
    BY LineIsFold DEF IsFold
<1>2. LineRead(line) \in LineStates(U)
    BY <1>1
<1>3. PICK s \in Reading(U) : s = LineRead(line)
    BY <1>2 DEF LineStates
<1>4. ParseLine(line).flags = s.flags
    BY <1>3 DEF ParseLine, LineRead, Reading
<1> QED BY <1>3, <1>4 DEF Reading

\* A text without a separator is one of the other tokens.
LEMMA NotSeparated ==
  ASSUME NEW U, NEW t \in Seq(U), ~Separated(t)
  PROVE  t \in Seq(U \ {US, RS})
BY DEF Separated

\* So are several of them.
LEMMA CleanTexts ==
  ASSUME NEW U, NEW ts \in Seq(Seq(U)), \A t \in Range(ts) : ~Separated(t)
  PROVE  ts \in Seq(Seq(U \ {US, RS}))
<1> DEFINE V == U \ {US, RS}
<1>1. \A i \in 1 .. Len(ts) : ts[i] \in Seq(U) /\ ts[i] \in Range(ts)
    BY DEF Range
<1>2. \A i \in 1 .. Len(ts) : ts[i] \in Seq(V)
    BY <1>1, NotSeparated DEF V
<1> HIDE DEF V
<1>3. ts \in Seq(Seq(V))
    BY <1>2
<1> QED BY <1>3 DEF V

\* The child applies flags of whatever tokens whose values hold no separator.
LEMMA CleanFlagsArrive ==
  ASSUME NEW U, Literals \subseteq U, NEW f \in Flags(U), ~SomeSeparated(f), NEW env,
         AnyFlag(f) \/ "CALISTO_RUN_FLAGS" \notin DOMAIN env
  PROVE  ChildFlags(f, env) = f
<1> DEFINE V == U \ {US, RS}
<1>1. Literals \subseteq V /\ US \notin V /\ RS \notin V
    BY DEF Literals, US, RS
<1>2. \A ts \in Seq(Seq(U)) : (\A t \in Range(ts) : ~Separated(t)) => ts \in Seq(Seq(V))
    BY CleanTexts
<1>3. f \in Flags(V)
  <2>1. f.dirs \in Seq(Seq(V)) /\ f.libs \in Seq(Seq(V)) /\ f.enc \in Seq(V)
      BY <1>2, NotSeparated DEF Flags, SomeSeparated
  <2> HIDE DEF V
  <2> QED BY <2>1 DEF Flags
<1> HIDE DEF V
<1> QED BY <1>1, <1>3, TripKeepsFlags

\* For every command line and environment: the child applies the flags of the
\* client.
THEOREM FlagsArriveAlways ==
  ASSUME NEW U, Literals \subseteq U, NEW line \in Seq(Arguments(U)), NEW env
  PROVE  FlagsArriveFor(line, env)
BY LineTyped, CleanFlagsArrive DEF FlagsArriveFor

-----------------------------------------------------------------------------
(* The jobs of run and exec.                                                *)

\* A boot that may run in the directory: an app's daemon has no libraries, and
\* the directory names the version of the Ruby.
DirVersion(dir) == IF dir[2] = "apps" THEN dir[6] ELSE dir[3]
Booted(dir, boot) ==
  /\ dir[2] = "apps" => boot.preload = <<>>
  /\ DirVersion(dir) = RubyVersionOf(boot.ruby)
  /\ boot.ruby # InVendor(Unset)

\* The environment is a function from its variables to texts.
Texts(U, env) == env = [v \in DOMAIN env |-> env[v]] /\ \A v \in DOMAIN env : env[v] \in Seq(U)

\* A command line that is neither refused nor a question for the version.
JobOK(U, j) ==
  /\ j.op \in {"RUN", "EVAL"}
  /\ j.flags \in Flags(U)
  /\ Texts(U, j.env)
  /\ EndOf(j.place, j.subject) \in Endings
  /\ j.target.boot.ruby = j.ruby
  /\ Booted(j.target.dir, j.target.boot)

\* The target of a job boots the Ruby of the job.
LEMMA TargetBooted ==
  ASSUME NEW app, NEW env, NEW ruby, ruby # InVendor(Unset), NEW preload
  PROVE  /\ Target(app, env, ruby, preload).boot.ruby = ruby
         /\ Booted(Target(app, env, ruby, preload).dir, Target(app, env, ruby, preload).boot)
<1>1. CASE HasAppDaemon(app)
    BY <1>1 DEF Target, Booted, Boot, DirVersion, AppDir
<1>2. CASE ~HasAppDaemon(app)
    BY <1>2 DEF Target, Booted, Boot, DirVersion, DaemonDirFor
<1> QED BY <1>1, <1>2

\* A job of exec, or of a script of calisto.toml.
LEMMA ExecJobOK ==
  ASSUME NEW U, Literals \subseteq U, NEW p, NEW env, NEW app, NEW ruby, NEW cold, NEW words,
         ruby # InVendor(Unset), Texts(U, env),
         \A s \in DOMAIN p.ends : p.ends[s] \in Endings
  PROVE  /\ ExecJob(p, env, app, ruby, cold, words).how \in {"cold", "warm"}
         /\ JobOK(U, ExecJob(p, env, app, ruby, cold, words))
<1> DEFINE j == ExecJob(p, env, app, ruby, cold, words)
           preload == RunPreload(app, env, GemfileFor(env, p.gemfile))
           t == Target(app, env, ruby, preload)
<1> HIDE DEF preload
<1>1. t.boot.ruby = ruby /\ Booted(t.dir, t.boot)
    BY TargetBooted
<1> HIDE DEF t
<1>2. /\ j.how \in {"cold", "warm"} /\ j.op = "RUN" /\ j.flags = NoFlags /\ j.env = env /\ j.ruby = ruby
      /\ j.place = p /\ j.target = t
    BY DEF ExecJob, t, preload
<1> HIDE DEF j
<1>3. EndOf(j.place, j.subject) \in Endings
    BY <1>2 DEF EndOf, Endings
<1>4. JobOK(U, j)
    BY <1>1, <1>2, <1>3, NoFlagsTyped DEF JobOK
<1> QED BY <1>2, <1>4 DEF j

\* A job of run.
LEMMA ScriptJobOK ==
  ASSUME NEW U, NEW p, NEW env, NEW app, NEW ruby, NEW s, s.flags \in Flags(U),
         ruby # InVendor(Unset), Texts(U, env),
         \A x \in DOMAIN p.ends : p.ends[x] \in Endings
  PROVE  /\ ScriptJob(p, env, app, ruby, s).how \in {"cold", "warm"}
         /\ JobOK(U, ScriptJob(p, env, app, ruby, s))
<1> DEFINE j == ScriptJob(p, env, app, ruby, s)
           preload == IF s.preload # NoText THEN NormalizePreload(s.preload)
                      ELSE RunPreload(app, env, GemfileFor(env, p.gemfile))
           t == Target(app, env, ruby, preload)
<1>2. j.target = t
    BY DEF ScriptJob
<1> HIDE DEF preload
<1>1. t.boot.ruby = ruby /\ Booted(t.dir, t.boot)
    BY TargetBooted
<1> HIDE DEF t
<1>3. /\ j.how \in {"cold", "warm"} /\ j.flags = s.flags /\ j.env = env /\ j.ruby = ruby
      /\ j.place = p /\ j.op \in {"RUN", "EVAL"}
    BY DEF ScriptJob
<1> HIDE DEF j
<1>4. EndOf(j.place, j.subject) \in Endings
    BY <1>3 DEF EndOf, Endings
<1>5. JobOK(U, j)
    BY <1>1, <1>2, <1>3, <1>4 DEF JobOK
<1> QED BY <1>3, <1>5 DEF j

\* .env adds variables with texts.
LEMMA DotenvIsFold ==
  ASSUME NEW T, NEW N, NEW b \in UNION {[E -> T] : E \in SUBSET N}
  PROVE  IsFold(UNION {[E -> T] : E \in SUBSET N}, N \X T, b,
                [p \in N \X T |-> [e \in UNION {[E -> T] : E \in SUBSET N} |->
                   [v \in DOMAIN e \cup {p[1]} |-> IF v \in DOMAIN e THEN e[v] ELSE p[2]]]],
                [pairs \in Seq(N \X T) |-> LoadDotenv(b, pairs)])
<1> DEFINE X == UNION {[E -> T] : E \in SUBSET N}
           D == N \X T
           op(e, p) == [v \in DOMAIN e \cup {p[1]} |-> IF v \in DOMAIN e THEN e[v] ELSE p[2]]
           Op == [p \in D |-> [e \in X |-> op(e, p)]]
           fold == [pairs \in Seq(D) |-> LoadDotenv(b, pairs)]
<1>1. b \in X
    OBVIOUS
<1>2. ASSUME NEW e \in X, NEW p \in D PROVE op(e, p) \in X
  <2>1. PICK E \in SUBSET N : e \in [E -> T]
      OBVIOUS
  <2>2. DOMAIN e = E /\ p[1] \in N /\ p[2] \in T
      BY <2>1
  <2>3. op(e, p) \in [E \cup {p[1]} -> T] /\ E \cup {p[1]} \in SUBSET N
      BY <2>1, <2>2
  <2> HIDE DEF op
  <2> QED BY <2>3
<1> HIDE DEF X, D, op
<1>3. Op \in [D -> [X -> X]] /\ \A p \in D, e \in X : Op[p][e] = op(e, p)
    BY <1>2
<1>4. ASSUME NEW s \in Seq(D)
      PROVE  Computed(X, b, Len(s), StepsOver(Op, s), LoadDotenv(b, s))
  <2> DEFINE Is(c) == c = [u \in SUBSET DOMAIN s |->
                             IF u = {} THEN b ELSE op(c[u \ {Max(u)}], s[Max(u)])]
             c == CHOOSE d : Is(d)
  <2> HIDE DEF Op
  <2>1. PICK d : FoldsOver(X, D, b, Op, s, d)
      BY <1>1, <1>3, FoldOver
  <2>2. Is(d)
      BY <1>3, <2>1 DEF FoldsOver
  <2>3. Is(c)
      BY <2>2
  <2>4. LoadDotenv(b, s) = c[DOMAIN s]
      BY DEF LoadDotenv, FoldLeft, MapThenFoldSet, Max, op
  <2> HIDE DEF c
  <2>5. c[{}] = b /\ \A u \in SUBSET DOMAIN s :
                       u # {} => c[u] = op(c[u \ {Max(u)}], s[Max(u)])
      BY <2>3
  <2>6. \A u \in SUBSET DOMAIN s :
           u # {} /\ s[Max(u)] \in D /\ c[u \ {Max(u)}] \in X
           => c[u] = Op[s[Max(u)]][c[u \ {Max(u)}]]
      BY <1>3, <2>5
  <2>7. Computed(X, b, Len(s), StepsOver(Op, s), c[DOMAIN s])
      BY <1>1, <1>3, <2>5, <2>6, FoldOverAll
  <2> QED BY <2>4, <2>7
<1> HIDE DEF Op
<1>5. IsFold(X, D, b, Op, fold)
  <2>1. fold = [s \in Seq(D) |-> fold[s]] /\ \A s \in Seq(D) : fold[s] = LoadDotenv(b, s)
      OBVIOUS
  <2> HIDE DEF fold
  <2> QED BY <1>1, <1>3, <1>4, <2>1, FoldByElement
<1> QED BY <1>5 DEF X, D, op, Op

\* The texts of a command with a .env are texts.
LEMMA DotenvTyped ==
  ASSUME NEW U, NEW env, env \in [DOMAIN env -> Seq(U)], NEW pairs \in Seq(U \X Seq(U))
  PROVE  Texts(U, LoadDotenv(env, pairs))
<1> DEFINE T == Seq(U)
           N == DOMAIN env \cup U
           X == UNION {[E -> T] : E \in SUBSET N}
           fold == [ps \in Seq(N \X T) |-> LoadDotenv(env, ps)]
<1>1. env \in X /\ pairs \in Seq(N \X T)
  <2>1. env \in [DOMAIN env -> T] /\ DOMAIN env \in SUBSET N
      OBVIOUS
  <2>2. \A i \in 1 .. Len(pairs) : pairs[i] \in N \X T
      OBVIOUS
  <2>3. pairs \in Seq(N \X T)
      BY <2>2
  <2> HIDE DEF N, T
  <2> QED BY <2>1, <2>3
<1>2. fold \in [Seq(N \X T) -> X]
  <2> DEFINE Op == [p \in N \X T |-> [e \in X |->
                     [v \in DOMAIN e \cup {p[1]} |-> IF v \in DOMAIN e THEN e[v] ELSE p[2]]]]
  <2> HIDE DEF N, T
  <2>1. IsFold(X, N \X T, env, Op, fold)
      BY <1>1, DotenvIsFold
  <2> HIDE DEF X, Op, fold
  <2> QED BY <2>1 DEF IsFold
<1>3. LoadDotenv(env, pairs) \in X
    BY <1>1, <1>2
<1> HIDE DEF T, N
<1>4. PICK e \in X : e = LoadDotenv(env, pairs)
    BY <1>3
<1>5. Texts(U, e)
    BY DEF T, Texts
<1> QED BY <1>4, <1>5

\* The Ruby of a place has a version or none, where it has a Ruby.
LEMMA RubyResolved ==
  ASSUME PinAssumption, NEW U, Literals \subseteq U, Unset \notin U, NEW p, NEW env,
         \A v \in DOMAIN env : env[v] \in Seq(U), ResolveRuby(p, env) # Unset
  PROVE  ResolveRuby(p, env) # InVendor(Unset)
<1> DEFINE asked == AskedVersion(p, env)
           own == EnvText(env, "CALISTO_RUBY")
<1>1. own \in Seq(U)
  <2>1. NoText \in Seq(U)
      BY DEF NoText, Literals
  <2> QED BY <2>1 DEF EnvText
<1> HIDE DEF own, asked
<1>2. own # InVendor(Unset)
  <2>1. InVendor(Unset)[3] = Unset /\ Len(InVendor(Unset)) = 3
      BY DEF InVendor
  <2>2. ASSUME own = InVendor(Unset) PROVE FALSE
    <3>1. PICK w \in Seq(U) : w = own
        BY <1>1
    <3>2. Len(w) = 3 /\ w[3] = Unset
        BY <2>1, <2>2, <3>1
    <3>3. w[3] \in U
        BY <3>2
    <3> QED BY <3>2, <3>3
  <2> QED BY <2>2
<1>3. \A v : v # Unset => InVendor(v) # InVendor(Unset)
  <2>1. \A v : InVendor(v)[3] = v
      BY DEF InVendor
  <2> QED BY <2>1
<1>4. <<"vendor", "current">> # InVendor(Unset) /\ <<"PATH">> # InVendor(Unset)
  <2>1. /\ <<"vendor", "current">>[2] = "current" /\ <<"PATH">>[1] = "PATH"
        /\ InVendor(Unset)[1] = "vendor" /\ InVendor(Unset)[2] = "ruby-"
      BY DEF InVendor
  <2> QED BY <2>1
<1>5. CASE own \in p.files
    BY <1>2, <1>5 DEF ResolveRuby, own
<1>6. CASE own \notin p.files /\ asked # Unset
    BY <1>3, <1>6 DEF ResolveRuby, VendorRuby, own, asked
<1>7. CASE own \notin p.files /\ asked = Unset
    BY <1>3, <1>4, <1>7 DEF ResolveRuby, own, asked, PinAssumption
<1> QED BY <1>5, <1>6, <1>7

\* What a command is started with.
Setting(U, p, env, ruby) ==
  /\ ruby # Unset => ruby # InVendor(Unset)
  /\ Texts(U, env)
  /\ \A x \in DOMAIN p.ends : p.ends[x] \in Endings

\* What a command line comes to.
Known(U, j) ==
  /\ j.how \in {"cold", "warm", "refused", "version"}
  /\ j.how \in {"cold", "warm"} => JobOK(U, j)

\* A job of exec is known,
LEMMA ExecJobKnown ==
  ASSUME NEW U, Literals \subseteq U, NEW p, NEW env, NEW app, NEW ruby, NEW cold, NEW words,
         ruby # Unset, Setting(U, p, env, ruby)
  PROVE  Known(U, ExecJob(p, env, app, ruby, cold, words))
BY ExecJobOK DEF Known, Setting

\* so is what a command line of run comes to,
LEMMA RunJobKnown ==
  ASSUME NEW U, Literals \subseteq U, NEW p, NEW env, NEW app, NEW ruby, NEW line \in Seq(Arguments(U)),
         Setting(U, p, env, ruby)
  PROVE  Known(U, RunJob(p, env, app, ruby, line))
<1> DEFINE s == ParseLine(line)
           named == s.evals = <<>> /\ (s.rest = <<>> \/ s.rest[1] \notin p.files)
           words == IF app = Unset THEN Unset
                    ELSE ScriptCommand(app, IF s.rest = <<>> THEN <<"start">> ELSE s.rest[1])
           all == words \o IF s.rest = <<>> THEN <<>> ELSE Tail(s.rest)
           may == (app # Unset => app.ok) /\ ruby # Unset
           j == RunJob(p, env, app, ruby, line)
<1>1. j = CASE s.pc = "refused" -> Refused
            [] s.pc = "version" -> IF ruby = Unset THEN Refused ELSE [how |-> "version"]
            [] s.pc = "rest" /\ (app # Unset => app.ok) /\ ruby # Unset /\ ~named ->
                 ScriptJob(p, env, app, ruby, s)
            [] s.pc = "rest" /\ (app # Unset => app.ok) /\ ruby # Unset /\ named
                 /\ words \notin {Unset, <<>>} /\ ~AnyFlag(s.flags) ->
                 ExecJob(p, env, app, ruby, s.cold, all)
            [] OTHER -> Refused
    BY DEF RunJob
<1>2. s.flags \in Flags(U)
    BY LineTyped
<1> HIDE DEF s, j, words, named, all
<1>3. \/ j = Refused \/ j = [how |-> "version"]
      \/ ruby # Unset /\ j = ScriptJob(p, env, app, ruby, s)
      \/ ruby # Unset /\ j = ExecJob(p, env, app, ruby, s.cold, all)
    BY <1>1
<1>4. CASE ruby # Unset
  <2>1. Known(U, ScriptJob(p, env, app, ruby, s))
      BY <1>2, <1>4, ScriptJobOK DEF Known, Setting
  <2>2. Known(U, ExecJob(p, env, app, ruby, s.cold, all))
      BY <1>4, ExecJobOK DEF Known, Setting
  <2>3. Known(U, Refused) /\ Known(U, [how |-> "version"])
      BY DEF Known, Refused
  <2>4. Known(U, j)
      BY <1>3, <2>1, <2>2, <2>3
  <2> QED BY <2>4 DEF j
<1>5. CASE ruby = Unset
  <2>1. Known(U, Refused) /\ Known(U, [how |-> "version"])
      BY DEF Known, Refused
  <2>2. Known(U, j)
      BY <1>3, <1>5, <2>1
  <2> QED BY <2>2 DEF j
<1> QED BY <1>4, <1>5

\* and one of exec.
LEMMA ExecCommandKnown ==
  ASSUME NEW U, Literals \subseteq U, NEW p, NEW env, NEW app, NEW ruby, NEW words,
         Setting(U, p, env, ruby)
  PROVE  Known(U, ExecCommand(p, env, app, ruby, words))
<1>1. Known(U, Refused)
    BY DEF Known, Refused
<1>2. ruby # Unset => Known(U, ExecJob(p, env, app, ruby, FALSE, words))
    BY ExecJobKnown
<1> QED BY <1>1, <1>2 DEF ExecCommand

\* A command is started with its environment, and that of .env.
LEMMA PlaceSettings ==
  ASSUME RunAssumption, PinAssumption, NEW p \in Places, NEW env, env \in {p.env, LoadDotenv(p.env, p.dotenv)}
  PROVE  /\ Texts(Tokens, env)
         /\ ResolveRuby(p, env) # Unset => ResolveRuby(p, env) # InVendor(Unset)
<1>1. /\ Literals \subseteq Tokens /\ Unset \notin Tokens
      /\ p.env \in [DOMAIN p.env -> Seq(Tokens)] /\ p.dotenv \in Seq(Tokens \X Seq(Tokens))
    BY DEF RunAssumption
<1>2. PICK own, pairs : own = p.env /\ pairs = p.dotenv
    OBVIOUS
<1>3. own \in [DOMAIN own -> Seq(Tokens)] /\ pairs \in Seq(Tokens \X Seq(Tokens))
    BY <1>1, <1>2
<1>4. Texts(Tokens, LoadDotenv(own, pairs))
    BY <1>3, DotenvTyped
<1>5. Texts(Tokens, own)
    BY <1>3 DEF Texts
<1>6. env = own \/ env = LoadDotenv(own, pairs)
    BY <1>2
<1>7. Texts(Tokens, env)
  <2>1. CASE env = own
      BY <1>5, <2>1
  <2>2. CASE env = LoadDotenv(own, pairs)
      BY <1>4, <2>2
  <2> QED BY <1>6, <2>1, <2>2
<1>8. ResolveRuby(p, env) # Unset => ResolveRuby(p, env) # InVendor(Unset)
    BY <1>1, <1>7, RubyResolved DEF Texts
<1> QED BY <1>7, <1>8

\* What a command comes to in a place.
LEMMA JobForKnown ==
  ASSUME RunAssumption, PinAssumption, NEW p \in Places, NEW line \in Lines
  PROVE  Known(Tokens, JobFor(p, line))
<1>1. PICK env : env = LoadDotenv(p.env, p.dotenv)
    OBVIOUS
<1>2. PICK e : e = IF line[1] = "run" /\ ParseLine(line[2]).pc = "version" THEN p.env ELSE env
    OBVIOUS
<1>3. PICK ruby : ruby = ResolveRuby(p, e)
    OBVIOUS
<1>4. PICK app : app = LoadApp(p)
    OBVIOUS
<1>5. PICK words : words = line[2]
    OBVIOUS
<1>6. JobFor(p, line) = IF line[1] = "run" THEN RunJob(p, env, app, ruby, words)
                        ELSE ExecCommand(p, env, app, ruby, words)
    BY <1>1, <1>2, <1>3, <1>4, <1>5 DEF JobFor
<1>7. Setting(Tokens, p, env, ruby)
  <2>1. Texts(Tokens, env)
      BY <1>1, PlaceSettings
  <2>2. ruby # Unset => ruby # InVendor(Unset)
    <3>2. e \in {p.env, LoadDotenv(p.env, p.dotenv)}
        BY <1>1, <1>2
    <3>3. ResolveRuby(p, e) # Unset => ResolveRuby(p, e) # InVendor(Unset)
        BY <3>2, PlaceSettings
    <3> QED BY <1>3, <3>3
  <2>3. \A x \in DOMAIN p.ends : p.ends[x] \in Endings
      BY DEF RunAssumption
  <2> QED BY <2>1, <2>2, <2>3 DEF Setting
<1>8. Literals \subseteq Tokens /\ (line[1] = "run" => words \in Seq(Arguments(Tokens)))
    BY <1>5 DEF RunAssumption
<1>9. line[1] = "run" => Known(Tokens, RunJob(p, env, app, ruby, words))
    BY <1>7, <1>8, RunJobKnown
<1>10. Known(Tokens, ExecCommand(p, env, app, ruby, words))
    BY <1>7, <1>8, ExecCommandKnown
<1> QED BY <1>6, <1>9, <1>10

-----------------------------------------------------------------------------
(* The steps of run and exec.                                               *)

\* A script that was served by a daemon that is still there saw what its child
\* shows.
Served ==
  runPc = "ended" /\ job.how = "warm" /\ outcome.stage \notin {"connect", "closed"}
  /\ job.target.dir \in DOMAIN daemons
  => outcome = Child(daemons[job.target.dir], job)

RunInv ==
  /\ RunTypeOK
  /\ runPc \in {"ready", "connected"} => job.how \in {"cold", "warm"}
  /\ job.how = "warm" => JobOK(Tokens, job)
  /\ \A d \in DOMAIN daemons : Booted(d, daemons[d])
  /\ Served

\* What a script comes to has a stage.
LEMMA OutcomesHaveStages ==
  /\ \A boot, j : Child(boot, j) # None
  /\ \A j : Cold(j) # None
  /\ \A stage, status : Stopped(stage, status) # None /\ Stopped(stage, status).stage = stage
<1> DEFINE Staged(x) == "stage" \in DOMAIN x
<1>1. \A x : Staged(x) => x # None
    BY DEF None
<1>2. \A stage, status : Staged(Stopped(stage, status)) /\ Stopped(stage, status).stage = stage
    BY DEF Stopped
<1>3. ASSUME NEW k, NEW a, NEW b, NEW c PROVE Staged(Seen(k, a, b, c))
    BY DEF Seen
<1> HIDE DEF Staged
<1>4. ASSUME NEW boot, NEW j PROVE Staged(Child(boot, j))
    BY <1>2, <1>3 DEF Child
<1>5. ASSUME NEW j PROVE Staged(Cold(j))
    BY <1>2, <1>3 DEF Cold
<1> QED BY <1>1, <1>2, <1>4, <1>5

\* The daemons of apps have no libraries.
LEMMA BootedPreload ==
  ASSUME NEW ds, \A d \in DOMAIN ds : Booted(d, ds[d])
  PROVE  \A d \in DOMAIN ds : d[2] = "apps" => ds[d].preload = <<>>
BY DEF Booted

\* The invariant holds before the first command,
LEMMA RunInitHolds == RunInit => RunInv
BY DEF RunInit, RunInv, RunTypeOK, Served, None

\* is kept when a command is read,
LEMMA StartHolds ==
  ASSUME RunAssumption, PinAssumption, RunInv, NEW p \in Places, NEW line \in Lines, Start(p, line)
  PROVE  RunInv'
<1>1. Known(Tokens, job')
    BY JobForKnown DEF Start
<1>2. job' # None
    BY <1>1 DEF Known, None
<1>3. CASE job'.how \in {"cold", "warm"}
    BY <1>1, <1>2, <1>3 DEF Start, RunInv, RunTypeOK, Served, Known
<1>4. CASE job'.how \notin {"cold", "warm"}
  <2>1. outcome' # None
    <3>1. PICK stage, status : outcome' = Stopped(stage, status)
        BY <1>4 DEF Start
    <3> QED BY <3>1, OutcomesHaveStages
  <2> QED BY <1>2, <1>4, <2>1 DEF Start, RunInv, RunTypeOK, Served, Known
<1> QED BY <1>3, <1>4

\* and by every step.
LEMMA RunCommandStep ==
  ASSUME RunAssumption, PinAssumption, RunInv, [RunNext]_runVars
  PROVE  RunInv'
<1>1. ASSUME NEW p \in Places, NEW line \in Lines, Start(p, line) PROVE RunInv'
    BY <1>1, StartHolds
<1>2. CASE RunCold
  <2>1. outcome' # None
      BY <1>2, OutcomesHaveStages DEF RunCold
  <2> QED BY <1>2, <2>1 DEF RunCold, RunInv, RunTypeOK, Served
<1>3. CASE OverrideRefused
    BY <1>3, OutcomesHaveStages DEF OverrideRefused, RunInv, RunTypeOK, Served
<1>4. CASE Connect
    BY <1>4 DEF Connect, Connecting, RunInv, RunTypeOK, Served
<1>5. CASE Spawn
  <2>1. \A d \in DOMAIN daemons' : Booted(d, daemons'[d])
    BY <1>5 DEF Spawn, Connecting, RunInv, JobOK
  <2>2. \A d \in DOMAIN daemons' : d[2] = "apps" => daemons'[d].preload = <<>>
    BY <2>1, BootedPreload
  <2>3. runPc' = "connected" /\ job' = job /\ outcome' = outcome /\ job.how = "warm" /\ runPc = "ready"
    BY <1>5 DEF Spawn, Connecting
  <2>4. RunTypeOK'
    BY <2>2, <2>3 DEF RunInv, RunTypeOK
  <2> QED BY <2>1, <2>3, <2>4 DEF RunInv, Served
<1>6. CASE SpawnFails
    BY <1>6, OutcomesHaveStages DEF SpawnFails, Connecting, RunInv, RunTypeOK, Served
<1>7. CASE Serve
  <2>1. CASE job.target.dir \in DOMAIN daemons
      BY <1>7, <2>1, OutcomesHaveStages DEF Serve, RunInv, RunTypeOK, Served
  <2>2. CASE job.target.dir \notin DOMAIN daemons
      BY <1>7, <2>2, OutcomesHaveStages DEF Serve, RunInv, RunTypeOK, Served
  <2> QED BY <2>1, <2>2
<1>8. CASE Exit
    BY <1>8 DEF Exit, RunInv, RunTypeOK, Served, None
<1>9. ASSUME NEW d \in DOMAIN daemons, DaemonEnds(d) PROVE RunInv'
    BY <1>9 DEF DaemonEnds, RunInv, RunTypeOK, Served
<1>10. CASE UNCHANGED runVars
    BY <1>10 DEF runVars, RunInv, RunTypeOK, Served
<1> QED BY <1>1, <1>2, <1>3, <1>4, <1>5, <1>6, <1>7, <1>8, <1>9, <1>10 DEF RunNext

-----------------------------------------------------------------------------
(* What a script sees through a warm daemon and through the interpreter.    *)

\* The options of ruby that run_cold writes, and what ruby makes of them.
Options(U) ==
  {a \in [opt : {"-w", "-W", "-I", "-r", "-E", "-c"}, att : Seq(U)] :
     a.opt = "-W" => IsLevel(a.att)}
RubyStates(U) ==
  [verbose : {"false", "true", "nil"}, enc : Seq(U), dirs : Seq(Seq(U)), libs : Seq(Seq(U)),
   check : BOOLEAN]
RubyOf(v, e, d, l, c) == [verbose |-> v, enc |-> e, dirs |-> d, libs |-> l, check |-> c]
Option(o, t) == [opt |-> o, att |-> t]

\* One option.
LEMMA OptionTyped ==
  ASSUME NEW U, NEW r \in RubyStates(U), NEW a \in Options(U)
  PROVE  RubyArg(r, a) \in RubyStates(U)
<1>1. a.att \in Seq(U) /\ \A ts \in Seq(Seq(U)) : Append(ts, a.att) \in Seq(Seq(U))
    BY DEF Options
<1>2. /\ a.opt \in {"-w", "-W", "-I", "-r", "-E", "-c"}
      /\ a.opt = "-W" => a.att \in {<<"0">>, <<"1">>, <<"2">>}
    BY DEF Options, IsLevel, Levels
<1>3. /\ [r EXCEPT !.verbose = "true"] \in RubyStates(U)
      /\ [r EXCEPT !.verbose = "false"] \in RubyStates(U)
      /\ [r EXCEPT !.verbose = "nil"] \in RubyStates(U)
      /\ [r EXCEPT !.dirs = Append(@, a.att)] \in RubyStates(U)
      /\ [r EXCEPT !.libs = Append(@, a.att)] \in RubyStates(U)
      /\ [r EXCEPT !.enc = a.att] \in RubyStates(U)
      /\ [r EXCEPT !.check = TRUE] \in RubyStates(U)
    BY <1>1 DEF RubyStates
<1> QED BY <1>2, <1>3 DEF RubyArg

\* The arguments, one after the other.
RubyAfter(args) == FoldLeft(RubyArg, RubyStart, args)

\* ruby folds them.
LEMMA RubyIsFold ==
  ASSUME NEW U, Literals \subseteq U
  PROVE  IsFold(RubyStates(U), Options(U), RubyStart,
                [a \in Options(U) |-> [r \in RubyStates(U) |-> RubyArg(r, a)]],
                [args \in Seq(Options(U)) |-> RubyAfter(args)])
<1> DEFINE X == RubyStates(U)
           D == Options(U)
           b == RubyStart
           op(r, a) == RubyArg(r, a)
           Op == [a \in D |-> [r \in X |-> op(r, a)]]
           fold == [args \in Seq(D) |-> RubyAfter(args)]
<1>1. b \in X
  <2>1. NoText \in Seq(U) /\ <<>> \in Seq(Seq(U))
      BY DEF NoText, Literals
  <2> QED BY <2>1 DEF RubyStates, RubyStart
<1>2. ASSUME NEW r \in X, NEW a \in D PROVE op(r, a) \in X
    BY OptionTyped
<1> HIDE DEF X, D, b, op
<1>3. Op \in [D -> [X -> X]] /\ \A a \in D, r \in X : Op[a][r] = op(r, a)
    BY <1>2
<1>4. ASSUME NEW s \in Seq(D)
      PROVE  Computed(X, b, Len(s), StepsOver(Op, s), RubyAfter(s))
  <2> DEFINE Is(c) == c = [u \in SUBSET DOMAIN s |->
                             IF u = {} THEN b ELSE op(c[u \ {Max(u)}], s[Max(u)])]
             c == CHOOSE d : Is(d)
  <2> HIDE DEF Op
  <2>1. PICK d : FoldsOver(X, D, b, Op, s, d)
      BY <1>1, <1>3, FoldOver
  <2>2. Is(d)
      BY <1>3, <2>1 DEF FoldsOver
  <2>3. Is(c)
      BY <2>2
  <2>4. RubyAfter(s) = c[DOMAIN s]
      BY DEF RubyAfter, FoldLeft, MapThenFoldSet, Max, op, b
  <2> HIDE DEF c
  <2>5. c[{}] = b /\ \A u \in SUBSET DOMAIN s :
                       u # {} => c[u] = op(c[u \ {Max(u)}], s[Max(u)])
      BY <2>3
  <2>6. \A u \in SUBSET DOMAIN s :
           u # {} /\ s[Max(u)] \in D /\ c[u \ {Max(u)}] \in X
           => c[u] = Op[s[Max(u)]][c[u \ {Max(u)}]]
      BY <1>3, <2>5
  <2>7. Computed(X, b, Len(s), StepsOver(Op, s), c[DOMAIN s])
      BY <1>1, <1>3, <2>5, <2>6, FoldOverAll
  <2> QED BY <2>4, <2>7
<1> HIDE DEF Op
<1>5. IsFold(X, D, b, Op, fold)
  <2>1. fold = [s \in Seq(D) |-> fold[s]] /\ \A s \in Seq(D) : fold[s] = RubyAfter(s)
      OBVIOUS
  <2> HIDE DEF fold
  <2> QED BY <1>1, <1>3, <1>4, <2>1, FoldByElement
<1> QED BY <1>5 DEF X, D, b, op, Op

\* It starts without any, and reads one after the other.
LEMMA RubyAfterFacts ==
  ASSUME NEW U, Literals \subseteq U
  PROVE  /\ RubyAfter(<<>>) = RubyStart
         /\ \A args \in Seq(Options(U)), a \in Options(U) :
              RubyAfter(Append(args, a)) = RubyArg(RubyAfter(args), a)
<1> DEFINE X == RubyStates(U)
           D == Options(U)
           Op == [a \in D |-> [r \in X |-> RubyArg(r, a)]]
           fold == [args \in Seq(D) |-> RubyAfter(args)]
<1>1. IsFold(X, D, RubyStart, Op, fold)
    BY RubyIsFold
<1> HIDE DEF X, D
<1>2. RubyAfter(<<>>) = RubyStart
  <2>1. <<>> \in Seq(D)
      OBVIOUS
  <2>2. fold[<<>>] = RubyStart
      BY <1>1 DEF IsFold
  <2> QED BY <2>1, <2>2
<1>3. ASSUME NEW args \in Seq(D), NEW a \in D
      PROVE  RubyAfter(Append(args, a)) = RubyArg(RubyAfter(args), a)
  <2>1. fold[Append(args, a)] = Op[a][fold[args]] /\ fold[args] \in X
      BY <1>1 DEF IsFold
  <2>2. fold[args] = RubyAfter(args) /\ fold[Append(args, a)] = RubyAfter(Append(args, a))
      BY ConcatOne
  <2> HIDE DEF fold
  <2>3. Op[a][fold[args]] = RubyArg(fold[args], a)
      BY <2>1
  <2> QED BY <2>1, <2>2, <2>3
<1> QED BY <1>2, <1>3 DEF D

\* After these arguments ruby is in the state r.
Starts(U, args, r) == args \in Seq(Options(U)) /\ RubyAfter(args) = r

\* One more argument.
LEMMA StartsMore ==
  ASSUME NEW U, Literals \subseteq U, NEW args, NEW r, Starts(U, args, r), NEW a \in Options(U)
  PROVE  Starts(U, Append(args, a), RubyArg(r, a))
<1>1. args \in Seq(Options(U)) /\ RubyAfter(args) = r
    BY DEF Starts
<1>2. RubyAfter(Append(args, a)) = RubyArg(r, a)
    BY <1>1, RubyAfterFacts
<1>3. Append(args, a) \in Seq(Options(U))
    BY <1>1
<1> QED BY <1>2, <1>3 DEF Starts

\* An argument that is there or not.
LEMMA StartsWhen ==
  ASSUME NEW U, Literals \subseteq U, NEW args, NEW r, Starts(U, args, r),
         NEW cond \in BOOLEAN, NEW a, cond => a \in Options(U)
  PROVE  Starts(U, args \o When(cond, a), IF cond THEN RubyArg(r, a) ELSE r)
<1>1. args \in Seq(Options(U))
    BY DEF Starts
<1>2. CASE cond
  <2>1. args \o When(cond, a) = Append(args, a)
      BY <1>1, <1>2, ConcatOne DEF When
  <2>2. Starts(U, Append(args, a), RubyArg(r, a))
      BY <1>2, StartsMore
  <2> QED BY <1>2, <2>1, <2>2
<1>3. CASE ~cond
  <2>1. args \o When(cond, a) = args
      BY <1>1, <1>3, ConcatEmpty DEF When
  <2> QED BY <1>3, <2>1
<1> QED BY <1>2, <1>3

\* One option for each text.
Each(o, ts) == [i \in DOMAIN ts |-> Option(o, ts[i])]

\* One text after the other.
LEMMA EachFacts ==
  ASSUME NEW U, NEW o \in {"-I", "-r"}
  PROVE  /\ Each(o, <<>>) = <<>>
         /\ \A ts \in Seq(Seq(U)) : Each(o, ts) \in Seq(Options(U))
         /\ \A t \in Seq(U) : Option(o, t) \in Options(U)
         /\ \A ts \in Seq(Seq(U)), t \in Seq(U) :
              Each(o, Append(ts, t)) = Append(Each(o, ts), Option(o, t))
<1>1. Each(o, <<>>) = <<>>
    BY DEF Each
<1> DEFINE one(t) == Option(o, t)
           T == Seq(U)
           A == Options(U)
<1>2. \A t \in T : one(t) \in A
    BY DEF Option, Options
<1>3. \A ts : Each(o, ts) = [i \in DOMAIN ts |-> one(ts[i])]
    BY DEF Each
<1> HIDE DEF one, T, A
<1>4. ASSUME NEW ts \in Seq(T)
      PROVE  /\ Each(o, ts) \in Seq(A) /\ Len(Each(o, ts)) = Len(ts)
             /\ \A i \in 1 .. Len(ts) : Each(o, ts)[i] = one(ts[i])
  <2>1. PICK n \in Nat : n = Len(ts) /\ DOMAIN ts = 1 .. n
      OBVIOUS
  <2>2. \A i \in 1 .. n : ts[i] \in T
      BY <2>1
  <2>3. Each(o, ts) = [i \in 1 .. n |-> one(ts[i])]
      BY <1>3, <2>1
  <2>4. Each(o, ts) \in [1 .. n -> A]
      BY <1>2, <2>2, <2>3
  <2>5. Each(o, ts) \in Seq(A) /\ Len(Each(o, ts)) = n
      BY <2>4
  <2>6. \A i \in 1 .. n : Each(o, ts)[i] = one(ts[i])
      BY <2>3
  <2> QED BY <2>1, <2>5, <2>6
<1>5. ASSUME NEW ts \in Seq(T), NEW t \in T
      PROVE  Each(o, Append(ts, t)) = Append(Each(o, ts), one(t))
  <2> DEFINE ws == Append(ts, t)
             a == Each(o, ws)
             b == Append(Each(o, ts), one(t))
  <2>1. PICK n \in Nat : n = Len(ts)
      OBVIOUS
  <2>2. /\ ws \in Seq(T) /\ Len(ws) = n + 1 /\ ws[n + 1] = t
        /\ \A i \in 1 .. n : ws[i] = ts[i]
      BY <2>1
  <2> HIDE DEF ws
  <2>3. /\ a \in Seq(A) /\ Len(a) = n + 1
        /\ \A i \in 1 .. n + 1 : a[i] = one(ws[i])
      BY <1>4, <2>2
  <2>4. /\ b \in Seq(A) /\ Len(b) = n + 1 /\ b[n + 1] = one(t)
        /\ \A i \in 1 .. n : b[i] = Each(o, ts)[i]
      BY <1>2, <1>4, <2>1
  <2>5. \A i \in 1 .. n : Each(o, ts)[i] = one(ts[i])
      BY <1>4, <2>1
  <2> HIDE DEF a, b
  <2>6. \A i \in 1 .. n + 1 : a[i] = b[i]
      BY <2>2, <2>3, <2>4, <2>5
  <2>7. a = b
      BY <2>3, <2>4, <2>6
  <2> QED BY <2>7 DEF a, b, ws
<1> QED BY <1>1, <1>2, <1>4, <1>5 DEF one, T, A

\* The directories of -I are added in their order.
LEMMA StartsDirs ==
  ASSUME NEW U, Literals \subseteq U, NEW args, NEW v, NEW e, NEW l, NEW c,
         Starts(U, args, RubyOf(v, e, <<>>, l, c)), NEW ds \in Seq(Seq(U))
  PROVE  Starts(U, args \o Each("-I", ds), RubyOf(v, e, ds, l, c))
<1> DEFINE Now(s) == RubyOf(v, e, s, l, c)
           R == {s \in Seq(Seq(U)) : Starts(U, args \o Each("-I", s), Now(s))}
<1>2. args \in Seq(Options(U))
    BY DEF Starts
<1>3. <<>> \in R
  <2>1. args \o Each("-I", <<>>) = args
      BY <1>2, EachFacts, ConcatEmpty
  <2>2. Starts(U, args \o Each("-I", <<>>), Now(<<>>))
      BY <2>1
  <2>3. <<>> \in Seq(Seq(U))
      OBVIOUS
  <2> QED BY <2>2, <2>3
<1>4. ASSUME NEW s \in Seq(Seq(U)), NEW t \in Seq(U), s \in R PROVE Append(s, t) \in R
  <2> DEFINE L == Each("-I", s)
             K == args \o L
             w == Option("-I", t)
  <2>1. Starts(U, K, Now(s)) /\ Append(s, t) \in Seq(Seq(U))
      BY <1>4
  <2>2. L \in Seq(Options(U)) /\ w \in Options(U) /\ Each("-I", Append(s, t)) = Append(L, w)
      BY EachFacts
  <2>3. RubyArg(Now(s), w) = Now(Append(s, t))
      BY DEF RubyArg, RubyOf, Option
  <2> HIDE DEF L, w, Now
  <2>4. args \o Append(L, w) = Append(K, w)
      BY <1>2, <2>2, ConcatAppend
  <2> HIDE DEF K
  <2>5. Starts(U, Append(K, w), RubyArg(Now(s), w))
      BY <2>1, <2>2, StartsMore
  <2> QED BY <2>1, <2>2, <2>3, <2>4, <2>5
<1> HIDE DEF R
<1>5. \A s \in Seq(Seq(U)), t \in Seq(U) : s \in R => Append(s, t) \in R
    BY <1>4
<1>6. ds \in R
    BY <1>3, <1>5, AppendInduction
<1> QED BY <1>6 DEF R

\* So are the libraries of -r, after those that are there.
LEMMA StartsLibs ==
  ASSUME NEW U, Literals \subseteq U, NEW args, NEW v, NEW e, NEW d, NEW l \in Seq(Seq(U)), NEW c,
         Starts(U, args, RubyOf(v, e, d, l, c)), NEW ls \in Seq(Seq(U))
  PROVE  Starts(U, args \o Each("-r", ls), RubyOf(v, e, d, l \o ls, c))
<1> DEFINE Now(s) == RubyOf(v, e, d, l \o s, c)
           R == {s \in Seq(Seq(U)) : Starts(U, args \o Each("-r", s), Now(s))}
<1>2. args \in Seq(Options(U))
    BY DEF Starts
<1>3. <<>> \in R
  <2>1. args \o Each("-r", <<>>) = args
      BY <1>2, EachFacts, ConcatEmpty
  <2>2. Now(<<>>) = RubyOf(v, e, d, l, c)
      BY ConcatEmpty
  <2>3. <<>> \in Seq(Seq(U))
      OBVIOUS
  <2> HIDE DEF Now
  <2>4. Starts(U, args \o Each("-r", <<>>), Now(<<>>))
      BY <2>1, <2>2
  <2> QED BY <2>4, <2>3
<1>4. ASSUME NEW s \in Seq(Seq(U)), NEW t \in Seq(U), s \in R PROVE Append(s, t) \in R
  <2> DEFINE L == Each("-r", s)
             K == args \o L
             w == Option("-r", t)
  <2>1. Starts(U, K, Now(s)) /\ Append(s, t) \in Seq(Seq(U))
    <3>1. Append(s, t) \in Seq(Seq(U))
        OBVIOUS
    <3> HIDE DEF Now
    <3> QED BY <1>4, <3>1
  <2>2. L \in Seq(Options(U)) /\ w \in Options(U) /\ Each("-r", Append(s, t)) = Append(L, w)
      BY EachFacts
  <2>3. RubyArg(Now(s), w) = Now(Append(s, t))
    <3>1. \A b : RubyArg(RubyOf(v, e, d, b, c), w) = RubyOf(v, e, d, Append(b, t), c)
        BY DEF RubyArg, RubyOf, Option
    <3>2. l \o Append(s, t) = Append(l \o s, t)
        BY ConcatAppend
    <3> HIDE DEF w
    <3> QED BY <3>1, <3>2
  <2> HIDE DEF L, w, Now
  <2>4. args \o Append(L, w) = Append(K, w)
      BY <1>2, <2>2, ConcatAppend
  <2> HIDE DEF K
  <2>5. Starts(U, Append(K, w), RubyArg(Now(s), w))
      BY <2>1, <2>2, StartsMore
  <2> QED BY <2>1, <2>2, <2>3, <2>4, <2>5
<1> HIDE DEF R
<1>5. \A s \in Seq(Seq(U)), t \in Seq(U) : s \in R => Append(s, t) \in R
    BY <1>4
<1>6. ls \in R
    BY <1>3, <1>5, AppendInduction
<1> QED BY <1>6 DEF R

\* apply_run_verbose and ruby agree on what the level n of the flags means.
Verbosity(n) == IF n \in {-1, 2} THEN "true" ELSE IF n = 0 THEN "nil" ELSE "false"

\* The child shows it.
LEMMA VerbosityShown ==
  ASSUME NEW U, NEW f \in Flags(U)
  PROVE  ChildVerbose(f) = Verbosity(f.verbose)
BY DEF ChildVerbose, Verbosity, Flags

\* What -w or -W with the number of the level n make of $VERBOSE.
LEMMA LevelStarts ==
  ASSUME NEW n \in {0, 1, 2}, NEW v, NEW e, NEW d, NEW l, NEW c
  PROVE  RubyArg(RubyOf(v, e, d, l, c), Option("-W", Number(n))) = RubyOf(Verbosity(n), e, d, l, c)
<1> DEFINE x == <<"0">>
           y == <<"1">>
           z == <<"2">>
<1>1. x[1] = "0" /\ y[1] = "1" /\ z[1] = "2"
    OBVIOUS
<1> HIDE DEF x, y, z
<1>2. x # y /\ x # z /\ y # z
    BY <1>1
<1>3. CASE n = 0
  <2>1. Number(n) = x
      BY <1>3 DEF Number, x
  <2>2. RubyArg(RubyOf(v, e, d, l, c), Option("-W", x)) = RubyOf("nil", e, d, l, c)
      BY <1>2 DEF RubyArg, RubyOf, Option, x, y, z
  <2> QED BY <1>3, <2>1, <2>2 DEF Verbosity
<1>4. CASE n = 1
  <2>1. Number(n) = y
      BY <1>4 DEF Number, y
  <2>2. RubyArg(RubyOf(v, e, d, l, c), Option("-W", y)) = RubyOf("false", e, d, l, c)
      BY <1>2 DEF RubyArg, RubyOf, Option, x, y, z
  <2> QED BY <1>4, <2>1, <2>2 DEF Verbosity
<1>5. CASE n = 2
  <2>1. Number(n) = z
      BY <1>5 DEF Number, z
  <2>2. RubyArg(RubyOf(v, e, d, l, c), Option("-W", z)) = RubyOf("true", e, d, l, c)
      BY <1>2 DEF RubyArg, RubyOf, Option, x, y, z
  <2> QED BY <1>5, <2>1, <2>2 DEF Verbosity
<1> QED BY <1>3, <1>4, <1>5

\* The arguments of a cold run, read by ruby.
LEMMA ColdStarts ==
  ASSUME NEW U, Literals \subseteq U, "bundler/setup" \in U, NEW j, NEW f \in Flags(U), f = j.flags
  PROVE  Starts(U, ColdArguments(j),
                RubyOf(Verbosity(f.verbose), f.enc, f.dirs,
                       When(j.gemfile # Unset, <<"bundler/setup">>) \o f.libs, f.check))
<1> DEFINE d == f.dirs
           l == f.libs
           n == f.verbose
           c == f.check
           e == f.enc
           bundled == j.gemfile # Unset
           setup == <<"bundler/setup">>
           own == When(bundled, setup)
           warn == Option("-w", <<>>)
           number == Option("-W", Number(n))
           bundle == Option("-r", setup)
           encoding == Option("-E", e)
           check == Option("-c", <<>>)
           none == <<>>
           no == FALSE
           quiet == "false"
           s1 == When(n = -1, warn)
           s2 == s1 \o When(n \in 0 .. 2, number)
           s3 == s2 \o When(bundled, bundle)
           s4 == s3 \o When(e # NoText, encoding)
           s5 == s4 \o Each("-I", d)
           s6 == s5 \o Each("-r", l)
           s7 == s6 \o When(c, check)
<1>1. /\ d \in Seq(Seq(U)) /\ l \in Seq(Seq(U)) /\ e \in Seq(U)
      /\ n \in {NoLevel, -1, 0, 1, 2} /\ c \in BOOLEAN
    BY DEF Flags
<1>2. ColdArguments(j) = s7
    BY DEF ColdArguments, Option, Each
<1>3. /\ warn \in Options(U) /\ check \in Options(U) /\ bundle \in Options(U)
      /\ encoding \in Options(U) /\ (n \in {0, 1, 2} => number \in Options(U))
  <2>1. <<>> \in Seq(U) /\ setup \in Seq(U)
      OBVIOUS
  <2>2. \A t \in Seq(U) : /\ Option("-w", t) \in Options(U) /\ Option("-r", t) \in Options(U)
                          /\ Option("-E", t) \in Options(U) /\ Option("-c", t) \in Options(U)
                          /\ IsLevel(t) => Option("-W", t) \in Options(U)
      BY DEF Options, Option
  <2>3. n \in {0, 1, 2} => Number(n) \in Seq(U) /\ IsLevel(Number(n))
      BY NumbersAreLevels
  <2> HIDE DEF setup
  <2> QED BY <1>1, <2>1, <2>2, <2>3
<1>4. (n \in 0 .. 2 <=> n \in {0, 1, 2}) /\ (n = -1 => n \notin 0 .. 2)
      /\ (n = NoLevel => n # -1 /\ n \notin 0 .. 2)
    BY <1>1 DEF NoLevel
<1> HIDE DEF d, l, n, c, e, setup, bundled, no, quiet
<1>5. Starts(U, none, RubyOf(quiet, NoText, none, none, no))
  <2>1. RubyAfter(<<>>) = RubyStart
      BY RubyAfterFacts
  <2> QED BY <2>1 DEF Starts, RubyStart, RubyOf, no, quiet
<1> DEFINE r0 == RubyOf(quiet, NoText, none, none, no)
           r1 == IF n = -1 THEN RubyArg(r0, warn) ELSE r0
           r2 == IF n \in 0 .. 2 THEN RubyArg(r1, number) ELSE r1
           r3 == IF bundled THEN RubyArg(r2, bundle) ELSE r2
           r4 == IF e # NoText THEN RubyArg(r3, encoding) ELSE r3
<1>6. Starts(U, s1, r1)
  <2> DEFINE cond == n = -1
  <2>1. cond \in BOOLEAN
      OBVIOUS
  <2> HIDE DEF cond, r0, warn
  <2>2. Starts(U, none \o When(cond, warn), IF cond THEN RubyArg(r0, warn) ELSE r0)
      BY <1>3, <1>5, <2>1, StartsWhen DEF r0
  <2>3. none \o When(cond, warn) = When(cond, warn)
      BY DEF When
  <2> QED BY <2>2, <2>3 DEF cond
<1> HIDE DEF s1, r0
<1>7. Starts(U, s2, r2)
  <2> DEFINE cond == n \in 0 .. 2
  <2>1. cond \in BOOLEAN
      OBVIOUS
  <2> HIDE DEF cond, r1, number
  <2>2. Starts(U, s1 \o When(cond, number), IF cond THEN RubyArg(r1, number) ELSE r1)
      BY <1>3, <1>4, <1>6, <2>1, StartsWhen DEF cond
  <2> QED BY <2>2 DEF cond
<1> HIDE DEF s2
<1>8. Starts(U, s3, r3)
  <2>1. bundled \in BOOLEAN
      BY DEF bundled
  <2> HIDE DEF r2, bundle
  <2> QED BY <1>3, <1>7, <2>1, StartsWhen
<1> HIDE DEF s3
<1>9. Starts(U, s4, r4)
  <2> DEFINE cond == e # NoText
  <2>1. cond \in BOOLEAN
      OBVIOUS
  <2> HIDE DEF cond, r3, encoding
  <2>2. Starts(U, s3 \o When(cond, encoding), IF cond THEN RubyArg(r3, encoding) ELSE r3)
      BY <1>3, <1>8, <2>1, StartsWhen
  <2> QED BY <2>2 DEF cond
<1> HIDE DEF s4
<1>10. r2 = RubyOf(Verbosity(n), NoText, none, none, no)
  <2>1. RubyArg(r0, warn) = RubyOf("true", NoText, none, none, no)
      BY DEF RubyArg, RubyOf, Option, r0
  <2>2. CASE n = -1
      BY <1>4, <2>1, <2>2 DEF Verbosity
  <2>3. CASE n \in {0, 1, 2}
    <3>1. n # -1 /\ n \in 0 .. 2
        BY <2>3
    <3>2. \A v, e1, d1, l1, c1 :
             RubyArg(RubyOf(v, e1, d1, l1, c1), number) = RubyOf(Verbosity(n), e1, d1, l1, c1)
        BY <2>3, LevelStarts
    <3> HIDE DEF number, none
    <3>3. RubyArg(RubyOf(quiet, NoText, none, none, no), number)
          = RubyOf(Verbosity(n), NoText, none, none, no)
        BY <3>2
    <3>4. RubyArg(r0, number) = RubyOf(Verbosity(n), NoText, none, none, no)
        BY <3>3 DEF r0
    <3> QED BY <3>1, <3>4
  <2>4. CASE n = NoLevel
      BY <1>4, <2>4 DEF Verbosity, NoLevel, r0, quiet
  <2> HIDE DEF r2, none
  <2> QED BY <1>1, <2>2, <2>3, <2>4
<1>11. own \in Seq(Seq(U)) /\ r3 = RubyOf(Verbosity(n), NoText, none, own, no)
  <2>1. \A v : RubyArg(RubyOf(v, NoText, none, none, no), bundle) = RubyOf(v, NoText, none, <<setup>>, no)
    <3>1. \A v, d1, b : RubyArg(RubyOf(v, NoText, d1, b, no), bundle)
                       = RubyOf(v, NoText, d1, Append(b, setup), no)
        BY DEF RubyArg, RubyOf, Option
    <3>2. Append(none, setup) = <<setup>>
        OBVIOUS
    <3> HIDE DEF bundle, none
    <3> QED BY <3>1, <3>2
  <2>2. setup \in Seq(U)
      BY DEF setup
  <2>3. own = IF bundled THEN <<setup>> ELSE none
      BY DEF When
  <2>4. own \in Seq(Seq(U))
      BY <2>2, <2>3
  <2> HIDE DEF r2, bundle, own, none
  <2> QED BY <1>10, <2>1, <2>3, <2>4
<1> HIDE DEF r3, own
<1>12. r4 = RubyOf(Verbosity(n), e, none, own, no)
  <2>1. \A v, b : RubyArg(RubyOf(v, NoText, none, b, no), encoding) = RubyOf(v, e, none, b, no)
      BY DEF RubyArg, RubyOf, Option
  <2> QED BY <1>11, <2>1
<1> HIDE DEF r4
<1> DEFINE v == Verbosity(n)
<1> HIDE DEF v
<1>13. Starts(U, s4, RubyOf(v, e, none, own, no))
    BY <1>9, <1>12 DEF v
<1>14. Starts(U, s5, RubyOf(v, e, d, own, no))
    BY <1>1, <1>13, StartsDirs
<1> HIDE DEF s5
<1>15. Starts(U, s6, RubyOf(v, e, d, own \o l, no))
    BY <1>1, <1>11, <1>14, StartsLibs
<1> HIDE DEF s6
<1>16. Starts(U, s7, RubyOf(v, e, d, own \o l, c))
  <2> DEFINE g == RubyOf(v, e, d, own \o l, no)
             g7 == IF c THEN RubyArg(g, check) ELSE g
  <2>1. g7 = RubyOf(v, e, d, own \o l, c)
    <3>1. \A b : RubyArg(RubyOf(v, e, d, b, no), check) = RubyOf(v, e, d, b, TRUE)
        BY DEF RubyArg, RubyOf, Option
    <3>2. ~c => c = no
        BY <1>1 DEF no
    <3>3. c => c = TRUE
        BY <1>1
    <3>4. CASE c
        BY <3>1, <3>3, <3>4
    <3>5. CASE ~c
        BY <3>2, <3>5
    <3> QED BY <3>4, <3>5
  <2> HIDE DEF g, check
  <2>2. Starts(U, s7, g7)
      BY <1>1, <1>3, <1>15, StartsWhen DEF g
  <2> QED BY <2>1, <2>2
<1> QED BY <1>2, <1>16 DEF v, own, bundled, setup, d, l, n, c, e

-----------------------------------------------------------------------------
(* The load path of the child.                                              *)

\* The directories in front of the path b, one after the other.
Unshifted(b, ds) == FoldLeft(LAMBDA path, d : <<d>> \o path, b, ds)

\* It is a fold.
LEMMA UnshiftIsFold ==
  ASSUME NEW D, NEW b \in Seq(D)
  PROVE  IsFold(Seq(D), D, b, [d \in D |-> [path \in Seq(D) |-> <<d>> \o path]],
                [ds \in Seq(D) |-> Unshifted(b, ds)])
<1> DEFINE X == Seq(D)
           op(path, d) == <<d>> \o path
           Op == [d \in D |-> [path \in X |-> op(path, d)]]
           fold == [ds \in Seq(D) |-> Unshifted(b, ds)]
<1>2. ASSUME NEW path \in X, NEW d \in D PROVE op(path, d) \in X
    OBVIOUS
<1>1. b \in X
    OBVIOUS
<1> HIDE DEF X, op
<1>3. Op \in [D -> [X -> X]] /\ \A d \in D, path \in X : Op[d][path] = op(path, d)
    BY <1>2
<1>4. ASSUME NEW s \in Seq(D)
      PROVE  Computed(X, b, Len(s), StepsOver(Op, s), Unshifted(b, s))
  <2> DEFINE Is(c) == c = [u \in SUBSET DOMAIN s |->
                             IF u = {} THEN b ELSE op(c[u \ {Max(u)}], s[Max(u)])]
             c == CHOOSE d : Is(d)
  <2> HIDE DEF Op
  <2>1. PICK d : FoldsOver(X, D, b, Op, s, d)
      BY <1>1, <1>3, FoldOver
  <2>2. Is(d)
      BY <1>3, <2>1 DEF FoldsOver
  <2>3. Is(c)
      BY <2>2
  <2>4. Unshifted(b, s) = c[DOMAIN s]
      BY DEF Unshifted, FoldLeft, MapThenFoldSet, Max, op
  <2> HIDE DEF c
  <2>5. c[{}] = b /\ \A u \in SUBSET DOMAIN s :
                       u # {} => c[u] = op(c[u \ {Max(u)}], s[Max(u)])
      BY <2>3
  <2>6. \A u \in SUBSET DOMAIN s :
           u # {} /\ s[Max(u)] \in D /\ c[u \ {Max(u)}] \in X
           => c[u] = Op[s[Max(u)]][c[u \ {Max(u)}]]
      BY <1>3, <2>5
  <2>7. Computed(X, b, Len(s), StepsOver(Op, s), c[DOMAIN s])
      BY <1>1, <1>3, <2>5, <2>6, FoldOverAll
  <2> QED BY <2>4, <2>7
<1> HIDE DEF Op
<1>5. IsFold(X, D, b, Op, fold)
  <2>1. fold = [s \in Seq(D) |-> fold[s]] /\ \A s \in Seq(D) : fold[s] = Unshifted(b, s)
      OBVIOUS
  <2> HIDE DEF fold
  <2> QED BY <1>1, <1>3, <1>4, <2>1, FoldByElement
<1> QED BY <1>5 DEF X, op, Op

\* The reverse of a sequence, and of that.
LEMMA ReverseFacts ==
  ASSUME NEW D
  PROVE  /\ Reverse(<<>>) = <<>>
         /\ \A s \in Seq(D) : Reverse(s) \in Seq(D) /\ Reverse(Reverse(s)) = s
         /\ \A s \in Seq(D), d \in D : Reverse(Append(s, d)) = <<d>> \o Reverse(s)
<1>1. ASSUME NEW s \in Seq(D), NEW n \in Nat, n = Len(s)
      PROVE  /\ Reverse(s) \in Seq(D) /\ Len(Reverse(s)) = n
             /\ \A i \in 1 .. n : Reverse(s)[i] = s[n - i + 1]
  <2>1. Reverse(s) = [i \in 1 .. n |-> s[n - i + 1]]
      BY <1>1 DEF Reverse
  <2>2. \A i \in 1 .. n : n - i + 1 \in 1 .. n
      OBVIOUS
  <2>3. Reverse(s) \in [1 .. n -> D]
      BY <1>1, <2>1, <2>2
  <2> QED BY <2>1, <2>3
<1>2. Reverse(<<>>) = <<>>
    BY DEF Reverse
<1>3. ASSUME NEW s \in Seq(D) PROVE Reverse(s) \in Seq(D) /\ Reverse(Reverse(s)) = s
  <2>1. PICK n \in Nat : n = Len(s)
      OBVIOUS
  <2>2. PICK r \in Seq(D) : r = Reverse(s)
      BY <1>1, <2>1
  <2>3. Len(r) = n /\ \A i \in 1 .. n : r[i] = s[n - i + 1]
      BY <1>1, <2>1, <2>2
  <2>4. PICK q \in Seq(D) : q = Reverse(r)
      BY <1>1, <2>3
  <2>5. Len(q) = n /\ \A i \in 1 .. n : q[i] = r[n - i + 1]
      BY <1>1, <2>3, <2>4
  <2>6. \A i \in 1 .. n : q[i] = s[i]
    <3>1. \A i \in 1 .. n : n - i + 1 \in 1 .. n /\ n - (n - i + 1) + 1 = i
        OBVIOUS
    <3> QED BY <2>3, <2>5, <3>1
  <2>7. q = s
      BY <2>1, <2>5, <2>6
  <2> QED BY <2>2, <2>4, <2>7
<1>4. ASSUME NEW s \in Seq(D), NEW d \in D
      PROVE  Reverse(Append(s, d)) = <<d>> \o Reverse(s)
  <2>1. PICK n \in Nat : n = Len(s)
      OBVIOUS
  <2>2. PICK r \in Seq(D) : r = Reverse(s)
      BY <1>3
  <2>3. Len(r) = n /\ \A i \in 1 .. n : r[i] = s[n - i + 1]
      BY <1>1, <2>1, <2>2
  <2>4. PICK t : t = Append(s, d) /\ t \in Seq(D)
    <3>1. Append(s, d) \in Seq(D)
        OBVIOUS
    <3> QED BY <3>1
  <2>5. Len(t) = n + 1 /\ t[n + 1] = d /\ \A i \in 1 .. n : t[i] = s[i]
      BY <2>1, <2>4
  <2>6. PICK q \in Seq(D) : q = Reverse(t)
      BY <1>3, <2>4
  <2>7. Len(q) = n + 1 /\ \A i \in 1 .. n + 1 : q[i] = t[(n + 1) - i + 1]
    <3>1. PICK m \in Nat : m = n + 1
        OBVIOUS
    <3>2. Len(q) = m /\ \A i \in 1 .. m : q[i] = t[m - i + 1]
        BY <1>1, <2>4, <2>5, <2>6, <3>1
    <3> QED BY <3>1, <3>2
  <2>8. PICK w : w = <<d>> \o r /\ w \in Seq(D)
    <3>1. <<d>> \o r \in Seq(D)
        OBVIOUS
    <3> QED BY <3>1
  <2>9. Len(w) = n + 1 /\ w[1] = d /\ \A i \in 1 .. n : w[i + 1] = r[i]
      BY <2>3, <2>8
  <2>10. q[1] = d
      BY <2>5, <2>7
  <2>11. ASSUME NEW i \in 1 .. n PROVE q[i + 1] = r[i]
    <3>1. /\ i + 1 \in 1 .. n + 1 /\ (n + 1) - (i + 1) + 1 = n - i + 1
          /\ n - i + 1 \in 1 .. n
        OBVIOUS
    <3>2. q[i + 1] = t[n - i + 1]
        BY <2>7, <3>1
    <3>3. t[n - i + 1] = s[n - i + 1] /\ r[i] = s[n - i + 1]
        BY <2>3, <2>5, <3>1
    <3> QED BY <3>2, <3>3
  <2>12. \A i \in 1 .. n + 1 : q[i] = w[i]
    <3>1. \A i \in 1 .. n + 1 : i = 1 \/ \E k \in 1 .. n : i = k + 1
      <4>1. ASSUME NEW i \in 1 .. n + 1, i # 1 PROVE i - 1 \in 1 .. n /\ i = (i - 1) + 1
          BY <4>1
      <4> QED BY <4>1
    <3> QED BY <2>9, <2>10, <2>11, <3>1
  <2>13. q = w
    <3>1. Len(q) = n + 1 /\ Len(w) = n + 1 /\ q \in Seq(D) /\ w \in Seq(D)
        BY <2>6, <2>7, <2>8, <2>9
    <3> QED BY <2>12, <3>1
  <2> QED BY <2>2, <2>4, <2>6, <2>8, <2>13
<1> QED BY <1>2, <1>3, <1>4

\* The directories are unshifted from the last to the first.
LEMMA UnshiftedPath ==
  ASSUME NEW D, NEW b \in Seq(D), NEW ds \in Seq(D)
  PROVE  Unshifted(b, Reverse(ds)) = ds \o b
<1> DEFINE X == Seq(D)
           Op == [d \in D |-> [path \in X |-> <<d>> \o path]]
           fold == [s \in Seq(D) |-> Unshifted(b, s)]
           R == {s \in Seq(D) : Unshifted(b, s) = Reverse(s) \o b}
<1>1. IsFold(X, D, b, Op, fold)
    BY UnshiftIsFold
<1>2. <<>> \in Seq(D) /\ Unshifted(b, <<>>) = b
  <2>1. fold[<<>>] = b
      BY <1>1 DEF IsFold
  <2>2. <<>> \in Seq(D)
      OBVIOUS
  <2> QED BY <2>1, <2>2
<1>3. ASSUME NEW s \in Seq(D), NEW d \in D
      PROVE  Unshifted(b, Append(s, d)) = <<d>> \o Unshifted(b, s)
  <2> HIDE DEF X
  <2>1. fold[Append(s, d)] = Op[d][fold[s]] /\ fold[s] \in X
      BY <1>1 DEF IsFold
  <2>2. fold[s] = Unshifted(b, s) /\ fold[Append(s, d)] = Unshifted(b, Append(s, d))
      BY ConcatOne
  <2> HIDE DEF fold
  <2>3. Op[d][fold[s]] = <<d>> \o fold[s]
      BY <2>1
  <2> QED BY <2>1, <2>2, <2>3
<1> HIDE DEF X, Op, fold
<1>4. <<>> \in R
    BY <1>2, ReverseFacts
<1>5. ASSUME NEW s \in Seq(D), NEW d \in D, s \in R PROVE Append(s, d) \in R
  <2>1. PICK r \in Seq(D) : r = Reverse(s)
      BY ReverseFacts
  <2>2. Unshifted(b, Append(s, d)) = <<d>> \o (r \o b) /\ Reverse(Append(s, d)) = <<d>> \o r
      BY <1>3, <1>5, <2>1, ReverseFacts
  <2>3. <<d>> \o (r \o b) = (<<d>> \o r) \o b
    <3>1. \A u \in Seq(D) : u \o (r \o b) = (u \o r) \o b
        OBVIOUS
    <3>2. <<d>> \in Seq(D)
        OBVIOUS
    <3> QED BY <3>1, <3>2
  <2>4. Append(s, d) \in Seq(D)
      OBVIOUS
  <2> QED BY <2>2, <2>3, <2>4
<1> HIDE DEF R
<1>6. \A s \in Seq(D), d \in D : s \in R => Append(s, d) \in R
    BY <1>5
<1>7. \A s \in Seq(D) : s \in R
    BY <1>4, <1>6, AppendInduction
<1>8. Reverse(ds) \in Seq(D) /\ Reverse(Reverse(ds)) = ds
    BY ReverseFacts
<1> QED BY <1>7, <1>8 DEF R

-----------------------------------------------------------------------------
(* Parity.                                                                  *)

\* wait_status_code and ExitStatus read a status alike.
LEMMA StatusesAgree ==
  ASSUME NEW w, w \in Nat, w < 65536
  PROVE  WaitStatusCode(w) = ExitCode(w)
<1>1. w \in Nat /\ w < 65536
    OBVIOUS
<1>2. CASE Exited(w)
  <2>1. (w \div 256) % 256 = w \div 256
      BY <1>1
  <2> QED BY <1>2, <2>1 DEF WaitStatusCode, ExitCode
<1>3. CASE ~Exited(w)
    BY <1>3 DEF WaitStatusCode, ExitCode
<1> QED BY <1>2, <1>3

\* Two versions in vendor that share a directory are one.
LEMMA OneRuby ==
  ASSUME NEW a, NEW b, Vendored(a), Vendored(b), RubyVersionOf(a) = RubyVersionOf(b),
         a # InVendor(Unset), b # InVendor(Unset)
  PROVE  a = b
<1>1. PICK v, w : a = InVendor(v) /\ b = InVendor(w)
    BY DEF Vendored
<1>2. ASSUME NEW x PROVE RubyVersionOf(InVendor(x)) = IF x # Pin THEN x ELSE Unset
  <2>1. PICK y : y = InVendor(x)
      OBVIOUS
  <2>2. Len(y) = 3 /\ y[2] = "ruby-" /\ y[3] = x
      BY <2>1 DEF InVendor
  <2>3. RubyVersionOf(y) = IF y[3] # Pin THEN y[3] ELSE Unset
      BY <2>2 DEF RubyVersionOf
  <2> QED BY <2>1, <2>2, <2>3
<1>3. v # Unset /\ w # Unset
    BY <1>1
<1>4. (IF v # Pin THEN v ELSE Unset) = (IF w # Pin THEN w ELSE Unset)
    BY <1>1, <1>2
<1>5. v = w
    BY <1>3, <1>4
<1> QED BY <1>1, <1>5

\* The environment arrives as it is sent.
LEMMA EnvironmentArrives ==
  ASSUME NEW U, NEW env, Texts(U, env), \A v \in DOMAIN env : RS \notin Range(env[v]),
         DOMAIN env \cap Reserved = {}
  PROVE  RequestEnv(env) = env
<1>1. ASSUME NEW v \in DOMAIN env PROVE Arriving(env[v]) = env[v]
  <2> DEFINE D == U \cup {RS}
             V == D \ {RS}
  <2>1. PICK t \in Seq(U) : t = env[v]
      BY DEF Texts
  <2>2. RS \notin Range(t)
      BY <2>1
  <2>3. \A i \in 1 .. Len(t) : t[i] \in U /\ t[i] \in Range(t)
      BY DEF Range
  <2>4. \A i \in 1 .. Len(t) : t[i] \in V
      BY <2>2, <2>3
  <2>5. RS \in D
      OBVIOUS
  <2> HIDE DEF D
  <2>6. t \in Seq(V)
      BY <2>4
  <2>7. Split(t, RS) = <<t>>
      BY <2>5, <2>6, SplitWhole
  <2> QED BY <2>1, <2>7 DEF Arriving
<1>2. DOMAIN env \ (Own \cup {"CALISTO_RUN_FLAGS"}) = DOMAIN env
    BY DEF Reserved
<1>3. RequestEnv(env) = [v \in DOMAIN env |-> Arriving(env[v])]
    BY <1>2 DEF RequestEnv
<1>4. RequestEnv(env) = [v \in DOMAIN env |-> env[v]]
    BY <1>1, <1>3
<1> QED BY <1>4 DEF Texts

\* The load path of the child, before that of the daemon's environment.
LEMMA ChildPath ==
  ASSUME NEW U, NEW f \in Flags(U), NEW boot, NEW rubylib \in Seq(U), boot.rubylib = rubylib,
         NEW env, "CALISTO_LOAD_PATH" \notin DOMAIN env
  PROVE  ChildLoadPath(f, env, boot) = f.dirs \o Libpath(rubylib)
<1>1. Libpath(rubylib) \in Seq(Seq(U))
    BY DEF Libpath
<1>2. f.dirs \in Seq(Seq(U))
    BY DEF Flags
<1>3. ChildLoadPath(f, env, boot) = Unshifted(Libpath(rubylib), Reverse(f.dirs))
    BY DEF ChildLoadPath, WithOwnPath, Unshifted
<1> HIDE DEF Libpath
<1> QED BY <1>1, <1>2, <1>3, UnshiftedPath

\* What ruby comes to in a cold run, and what of it is the user's.
LEMMA ColdReads ==
  ASSUME NEW U, Literals \subseteq U, NEW j, NEW f \in Flags(U), f = j.flags
  PROVE  \E r : /\ r = FoldLeft(RubyArg, RubyStart, ColdArguments(j))
                /\ r.verbose = ChildVerbose(f) /\ r.enc = f.enc /\ r.dirs = f.dirs
                /\ r.check = f.check
                /\ (IF j.gemfile # Unset THEN Tail(r.libs) ELSE r.libs) = f.libs
                /\ j.gemfile # Unset => Contains(r.libs, <<"bundler/setup">>)
<1> DEFINE V == U \cup {"bundler/setup"}
           setup == <<"bundler/setup">>
           libs == When(j.gemfile # Unset, setup) \o f.libs
           r == RubyOf(Verbosity(f.verbose), f.enc, f.dirs, libs, f.check)
<1>1. Literals \subseteq V /\ "bundler/setup" \in V /\ \A s \in Seq(U) : s \in Seq(V)
    OBVIOUS
<1>2. f \in Flags(V) /\ f.libs \in Seq(Seq(V)) /\ setup \in Seq(V)
  <2>1. \A s \in Seq(U) : s \in Seq(V)
      OBVIOUS
  <2>2. \A s \in Seq(Seq(U)) : s \in Seq(Seq(V))
    <3> HIDE DEF V
    <3> QED BY <2>1
  <2>3. setup \in Seq(V)
      OBVIOUS
  <2> HIDE DEF V, setup
  <2> QED BY <2>1, <2>2, <2>3 DEF Flags
<1> HIDE DEF V
<1>3. Starts(V, ColdArguments(j), r)
    BY <1>1, <1>2, ColdStarts
<1>4. r = FoldLeft(RubyArg, RubyStart, ColdArguments(j))
    BY <1>3 DEF Starts, RubyAfter
<1>5. Verbosity(f.verbose) = ChildVerbose(f)
    BY VerbosityShown
<1> HIDE DEF setup
<1>6. CASE j.gemfile # Unset
  <2>1. libs = <<setup>> \o f.libs
      BY <1>6 DEF When
  <2>2. PICK w : w = libs
      OBVIOUS
  <2>3. Tail(w) = f.libs /\ w[1] = setup /\ w # <<>> /\ w \in Seq(Seq(V))
    <3>1. PICK T, l : T = Seq(V) /\ l = f.libs
        OBVIOUS
    <3>2. l \in Seq(T) /\ setup \in T
        BY <1>2, <3>1
    <3>3. /\ <<setup>> \o l \in Seq(T) /\ <<setup>> \o l # <<>>
          /\ (<<setup>> \o l)[1] = setup /\ Tail(<<setup>> \o l) = l
        BY <3>2, KeyedSegment
    <3>4. w = <<setup>> \o l
        BY <2>1, <2>2, <3>1
    <3> QED BY <3>1, <3>3, <3>4
  <2>4. 1 \in 1 .. Len(w)
      BY <2>3
  <2>5. Contains(w, setup)
      BY <2>3, <2>4 DEF Contains
  <2>6. r.libs = w
      BY <2>2 DEF RubyOf
  <2>7. r.verbose = Verbosity(f.verbose) /\ r.enc = f.enc /\ r.dirs = f.dirs /\ r.check = f.check
      BY DEF RubyOf
  <2> HIDE DEF r, libs
  <2> QED BY <1>4, <1>5, <1>6, <2>3, <2>5, <2>6, <2>7 DEF setup
<1>7. CASE j.gemfile = Unset
  <2>1. libs = f.libs
      BY <1>2, <1>7 DEF When
  <2>2. r.verbose = Verbosity(f.verbose) /\ r.enc = f.enc /\ r.dirs = f.dirs /\ r.check = f.check
        /\ r.libs = libs
      BY DEF RubyOf
  <2> HIDE DEF r, libs
  <2> QED BY <1>4, <1>5, <1>7, <2>1, <2>2
<1> QED BY <1>6, <1>7

\* What a script is shown, and another VM's marks in it.
View(r, v, w, e, p, l, n, b, x, f) ==
  [ruby |-> r, vm |-> v, verbose |-> w, enc |-> e, path |-> p, loaded |-> l, env |-> n,
   bundle |-> b, exported |-> x, file |-> f]
Marked(s, m, z, t) == [s EXCEPT !.loaded = m, !.exported = z] = t

\* They replace two of its fields.
LEMMA Marks ==
  ASSUME NEW r, NEW v, NEW w, NEW e, NEW p, NEW l, NEW n, NEW b, NEW x, NEW f, NEW m, NEW z
  PROVE  Marked(View(r, v, w, e, p, l, n, b, x, f), m, z, View(r, v, w, e, p, m, n, b, z, f))
<1>1. \A k : [View(r, v, w, e, p, l, n, b, k, f) EXCEPT !.loaded = m]
               = View(r, v, w, e, p, m, n, b, k, f)
    BY DEF View
<1>2. [View(r, v, w, e, p, m, n, b, x, f) EXCEPT !.exported = z] = View(r, v, w, e, p, m, n, b, z, f)
    BY DEF View
<1> QED BY <1>1, <1>2, Zenon DEF Marked

\* The same script in another VM.
LEMMA SeenInVm ==
  ASSUME NEW j, NEW c, NEW u, NEW boot, NEW r, NEW v, NEW w, NEW e, NEW p, NEW l, NEW n, NEW b,
         NEW x, NEW f, NEW z, z = (x /\ boot.bundle = Unset)
  PROVE  InVm(boot, Seen(j, View(r, v, w, e, p, l, n, b, x, f), c, u))
           = Seen(j, View(r, v, w, e, p, Loaded(boot), n, b, z, f), c, u)
<1> DEFINE s == View(r, v, w, e, p, l, n, b, x, f)
           o == Seen(j, s, c, u)
           t == View(r, v, w, e, p, Loaded(boot), n, b, z, f)
<1>1. s.exported = x
    BY DEF View
<1>2. Marked(s, Loaded(boot), z, t)
    BY Marks
<1> HIDE DEF s, t
<1>3. o.stage = "script" /\ o.shown = s /\ [o EXCEPT !.shown = t] = Seen(j, t, c, u)
    BY DEF Seen
<1> HIDE DEF o
<1>4. InVm(boot, o) = [o EXCEPT !.shown.loaded = Loaded(boot),
                                !.shown.exported = @ /\ boot.bundle = Unset]
    BY <1>3 DEF InVm
<1>5. InVm(boot, o) = [o EXCEPT !.shown = [o.shown EXCEPT !.loaded = Loaded(boot),
                                              !.exported = s.exported /\ boot.bundle = Unset]]
    BY <1>3, <1>4
<1> QED BY <1>1, <1>2, <1>3, <1>5 DEF s, o, t, Marked

\* Where no difference is known, the child of a daemon shows what the
\* interpreter itself would have shown, in the VM of the daemon.
LEMMA ChildIsCold ==
  ASSUME NEW U, Literals \subseteq U, NEW j, JobOK(U, j), NEW boot, Booted(j.target.dir, boot),
         ~KnownDifference(boot, j)
  PROVE  Child(boot, j) = InVm(boot, Cold(j))
<1> DEFINE f == j.flags
           env == j.env
           rubylib == EnvText(env, "RUBYLIB")
           path == f.dirs \o Libpath(rubylib)
           asked == [j EXCEPT !.flags = f]
           ends == EndOf(j.place, j.subject)
           file == IF j.op = "EVAL" THEN <<"-e">> ELSE <<"cwd">>
           known == j.place.encodings \cup {NoText}
           Shown(loaded, exported) ==
             View(j.ruby, Settings(env), ChildVerbose(f), f.enc, path, loaded, env, j.gemfile,
                  exported, file)
           Result(loaded, exported) ==
             CASE f.enc \notin known -> Stopped("encoding", 1)
               [] f.enc \in known /\ f.check ->
                    Stopped("syntax", IF j.subject \in j.place.broken THEN 1 ELSE 0)
               [] OTHER ->
                    IF MissingLib(asked) THEN Stopped("require", 1)
                    ELSE Seen(asked, Shown(loaded, exported), ExitCode(ends.status),
                              ends.by # "crash")
<1>1. /\ f \in Flags(U) /\ Texts(U, env) /\ \A v \in DOMAIN env : env[v] \in Seq(U)
      /\ ends \in Endings /\ j.op \in {"RUN", "EVAL"}
    BY DEF JobOK, Texts
<1>2. /\ j.op = "RUN" => FoundIn(j.place, j.subject, ChildLoadPath(f, env, boot)) = <<"cwd">>
      /\ boot.rubylib = rubylib /\ boot.vm = Settings(env)
      /\ boot.bundle = Unset \/ boot.bundle = j.gemfile
      /\ boot.ruby = j.ruby \/ (Vendored(boot.ruby) /\ Vendored(j.ruby))
      /\ ~Collides(boot, j) /\ ~SomeSeparated(f) /\ \A v \in DOMAIN env : RS \notin Range(env[v])
      /\ DOMAIN env \cap Reserved = {} /\ ends.by \notin {"raise", "term"}
    BY DEF KnownDifference
<1>3. rubylib \in Seq(U)
  <2>1. NoText \in Seq(U)
      BY DEF NoText, Literals
  <2> QED BY <1>1, <2>1 DEF EnvText
<1>4. "CALISTO_RUN_FLAGS" \notin DOMAIN env /\ "CALISTO_LOAD_PATH" \notin DOMAIN env
    BY <1>2 DEF Reserved
<1>5. ChildFlags(f, env) = f
    BY <1>1, <1>2, <1>4, CleanFlagsArrive
<1>6. ChildLoadPath(f, env, boot) = path
  <2>1. PICK g, t, e : g = f /\ t = rubylib /\ e = env
      OBVIOUS
  <2>2. g \in Flags(U) /\ t \in Seq(U) /\ boot.rubylib = t /\ "CALISTO_LOAD_PATH" \notin DOMAIN e
      BY <1>1, <1>2, <1>3, <1>4, <2>1
  <2>3. ChildLoadPath(g, e, boot) = g.dirs \o Libpath(t)
      BY <2>2, ChildPath
  <2> QED BY <2>1, <2>3
<1>7. RequestEnv(env) = env
    BY <1>1, <1>2, EnvironmentArrives
<1>8. ChildStatus(ends) = ExitCode(ends.status) /\ (ends.by \in {"exit", "raise"} <=> ends.by # "crash")
  <2>1. ends.by \in {"exit", "crash"} /\ ends.status \in Nat /\ ends.status < 65536
      BY <1>1, <1>2 DEF Endings
  <2> HIDE DEF ends
  <2> QED BY <2>1, StatusesAgree DEF ChildStatus
<1>9. boot.ruby = j.ruby
    BY <1>2, OneRuby DEF Booted, JobOK
<1>10. ChildBundle(boot, j) = j.gemfile
    BY <1>2 DEF ChildBundle
<1>11. (IF j.op = "EVAL" THEN <<"-e">> ELSE FoundIn(j.place, j.subject, path)) = file
    BY <1>1, <1>2, <1>6
<1>12. PICK here, there : /\ here = (j.gemfile # Unset /\ boot.bundle = Unset)
                          /\ there = (j.gemfile # Unset)
    OBVIOUS
<1>13. Child(boot, j) = Result(Loaded(boot), here)
  <2> HIDE DEF path, ends, file
  <2>1. Child(boot, j) =
          CASE f.enc \notin known -> Stopped("encoding", 1)
            [] f.enc \in known /\ f.check ->
                 Stopped("syntax", IF j.subject \in j.place.broken THEN 1 ELSE 0)
            [] OTHER ->
                 IF Collides(boot, j) THEN Stopped("bundler", 1)
                 ELSE IF MissingLib(asked) THEN Stopped("require", 1)
                 ELSE Seen(asked,
                           [ruby |-> boot.ruby, vm |-> boot.vm, verbose |-> ChildVerbose(f),
                            enc |-> f.enc, path |-> path, loaded |-> Loaded(boot), env |-> env,
                            bundle |-> ChildBundle(boot, j), exported |-> here,
                            file |-> IF j.op = "EVAL" THEN <<"-e">>
                                     ELSE FoundIn(j.place, j.subject, path)],
                           ChildStatus(ends), ends.by \in {"exit", "raise"})
      BY <1>5, <1>6, <1>7, <1>12 DEF Child, ends
  <2> HIDE DEF asked, known
  <2> QED BY <1>2, <1>8, <1>9, <1>10, <1>11, <2>1 DEF View
<1>14. Cold(j) = Result(Unloaded, there)
  <2>1. PICK r : /\ r = FoldLeft(RubyArg, RubyStart, ColdArguments(j))
                 /\ r.verbose = ChildVerbose(f) /\ r.enc = f.enc /\ r.dirs = f.dirs
                 /\ r.check = f.check
                 /\ (IF j.gemfile # Unset THEN Tail(r.libs) ELSE r.libs) = f.libs
                 /\ j.gemfile # Unset => Contains(r.libs, <<"bundler/setup">>)
      BY <1>1, ColdReads
  <2>2. /\ (IF Contains(r.libs, <<"bundler/setup">>) THEN j.gemfile ELSE Unset) = j.gemfile
        /\ (Contains(r.libs, <<"bundler/setup">>) /\ j.gemfile # Unset) = there
      BY <1>12, <2>1
  <2>3. [j EXCEPT !.flags.libs = f.libs] = asked
    <3>1. [f EXCEPT !.libs = f.libs] = f
        BY <1>1 DEF Flags
    <3> QED BY <3>1
  <2> HIDE DEF asked, known, ends
  <2>4. Cold(j) =
          CASE r.enc \notin known -> Stopped("encoding", 1)
            [] r.enc \in known /\ r.check ->
                 Stopped("syntax", IF j.subject \in j.place.broken THEN 1 ELSE 0)
            [] OTHER ->
                 IF MissingLib([j EXCEPT !.flags.libs = f.libs]) THEN Stopped("require", 1)
                 ELSE Seen([j EXCEPT !.flags.libs = f.libs],
                           [ruby |-> j.ruby, vm |-> Settings(env), verbose |-> r.verbose,
                            enc |-> r.enc, path |-> r.dirs \o Libpath(rubylib),
                            loaded |-> Unloaded, env |-> env,
                            bundle |-> IF Contains(r.libs, <<"bundler/setup">>) THEN j.gemfile
                                       ELSE Unset,
                            exported |-> Contains(r.libs, <<"bundler/setup">>) /\ j.gemfile # Unset,
                            file |-> file],
                           ExitCode(ends.status), ends.by # "crash")
      BY <2>1 DEF Cold, known, ends
  <2> QED BY <2>1, <2>2, <2>3, <2>4 DEF View
<1>15. InVm(boot, Result(Unloaded, there)) = Result(Loaded(boot), here)
  <2>1. here = (there /\ boot.bundle = Unset)
      BY <1>12
  <2>2. \A c, u : InVm(boot, Seen(asked, Shown(Unloaded, there), c, u))
                   = Seen(asked, Shown(Loaded(boot), here), c, u)
      BY <2>1, SeenInVm
  <2>3. \A stage, c : stage # "script" => InVm(boot, Stopped(stage, c)) = Stopped(stage, c)
      BY DEF InVm, Stopped
  <2> HIDE DEF Shown, asked, known, ends
  <2> QED BY <2>2, <2>3
<1> QED BY <1>13, <1>14, <1>15
\* So does a command.
LEMMA WarmRunIsCold ==
  ASSUME RunAssumption, RunInv
  PROVE  WarmMatchesCold
<1>1. SUFFICES ASSUME runPc = "ended", job.how = "warm", outcome.stage \notin {"connect", "closed"},
                      job.target.dir \in DOMAIN daemons,
                      ~KnownDifference(daemons[job.target.dir], job)
               PROVE  outcome = InVm(daemons[job.target.dir], Cold(job))
    BY DEF WarmMatchesCold
<1>2. outcome = Child(daemons[job.target.dir], job)
    BY <1>1 DEF RunInv, Served
<1>3. JobOK(Tokens, job) /\ Booted(job.target.dir, daemons[job.target.dir])
    BY <1>1 DEF RunInv
<1>4. Literals \subseteq Tokens
    BY DEF RunAssumption
<1> QED BY <1>1, <1>2, <1>3, <1>4, ChildIsCold

-----------------------------------------------------------------------------
(* MCCommands.                                                              *)

\* The tokens of the command lines of MCCommands.
SampleTokens ==
  Literals \cup {US, RS, "", "-I", "-r", "-E", "-w", "-c", "--", "-e", "-W", "3", "a", "b"}

\* They are command lines.
LEMMA FlagLinesTyped == FlagLines \subseteq Seq(Arguments(SampleTokens))
<1> DEFINE A == Arguments(SampleTokens)
<1>1. FlagArgs \subseteq A
  <2>1. ASSUME NEW o \in SampleTokens, NEW t \in Seq(SampleTokens) PROVE [opt |-> o, att |-> t] \in A
      BY DEF Arguments
  <2>2. /\ {"-I", "-r", "-E", "-w", "-c", "--", "-e", "-W"} \subseteq SampleTokens
        /\ {"", "w", "a", "b", "0", "2", "3", US, RS} \subseteq SampleTokens
      BY DEF SampleTokens, Literals
  <2> HIDE DEF A
  <2>3. \A o \in SampleTokens : O(o) \in A
    <3>1. <<>> \in Seq(SampleTokens)
        OBVIOUS
    <3> QED BY <2>1, <3>1 DEF O
  <2>4. \A n \in SampleTokens : <<n>> \in Seq(SampleTokens)
      OBVIOUS
  <2>5. \A o, n \in SampleTokens : [opt |-> o, att |-> <<n>>] \in A
      BY <2>1, <2>4
  <2>6. \A t \in Seq(SampleTokens) : W(t) \in A
      BY <2>1, <2>2 DEF W
  <2>7. {<<>>, <<"w">>, <<"a", US, "w">>, <<"a", RS, "b">>} \subseteq Seq(SampleTokens)
    <3>1. \A x, y, z \in SampleTokens : <<x>> \in Seq(SampleTokens) /\ <<x, y, z>> \in Seq(SampleTokens)
        OBVIOUS
    <3>2. <<>> \in Seq(SampleTokens)
        OBVIOUS
    <3>3. "w" \in SampleTokens /\ "a" \in SampleTokens /\ "b" \in SampleTokens /\ US \in SampleTokens /\ RS \in SampleTokens
        BY <2>2
    <3> QED BY <3>1, <3>2, <3>3
  <2> QED BY <2>2, <2>3, <2>5, <2>6, <2>7 DEF FlagArgs
<1> HIDE DEF A
<1>2. \A n \in 0 .. 3 : [1 .. n -> FlagArgs] \subseteq Seq(A)
    BY <1>1
<1> QED BY <1>2 DEF FlagLines, A

\* Of calisto run: the child applies exactly the flags of the command line, in
\* their order, unless a value holds a separator (run.rs 26-95), also when the
\* user's environment has flags of calisto in it (child.rs 180-183).
THEOREM FlagsArriveSpec == Spec => []FlagsArrive
<1> DEFINE Inv == sample \in Seq(Arguments(SampleTokens))
<1>1. Init => Inv
  <2>1. <<>> \in Seq(Arguments(SampleTokens))
      OBVIOUS
  <2> QED BY <2>1, FlagLinesTyped DEF Init
<1>2. Inv /\ [Next]_vars => Inv'
  <2>1. [Next]_vars => sample' = sample
      BY DEF Next, vars
  <2> QED BY <2>1
<1>3. Inv => FlagsArrive
  <2>1. Literals \subseteq SampleTokens
      BY DEF SampleTokens
  <2>2. ASSUME Inv, NEW env PROVE FlagsArriveFor(sample, env)
      BY <2>1, <2>2, FlagsArriveAlways
  <2> QED BY <2>2 DEF FlagsArrive
<1> QED BY <1>1, <1>2, <1>3, PTL DEF Spec

\* The invariants of the three machines of MCCommands, side by side.
CommandsInv == RunInv /\ TestInv /\ ForkInv

\* They hold at the start,
LEMMA CommandsInit == Init => CommandsInv
<1>1. Init => RunInit /\ TestInit /\ ForkInit
    BY DEF Init
<1> QED BY <1>1, RunInitHolds, TestInitHolds, ForkInitHolds, ForkAssumption DEF CommandsInv

\* and a step of one leaves the others alone.
LEMMA CommandsStep == CommandsInv /\ [Next]_vars => CommandsInv'
<1>1. [Next]_vars => [RunNext]_runVars /\ [TestNext]_testVars /\ [ForkNext]_forkVars
    BY DEF Next, vars
<1>2. RunInv /\ [RunNext]_runVars => RunInv'
    BY RunCommandStep, RunAssumption, PinAssumption
<1>3. TestInv /\ [TestNext]_testVars => TestInv'
    BY TestStepHolds, TestAssumption
<1>4. ForkInv /\ [ForkNext]_forkVars => ForkInv'
    BY ForkStepHolds, ForkAssumption
<1> QED BY <1>1, <1>2, <1>3, <1>4 DEF CommandsInv

\* Every machine stays in its states; a daemon of an app never has the default
\* libraries, whatever the commands before it (appconfig.rs 424).
THEOREM CommandsTyped == Spec => []TypeOK
<1>1. CommandsInv => TypeOK
    BY DEF CommandsInv, TypeOK, RunInv, TestInv, ForkInv
<1> QED BY <1>1, CommandsInit, CommandsStep, PTL DEF Spec

\* A script sees the same through a warm daemon as through the interpreter but
\* for what its VM has loaded, for every place and command line and whatever
\* commands used the daemons before, unless one of the known differences holds
\* (run.rs 336-344, child.rs 130-133).
THEOREM WarmIsCold == Spec => []WarmMatchesCold
<1>1. CommandsInv => WarmMatchesCold
    BY WarmRunIsCold, RunAssumption DEF CommandsInv
<1> QED BY <1>1, CommandsInit, CommandsStep, PTL DEF Spec
=============================================================================
