------------------------ MODULE DaemonLifecycle_proofs ------------------------
(***************************************************************************)
(* Proofs about DaemonLifecycle, for any number of runs, daemons, stops    *)
(* and attempts.                                                           *)
(*                                                                         *)
(* The safety of the socket rests on one argument.  A daemon that starts   *)
(* and is not in overlap has no rival (Noted), so that no other process    *)
(* has its hands on the two names until it serves (Owns); and whoever      *)
(* comes later finds its socket connectable, so that nobody gets to a step *)
(* that removes a name while it serves (Undisturbed).                      *)
(***************************************************************************)
EXTENDS DaemonLifecycle, TLAPS

\* History: a daemon that starts in company is noted.
Noted == \A d \in Runs : Starting(d) /\ HasRival(d) => d \in overlap

\* What a daemon that had no company has bound, written and found.
Owns(d) ==
    /\ dm[d] \in {"listen", "pidfile", "serve"} => sock = d
    /\ dm[d] = "rebind" => sock = None
    /\ dm[d] = "serve" => pidfile = d
    /\ dm[d] \notin {"lost", "unbound"}

\* While it serves no other daemon is about to act on the two names, and a
\* stop is on its way only if it has reached this very daemon.
Undisturbed(d) ==
    dm[d] = "serve" =>
        /\ \A e \in Runs \ {d} : dm[e] \in {"none", "boot", "bind", "probe"} \cup Exited
        /\ \A s \in Stops : ~StopActive(s) \/ (stop[s] = "read" /\ peer[s] = d)

Alone == \A d \in Runs : d \notin overlap => Owns(d) /\ Undisturbed(d)

\* A daemon is leaving, or has left.
Leaving(d) == dm[d] \in Stopping \cup Exited

\* A daemon is there once its run has spawned it, and a BYE comes from a daemon
\* that leaves its loop.
Answers ==
    /\ \A r \in Runs : run[r] \in {"idle", "spawn"} => dm[r] = "none"
    /\ \A s \in Stops :
        /\ s \in bye => stop[s] = "read" /\ Leaving(peer[s])
        /\ stop[s] = "read" => Listening(peer[s]) \/ Leaving(peer[s])
        /\ \A d \in asked[s] : Leaving(d) \/ (stop[s] = "read" /\ peer[s] = d)
        /\ stop[s] \in {"idle", "connect", "read", "wait"} => tries[s] < Tries

IInv == TypeOK /\ Noted /\ Alone /\ Answers

-----------------------------------------------------------------------------
\* NoteOverlap forgets nothing and notes every starting daemon with a rival.
LEMMA Noticed ==
    ASSUME TypeOK, NoteOverlap
    PROVE  Noted' /\ overlap \subseteq overlap' /\ overlap' \subseteq Runs
BY DEF TypeOK, NoteOverlap, Noted

\* A daemon that starts and is not in overlap has the names to itself.
LEMMA NoCompany ==
    ASSUME Noted, NEW d \in Runs, d \notin overlap, dm[d] \in Booting
    PROVE  /\ \A e \in Runs \ {d} : dm[e] \notin Living /\ run[e] # "spawn"
           /\ \A s \in Stops : ~StopActive(s)
BY DEF Noted, Starting, HasRival

\* Nothing has been started.
LEMMA InitHolds == Init => IInv
<1> SUFFICES ASSUME Init PROVE IInv
  OBVIOUS
<1>1. TypeOK
  BY TriesAssumption DEF Init, TypeOK
<1>2. Noted
  BY DEF Init, Noted, Starting, Booting
<1>3. Alone
  BY DEF Init, Alone, Owns, Undisturbed
<1>4. Answers
  BY TriesAssumption DEF Init, Answers
<1> QED
  BY <1>1, <1>2, <1>3, <1>4 DEF IInv

-----------------------------------------------------------------------------
(* The steps of each process.                                              *)

\* Every step of a run keeps it; it touches neither name.
LEMMA RunHolds ==
    ASSUME IInv, NEW r \in Runs, Run(r) \/ RunTimeout(r)
    PROVE  IInv'
<1> USE DEF IInv
<1>1. CASE RunConnect(r)
  <2>1. overlap \subseteq overlap' /\ overlap' \subseteq Runs /\ Noted'
    BY <1>1, Noticed DEF RunConnect
  <2>2. TypeOK'
    BY <1>1, <2>1 DEF RunConnect, RunTo, files, stopper, TypeOK
  <2>3. ASSUME NEW k \in Runs, k \notin overlap' PROVE (Owns(k) /\ Undisturbed(k))'
    BY <1>1, <2>1, <2>3
    DEF RunConnect, files, stopper, Alone, Owns, Undisturbed, StopActive
  <2>4. Answers'
    BY <1>1 DEF RunConnect, RunTo, stopper, Answers, Leaving, Listening
  <2> QED
    BY <2>1, <2>2, <2>3, <2>4 DEF Alone
<1>2. CASE Spawn(r)
  <2>1. overlap \subseteq overlap' /\ overlap' \subseteq Runs /\ Noted'
    BY <1>2, Noticed DEF Spawn
  <2>2. TypeOK'
    BY <1>2, <2>1 DEF Spawn, RunTo, DaemonTo, files, stopper, TypeOK, Living, Booting
  <2>3. ASSUME NEW k \in Runs, k \notin overlap' PROVE (Owns(k) /\ Undisturbed(k))'
    BY <1>2, <2>1, <2>3
    DEF Spawn, DaemonTo, files, stopper, Alone, Owns, Undisturbed, StopActive
  <2>4. Answers'
    BY <1>2
    DEF Spawn, RunTo, DaemonTo, stopper, TypeOK, Answers, Leaving, Stopping, Exited,
        Listening
  <2> QED
    BY <2>1, <2>2, <2>3, <2>4 DEF Alone
<1>3. CASE RunLoopConnect(r)
  <2>1. overlap \subseteq overlap' /\ overlap' \subseteq Runs /\ Noted'
    BY <1>3, Noticed DEF RunLoopConnect
  <2>2. TypeOK'
    BY <1>3, <2>1 DEF RunLoopConnect, RunTo, files, stopper, TypeOK
  <2>3. ASSUME NEW k \in Runs, k \notin overlap' PROVE (Owns(k) /\ Undisturbed(k))'
    BY <1>3, <2>1, <2>3
    DEF RunLoopConnect, files, stopper, Alone, Owns, Undisturbed, StopActive
  <2>4. Answers'
    BY <1>3 DEF RunLoopConnect, RunTo, stopper, Answers, Leaving, Listening
  <2> QED
    BY <2>1, <2>2, <2>3, <2>4 DEF Alone
<1>4. CASE RunEarly(r)
  <2>1. overlap \subseteq overlap' /\ overlap' \subseteq Runs /\ Noted'
    BY <1>4, Noticed DEF RunEarly
  <2>2. TypeOK'
    BY <1>4, <2>1 DEF RunEarly, RunTo, files, stopper, TypeOK
  <2>3. ASSUME NEW k \in Runs, k \notin overlap' PROVE (Owns(k) /\ Undisturbed(k))'
    BY <1>4, <2>1, <2>3
    DEF RunEarly, files, stopper, Alone, Owns, Undisturbed, StopActive
  <2>4. Answers'
    BY <1>4 DEF RunEarly, RunTo, stopper, Answers, Leaving, Listening
  <2> QED
    BY <2>1, <2>2, <2>3, <2>4 DEF Alone
<1>5. CASE RunAgain(r)
  <2>1. overlap \subseteq overlap' /\ overlap' \subseteq Runs /\ Noted'
    BY <1>5, Noticed DEF RunAgain
  <2>2. TypeOK'
    BY <1>5, <2>1 DEF RunAgain, RunTo, files, stopper, TypeOK
  <2>3. ASSUME NEW k \in Runs, k \notin overlap' PROVE (Owns(k) /\ Undisturbed(k))'
    BY <1>5, <2>1, <2>3
    DEF RunAgain, files, stopper, Alone, Owns, Undisturbed, StopActive
  <2>4. Answers'
    BY <1>5 DEF RunAgain, RunTo, stopper, Answers, Leaving, Listening
  <2> QED
    BY <2>1, <2>2, <2>3, <2>4 DEF Alone
<1>6. CASE RunTimeout(r)
  <2>1. overlap \subseteq overlap' /\ overlap' \subseteq Runs /\ Noted'
    BY <1>6, Noticed DEF RunTimeout
  <2>2. TypeOK'
    BY <1>6, <2>1 DEF RunTimeout, RunTo, DaemonTo, files, stopper, TypeOK, Exited
  <2>3. ASSUME NEW k \in Runs, k \notin overlap' PROVE (Owns(k) /\ Undisturbed(k))'
    BY <1>6, <2>1, <2>3
    DEF RunTimeout, DaemonTo, files, stopper, Alone, Owns, Undisturbed, StopActive,
        Exited
  <2>4. Answers'
    BY <1>6
    DEF RunTimeout, RunTo, DaemonTo, stopper, Answers, Leaving, Exited, Listening
  <2> QED
    BY <2>1, <2>2, <2>3, <2>4 DEF Alone
<1> QED
  BY <1>1, <1>2, <1>3, <1>4, <1>5, <1>6 DEF Run

\* Every step of a daemon keeps it, also when it is killed.
LEMMA DaemonHolds ==
    ASSUME IInv, NEW d \in Runs,
           Daemon(d) \/ Fork(d) \/ JobsEnd(d) \/ Term(d) \/ Crash(d)
    PROVE  IInv'
<1> USE DEF IInv
<1>1. CASE Boot(d)
  <2>1. overlap \subseteq overlap' /\ overlap' \subseteq Runs /\ Noted'
    BY <1>1, Noticed DEF Boot
  <2>2. TypeOK'
    BY <1>1, <2>1 DEF Boot, DaemonTo, files, stopper, TypeOK, Living, Booting, Exited
  <2>3. ASSUME NEW k \in Runs, k \notin overlap' PROVE (Owns(k) /\ Undisturbed(k))'
    BY <1>1, <2>1, <2>3
    DEF Boot, DaemonTo, files, stopper, TypeOK, Alone, Owns, Undisturbed,
        StopActive, Exited
  <2>4. Answers'
    BY <1>1
    DEF Boot, DaemonTo, stopper, TypeOK, Answers, Leaving, Stopping, Exited,
        Listening
  <2> QED
    BY <2>1, <2>2, <2>3, <2>4 DEF Alone
<1>2. CASE Bind(d)
  <2>1. overlap \subseteq overlap' /\ overlap' \subseteq Runs /\ Noted'
    BY <1>2, Noticed DEF Bind
  <2>2. TypeOK'
    BY <1>2, <2>1 DEF Bind, DaemonTo, stopper, TypeOK, Living, Booting
  <2>3. ASSUME NEW k \in Runs, k \notin overlap' PROVE (Owns(k) /\ Undisturbed(k))'
    BY <1>2, <2>1, NoCompany, NoneAssumption, <2>3
    DEF Bind, DaemonTo, files, stopper, TypeOK, Alone, Owns, Undisturbed,
        StopActive, Booting, Exited
  <2>4. Answers'
    BY <1>2
    DEF Bind, DaemonTo, stopper, TypeOK, Answers, Leaving, Stopping, Exited,
        Listening
  <2> QED
    BY <2>1, <2>2, <2>3, <2>4 DEF Alone
<1>3. CASE Listen(d)
  <2>1. overlap \subseteq overlap' /\ overlap' \subseteq Runs /\ Noted'
    BY <1>3, Noticed DEF Listen
  <2>2. TypeOK'
    BY <1>3, <2>1 DEF Listen, DaemonTo, files, stopper, TypeOK, Living, Booting
  <2>3. ASSUME NEW k \in Runs, k \notin overlap' PROVE (Owns(k) /\ Undisturbed(k))'
    BY <1>3, <2>1, <2>3 DEF Listen, DaemonTo, files, Alone, Owns, Undisturbed, Exited
  <2>4. Answers'
    BY <1>3 DEF Listen, DaemonTo, stopper, Answers, Leaving, Stopping, Exited, Listening
  <2> QED
    BY <2>1, <2>2, <2>3, <2>4 DEF Alone
<1>4. CASE Probe(d)
  <2>1. overlap \subseteq overlap' /\ overlap' \subseteq Runs /\ Noted'
    BY <1>4, Noticed DEF Probe
  <2>2. TypeOK'
    BY <1>4, <2>1 DEF Probe, DaemonTo, files, stopper, TypeOK, Living, Booting, Exited
  <2>3. ASSUME NEW k \in Runs, k \notin overlap' PROVE (Owns(k) /\ Undisturbed(k))'
    BY <1>4, <2>1, NoCompany, NoneAssumption, <2>3
    DEF Probe, DaemonTo, files, stopper, Connectable, TypeOK, Alone, Owns,
        Undisturbed, StopActive, Booting, Stopping, Exited, Listening
  <2>4. Answers'
    BY <1>4 DEF Probe, DaemonTo, stopper, Answers, Leaving, Stopping, Exited, Listening
  <2> QED
    BY <2>1, <2>2, <2>3, <2>4 DEF Alone
<1>5. CASE Unlink(d)
  <2>1. overlap \subseteq overlap' /\ overlap' \subseteq Runs /\ Noted'
    BY <1>5, Noticed DEF Unlink
  <2>2. TypeOK'
    BY <1>5, <2>1 DEF Unlink, DaemonTo, stopper, TypeOK, Living, Booting
  <2>3. ASSUME NEW k \in Runs, k \notin overlap' PROVE (Owns(k) /\ Undisturbed(k))'
    BY <1>5, <2>1, NoCompany, <2>3
    DEF Unlink, DaemonTo, Alone, Owns, Undisturbed, Living, Booting, Exited
  <2>4. Answers'
    BY <1>5 DEF Unlink, DaemonTo, stopper, Answers, Leaving, Stopping, Exited, Listening
  <2> QED
    BY <2>1, <2>2, <2>3, <2>4 DEF Alone
<1>6. CASE Rebind(d)
  <2>1. overlap \subseteq overlap' /\ overlap' \subseteq Runs /\ Noted'
    BY <1>6, Noticed DEF Rebind
  <2>2. TypeOK'
    BY <1>6, <2>1 DEF Rebind, DaemonTo, stopper, TypeOK, Living, Booting, Exited
  <2>3. ASSUME NEW k \in Runs, k \notin overlap' PROVE (Owns(k) /\ Undisturbed(k))'
    BY <1>6, <2>1, NoCompany, <2>3
    DEF Rebind, DaemonTo, TypeOK, Alone, Owns, Undisturbed, Booting, Exited
  <2>4. Answers'
    BY <1>6
    DEF Rebind, DaemonTo, stopper, TypeOK, Answers, Leaving, Stopping, Exited,
        Listening
  <2> QED
    BY <2>1, <2>2, <2>3, <2>4 DEF Alone
<1>7. CASE WritePidfile(d)
  <2>1. overlap \subseteq overlap' /\ overlap' \subseteq Runs /\ Noted'
    BY <1>7, Noticed DEF WritePidfile
  <2>2. TypeOK'
    BY <1>7, <2>1 DEF WritePidfile, DaemonTo, stopper, TypeOK, Living
  <2>3. ASSUME NEW k \in Runs, k \notin overlap' PROVE (Owns(k) /\ Undisturbed(k))'
    BY <1>7, <2>1, NoCompany, <2>3
    DEF WritePidfile, DaemonTo, stopper, TypeOK, Alone, Owns, Undisturbed,
        StopActive, Booting, Exited
  <2>4. Answers'
    BY <1>7
    DEF WritePidfile, DaemonTo, stopper, Answers, Leaving, Stopping, Exited,
        Listening
  <2> QED
    BY <2>1, <2>2, <2>3, <2>4 DEF Alone
<1>8. CASE Term(d)
  <2>1. overlap \subseteq overlap' /\ overlap' \subseteq Runs /\ Noted'
    BY <1>8, Noticed DEF Term
  <2>2. TypeOK'
    BY <1>8, <2>1 DEF Term, DaemonTo, files, stopper, TypeOK, Living, Stopping
  <2>3. ASSUME NEW k \in Runs, k \notin overlap' PROVE (Owns(k) /\ Undisturbed(k))'
    BY <1>8, <2>1, <2>3
    DEF Term, DaemonTo, files, TypeOK, Alone, Owns, Undisturbed, Exited
  <2>4. Answers'
    BY <1>8 DEF Term, DaemonTo, stopper, Answers, Leaving, Stopping, Listening
  <2> QED
    BY <2>1, <2>2, <2>3, <2>4 DEF Alone
<1>9. ASSUME NEW s \in Stops, ServeStop(d, s) PROVE IInv'
  <2>1. overlap \subseteq overlap' /\ overlap' \subseteq Runs /\ Noted'
    BY <1>9, Noticed DEF ServeStop
  <2>2. TypeOK'
    BY <1>9, <2>1 DEF ServeStop, DaemonTo, files, stopper, TypeOK, Living, Stopping
  <2>3. ASSUME NEW k \in Runs, k \notin overlap' PROVE (Owns(k) /\ Undisturbed(k))'
    BY <1>9, <2>1, <2>3
    DEF ServeStop, DaemonTo, files, TypeOK, Alone, Owns, Undisturbed, Exited
  <2>4. Answers'
    BY <1>9
    DEF ServeStop, DaemonTo, stopper, TypeOK, Answers, Leaving, Stopping, Listening
  <2> QED
    BY <2>1, <2>2, <2>3, <2>4 DEF Alone
<1>10. CASE RemoveSocket(d)
  <2>1. overlap \subseteq overlap' /\ overlap' \subseteq Runs /\ Noted'
    BY <1>10, Noticed DEF RemoveSocket
  <2>2. TypeOK'
    BY <1>10, <2>1 DEF RemoveSocket, DaemonTo, stopper, TypeOK, Living, Stopping
  <2>3. ASSUME NEW k \in Runs, k \notin overlap' PROVE (Owns(k) /\ Undisturbed(k))'
    BY <1>10, <2>1, NoCompany, <2>3
    DEF RemoveSocket, DaemonTo, Alone, Owns, Undisturbed, Living, Booting, Stopping,
        Exited
  <2>4. Answers'
    BY <1>10 DEF RemoveSocket, DaemonTo, stopper, Answers, Leaving, Stopping, Listening
  <2> QED
    BY <2>1, <2>2, <2>3, <2>4 DEF Alone
<1>11. CASE RemovePidfile(d)
  <2>1. overlap \subseteq overlap' /\ overlap' \subseteq Runs /\ Noted'
    BY <1>11, Noticed DEF RemovePidfile
  <2>2. TypeOK'
    BY <1>11, <2>1 DEF RemovePidfile, DaemonTo, stopper, TypeOK, Exited
  <2>3. ASSUME NEW k \in Runs, k \notin overlap' PROVE (Owns(k) /\ Undisturbed(k))'
    BY <1>11, <2>1, <2>3 DEF RemovePidfile, DaemonTo, Alone, Owns, Undisturbed, Exited
  <2>4. Answers'
    BY <1>11 DEF RemovePidfile, DaemonTo, stopper, Answers, Leaving, Exited, Listening
  <2> QED
    BY <2>1, <2>2, <2>3, <2>4 DEF Alone
<1>12. CASE Crash(d)
  <2>1. overlap \subseteq overlap' /\ overlap' \subseteq Runs /\ Noted'
    BY <1>12, Noticed DEF Crash
  <2>2. TypeOK'
    BY <1>12, <2>1 DEF Crash, DaemonTo, files, stopper, TypeOK, Exited
  <2>3. ASSUME NEW k \in Runs, k \notin overlap' PROVE (Owns(k) /\ Undisturbed(k))'
    BY <1>12, <2>1, <2>3
    DEF Crash, DaemonTo, files, stopper, Alone, Owns, Undisturbed, StopActive,
        Exited
  <2>4. Answers'
    BY <1>12
    DEF Crash, DaemonTo, stopper, Answers, Leaving, Living, Booting, Stopping,
        Exited, Listening
  <2> QED
    BY <2>1, <2>2, <2>3, <2>4 DEF Alone
<1>13. CASE Fork(d)
  <2>1. overlap \subseteq overlap' /\ overlap' \subseteq Runs /\ Noted'
    BY <1>13, Noticed DEF Fork
  <2>2. TypeOK'
    BY <1>13, <2>1 DEF Fork, files, TypeOK
  <2>3. ASSUME NEW k \in Runs, k \notin overlap' PROVE (Owns(k) /\ Undisturbed(k))'
    BY <1>13, <2>1, <2>3 DEF Fork, files, Alone, Owns, Undisturbed, StopActive
  <2>4. Answers'
    BY <1>13 DEF Fork, Answers, Leaving, Listening
  <2> QED
    BY <2>1, <2>2, <2>3, <2>4 DEF Alone
<1>14. CASE JobsEnd(d)
  <2>1. overlap \subseteq overlap' /\ overlap' \subseteq Runs /\ Noted'
    BY <1>14, Noticed DEF JobsEnd
  <2>2. TypeOK'
    BY <1>14, <2>1 DEF JobsEnd, files, TypeOK
  <2>3. ASSUME NEW k \in Runs, k \notin overlap' PROVE (Owns(k) /\ Undisturbed(k))'
    BY <1>14, <2>1, <2>3 DEF JobsEnd, files, Alone, Owns, Undisturbed, StopActive
  <2>4. Answers'
    BY <1>14 DEF JobsEnd, Answers, Leaving, Listening
  <2> QED
    BY <2>1, <2>2, <2>3, <2>4 DEF Alone
<1> QED
  BY <1>1, <1>2, <1>3, <1>4, <1>5, <1>6, <1>7, <1>8, <1>9, <1>10, <1>11, <1>12,
     <1>13, <1>14
  DEF Daemon

\* Every step of a stop keeps it: a daemon that had no company still answers
\* it, so it never gets as far as the removal.
LEMMA StopHolds ==
    ASSUME IInv, NEW s \in Stops, Stop(s)
    PROVE  IInv'
<1> USE DEF IInv
<1>1. CASE StopConnect(s)
  <2>1. overlap \subseteq overlap' /\ overlap' \subseteq Runs /\ Noted'
    BY <1>1, Noticed DEF StopConnect
  <2>2. TypeOK'
    BY <1>1, <2>1 DEF StopConnect, StopTo, files, Connectable, TypeOK
  <2>3. ASSUME NEW k \in Runs, k \notin overlap' PROVE (Owns(k) /\ Undisturbed(k))'
    BY <1>1, <2>1, NoneAssumption, <2>3
    DEF StopConnect, StopTo, files, Connectable, TypeOK, Alone, Owns, Undisturbed,
        StopActive, Listening
  <2>4. Answers'
    BY <1>1 DEF StopConnect, StopTo, Connectable, TypeOK, Answers, Leaving, Listening
  <2> QED
    BY <2>1, <2>2, <2>3, <2>4 DEF Alone
<1>2. CASE StopRead(s)
  <2>1. overlap \subseteq overlap' /\ overlap' \subseteq Runs /\ Noted'
    BY <1>2, Noticed DEF StopRead
  <2>2. TypeOK'
    BY <1>2, <2>1 DEF StopRead, StopTo, files, TypeOK
  <2>3. ASSUME NEW k \in Runs, k \notin overlap' PROVE (Owns(k) /\ Undisturbed(k))'
    BY <1>2, <2>1, <2>3
    DEF StopRead, files, Alone, Owns, Undisturbed, StopActive, Answers, Leaving,
        Stopping, Exited
  <2>4. Answers'
    BY <1>2 DEF StopRead, StopTo, TypeOK, Answers, Leaving, Listening
  <2> QED
    BY <2>1, <2>2, <2>3, <2>4 DEF Alone
<1>3. CASE StopSeesGone(s)
  <2>1. overlap \subseteq overlap' /\ overlap' \subseteq Runs /\ Noted'
    BY <1>3, Noticed DEF StopSeesGone
  <2>2. TypeOK'
    BY <1>3, <2>1 DEF StopSeesGone, StopTo, files, TypeOK
  <2>3. ASSUME NEW k \in Runs, k \notin overlap' PROVE (Owns(k) /\ Undisturbed(k))'
    BY <1>3, <2>1, <2>3 DEF StopSeesGone, files, Alone, Owns, Undisturbed, StopActive
  <2>4. Answers'
    BY <1>3 DEF StopSeesGone, StopTo, Answers, Leaving, Listening
  <2> QED
    BY <2>1, <2>2, <2>3, <2>4 DEF Alone
<1>4. CASE StopTriesAgain(s)
  <2>1. overlap \subseteq overlap' /\ overlap' \subseteq Runs /\ Noted'
    BY <1>4, Noticed DEF StopTriesAgain
  <2>2. TypeOK'
    BY <1>4, <2>1, TriesAssumption DEF StopTriesAgain, StopTo, files, TypeOK, Answers
  <2>3. ASSUME NEW k \in Runs, k \notin overlap' PROVE (Owns(k) /\ Undisturbed(k))'
    BY <1>4, <2>1, <2>3 DEF StopTriesAgain, files, Alone, Owns, Undisturbed, StopActive
  <2>4. Answers'
    BY <1>4 DEF StopTriesAgain, StopTo, TypeOK, Answers, Leaving, Listening
  <2> QED
    BY <2>1, <2>2, <2>3, <2>4 DEF Alone
<1>5. CASE StopRemovesSocket(s)
  <2>1. overlap \subseteq overlap' /\ overlap' \subseteq Runs /\ Noted'
    BY <1>5, Noticed DEF StopRemovesSocket
  <2>2. TypeOK'
    BY <1>5, <2>1 DEF StopRemovesSocket, StopTo, TypeOK
  <2>3. ASSUME NEW k \in Runs, k \notin overlap' PROVE (Owns(k) /\ Undisturbed(k))'
    BY <1>5, <2>1, NoCompany, <2>3
    DEF StopRemovesSocket, Alone, Owns, Undisturbed, StopActive, Booting
  <2>4. Answers'
    BY <1>5 DEF StopRemovesSocket, StopTo, Answers, Leaving, Listening
  <2> QED
    BY <2>1, <2>2, <2>3, <2>4 DEF Alone
<1>6. CASE StopRemovesPidfile(s)
  <2>1. overlap \subseteq overlap' /\ overlap' \subseteq Runs /\ Noted'
    BY <1>6, Noticed DEF StopRemovesPidfile
  <2>2. TypeOK'
    BY <1>6, <2>1 DEF StopRemovesPidfile, StopTo, TypeOK
  <2>3. ASSUME NEW k \in Runs, k \notin overlap' PROVE (Owns(k) /\ Undisturbed(k))'
    BY <1>6, <2>1, <2>3 DEF StopRemovesPidfile, Alone, Owns, Undisturbed, StopActive
  <2>4. Answers'
    BY <1>6 DEF StopRemovesPidfile, StopTo, Answers, Leaving, Listening
  <2> QED
    BY <2>1, <2>2, <2>3, <2>4 DEF Alone
<1> QED
  BY <1>1, <1>2, <1>3, <1>4, <1>5, <1>6 DEF Stop

-----------------------------------------------------------------------------
\* Every step keeps it, and so does a stutter.
LEMMA StepHolds == IInv /\ [Next]_vars => IInv'
<1> SUFFICES ASSUME IInv, [Next]_vars PROVE IInv'
  OBVIOUS
<1>1. CASE UNCHANGED vars
  BY <1>1 DEF vars, files, stopper, IInv, TypeOK, Noted, Starting, HasRival, StopActive,
              Alone, Owns, Undisturbed, Answers, Leaving, Listening
<1> QED
  BY <1>1, RunHolds, DaemonHolds, StopHolds DEF Next

\* What IInv says of the daemons and stops that are not starting.
LEMMA Conclusions ==
    IInv => /\ OrphanOnlyByOverlap /\ PidfileNamesOwner
            /\ StaleSocketIsRecovered /\ StopIsFinal
<1> SUFFICES ASSUME IInv
             PROVE  /\ OrphanOnlyByOverlap /\ PidfileNamesOwner
                    /\ StaleSocketIsRecovered /\ StopIsFinal
  OBVIOUS
<1>1. OrphanOnlyByOverlap
  BY DEF IInv, Alone, Owns, OrphanOnlyByOverlap, Orphan
<1>2. PidfileNamesOwner
  BY DEF IInv, Alone, Owns, PidfileNamesOwner
<1>3. StaleSocketIsRecovered
  BY DEF IInv, Alone, Owns, StaleSocketIsRecovered
<1>4. StopIsFinal
  BY DEF IInv, TypeOK, Answers, Leaving, StopIsFinal, Booting, Stopping, Exited
<1> QED
  BY <1>1, <1>2, <1>3, <1>4

\* In every reachable state the inductive invariant holds.
THEOREM InvariantHolds == Spec => []IInv
<1> QED
  BY InitHolds, StepHolds, PTL DEF Spec

\* Runs, daemons and stops are at one of their points; in particular a stop that
\* waits for an answer knows a daemon, and never tries more often than it may.
THEOREM LifecycleTyped == Spec => []TypeOK
<1>1. IInv => TypeOK
  BY DEF IInv
<1> QED
  BY <1>1, InvariantHolds, PTL

\* Whatever crashed before and however many runs, daemons and stops there are, a
\* daemon that started without company is never stranded (daemon.rs 432-452).
THEOREM OrphansHadCompany == Spec => []OrphanOnlyByOverlap
<1>1. IInv => OrphanOnlyByOverlap
  BY Conclusions
<1> QED
  BY <1>1, InvariantHolds, PTL

\* The pidfile holds the pid of the daemon that answers on the socket, if it
\* started without company (daemon.rs 457-462).
THEOREM PidfileIsTrue == Spec => []PidfileNamesOwner
<1>1. IInv => PidfileNamesOwner
  BY Conclusions
<1> QED
  BY <1>1, InvariantHolds, PTL

\* A daemon without company binds over whatever a crash left at whatever point;
\* its run is never told that it exited early for a socket in the way.
THEOREM StaleSocketsAreRecovered == Spec => []StaleSocketIsRecovered
<1>1. IInv => StaleSocketIsRecovered
  BY Conclusions
<1> QED
  BY <1>1, InvariantHolds, PTL

\* No daemon that a finished stop has reached serves on (runtime.rs 400-423).
THEOREM StoppedMeansStopped == Spec => []StopIsFinal
<1>1. IInv => StopIsFinal
  BY Conclusions
<1> QED
  BY <1>1, InvariantHolds, PTL
=============================================================================
