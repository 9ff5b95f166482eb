---------------------------- MODULE MCDaemonLoop ----------------------------
(***************************************************************************)
(* Instances of DaemonLoop for TLC.                                        *)
(***************************************************************************)
EXTENDS DaemonLoop

\* Every client runs the same code and no action prefers one or a pid.
Perms == Permutations(Clients) \cup Permutations(Pids)

=============================================================================
