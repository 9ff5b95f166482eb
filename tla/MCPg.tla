-------------------------------- MODULE MCPg --------------------------------
(* The pg crate for TLC: a behaviour of its handles, or one conversion.      *)
EXTENDS PgHandles, PgText

Handles == [kind |-> "handles"]

MCInit == Init /\ sample \in {Handles} \cup Samples
MCNext == sample = Handles /\ Next /\ UNCHANGED sample
MCSpec == MCInit /\ [][MCNext]_<<vars, sample>>

\* Objects and addresses of a kind are interchangeable (safety only).
Perms ==
  Permutations(Connections) \cup Permutations(Results) \cup Permutations(Ios)
    \cup Permutations(Conns) \cup Permutations(Rows) \cup Permutations(Fds)
=============================================================================
