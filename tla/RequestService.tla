--------------------------- MODULE RequestService ---------------------------
(***************************************************************************)
(* What the warm daemon promises a client, without sockets, rows or pids:  *)
(* a RUN starts at most one job, its status is reported at most once and   *)
(* only when the job is over; any other command, and a RUN whose job could *)
(* not be started, gets at most one reply of its kind.  A job may be cut   *)
(* short.  Module DaemonLoop implements this specification.                *)
(***************************************************************************)
EXTENDS Sequences

CONSTANTS Clients, Ops, Nobody

VARIABLES
    asked,    \* the command of each client
    job,      \* the job its RUN started
    reply     \* what it was told

vars == <<asked, job, reply>>

Tell(c, kind, of) ==
    /\ reply[c] = <<>>
    /\ reply' = [reply EXCEPT ![c] = <<[kind |-> kind, of |-> of]>>]

Init ==
    /\ asked = [c \in Clients |-> "none"]
    /\ job = [c \in Clients |-> "none"]
    /\ reply = [c \in Clients |-> <<>>]

Ask(c, cmd) ==
    /\ asked[c] = "none"
    /\ asked' = [asked EXCEPT ![c] = cmd]
    /\ UNCHANGED <<job, reply>>

Start(c) ==
    /\ asked[c] = "RUN" /\ job[c] = "none" /\ reply[c] = <<>>
    /\ job' = [job EXCEPT ![c] = "running"]
    /\ UNCHANGED <<asked, reply>>

\* The job ends by itself, or it is killed with nobody left to tell.
End(c) ==
    /\ job[c] = "running"
    /\ job' = [job EXCEPT ![c] = "over"]
    /\ UNCHANGED <<asked, reply>>

Report(c) ==
    /\ job[c] = "over"
    /\ Tell(c, "STATUS", c)
    /\ UNCHANGED <<asked, job>>

\* The shutdown kills the job and reports it in one step.
EndAndReport(c) ==
    /\ job[c] = "running"
    /\ job' = [job EXCEPT ![c] = "over"]
    /\ Tell(c, "STATUS", c)
    /\ UNCHANGED asked

Refuse(c) ==
    /\ asked[c] \in {"RUN", "BAD"} /\ job[c] = "none"
    /\ Tell(c, "ERR", Nobody)
    /\ UNCHANGED <<asked, job>>

Acknowledge(c) ==
    /\ \/ asked[c] = "PING" /\ Tell(c, "OK", Nobody)
       \/ asked[c] = "STOP" /\ Tell(c, "BYE", Nobody)
    /\ UNCHANGED <<asked, job>>

Next ==
    \E c \in Clients :
        \/ \E cmd \in Ops : Ask(c, cmd)
        \/ Start(c) \/ End(c) \/ Report(c) \/ EndAndReport(c)
        \/ Refuse(c) \/ Acknowledge(c)

Spec == Init /\ [][Next]_vars

=============================================================================
