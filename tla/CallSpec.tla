------------------------------ MODULE CallSpec ------------------------------
(***************************************************************************)
(* What the command layer (lib/ca/ca-amqp-cap.js) promises to whoever      *)
(* issues a command: it is carried out at most once, its callback is       *)
(* called at most once, a success is reported only for a command that has  *)
(* been carried out and a refusal only for one that has been refused.      *)
(* A command that timed out, was interrupted or whose process died may     *)
(* have been carried out, or may still be.                                 *)
(***************************************************************************)
CONSTANTS
    Calls,      \* commands, identified by who issued them and when
    Timed       \* those that were given a timeout

VARIABLES
    call,       \* what their issuers know of them
    fate        \* what has become of them at their receivers

vars == <<call, fate>>

TypeOK ==
    /\ call \in [Calls -> {"none", "open", "ok", "failed", "timedout", "intr", "gone"}]
    /\ fate \in [Calls -> {"none", "done", "refused"}]

Init ==
    /\ call = [c \in Calls |-> "none"]
    /\ fate = [c \in Calls |-> "none"]

Issue(c) == call[c] = "none" /\ call'[c] = "open" /\ fate'[c] = "none"

Decide(c) ==
    /\ call[c] # "none" /\ fate[c] = "none"
    /\ fate'[c] \in {"done", "refused"} /\ call'[c] = call[c]

Return(c) ==
    /\ call[c] = "open" /\ fate'[c] = fate[c]
    /\ \/ call'[c] = "ok" /\ fate[c] = "done"
       \/ call'[c] = "failed" /\ fate[c] = "refused"
       \/ call'[c] \in {"timedout", "intr", "gone"}

Same(c) == call'[c] = call[c] /\ fate'[c] = fate[c]

\* Several commands may end in one step, when the process stops or dies.
Next ==
    /\ TypeOK'
    /\ \A c \in Calls : Issue(c) \/ Decide(c) \/ Return(c) \/ Same(c)

Safety == Init /\ [][Next]_vars
Spec ==
    /\ Safety
    /\ \A c \in Calls : (call[c] = "open" /\ c \in Timed) ~> (call[c] # "open")
=============================================================================
