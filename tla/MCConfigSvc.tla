---- MODULE MCConfigSvc ----
(***************************************************************************)
(* The configuration service on small instances.  Liveness under all the   *)
(* bounded events together is beyond TLC: config_liveness checks it over   *)
(* behaviours that have some of them left, and fewer of another kind.      *)
(***************************************************************************)
EXTENDS ConfigSvc, TLC

Limits == [requests |-> MaxRequests, early |-> MaxEarly, timeouts |-> MaxTimeouts,
           rejects |-> MaxRejects, crashes |-> MaxCrashes, restarts |-> MaxRestarts]

\* The events that are left: as many of each kind as few says, all of those
\* that it does not name.
Left(few) == used = [w \in Bounded |-> IF w \in DOMAIN few THEN Limits[w] - few[w] ELSE 0]

\* Three requests, with an agent that restarts and a command that is late, or
\* one, with that and a crash or a stop of the service.
LiveInit == Empty /\ (Left([crashes |-> 0]) \/ Left([requests |-> 1]))

LiveSpec == LiveInit /\ [][Next]_vars /\ Fairness
====
