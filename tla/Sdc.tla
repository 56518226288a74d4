-------------------------------- MODULE Sdc --------------------------------
(***************************************************************************)
(* The client of VMAPI and CNAPI (lib/ca/ca-sdc.js).  VMAPI says which     *)
(* machines a customer has and on which servers; CNAPI says how the        *)
(* servers are called.  Names are cached for ever, and fetched again when  *)
(* one is missing.  Those who need one while a fetch is under way wait for *)
(* that one.                                                               *)
(***************************************************************************)
EXTENDS Integers, FiniteSets

CONSTANTS Servers,          \* the name of each server
          Vms               \* the server of each machine of a customer

VARIABLES cam,              \* the cache, whether it is being fetched, and whether that
                            \* failed the last time
          registered,       \* external: the servers that CNAPI knows
          asked             \* external: those it knew when it was asked

sdcVars == <<cam, registered, asked>>

\* The constructor, and kick.
Fetching == cam' = [cam EXCEPT !.pending = TRUE] /\ asked' = registered
StartSdc == cam' = [cache |-> {}, pending |-> TRUE, error |-> FALSE] /\ asked' = registered
StopSdc == cam' = [cache |-> {}, pending |-> FALSE, error |-> FALSE] /\ UNCHANGED asked
kick == IF cam.pending THEN UNCHANGED <<cam, asked>> ELSE Fetching

\* The answer of CNAPI, which knows at least the servers it knew when asked.
Fetched(found) == [cache |-> cam.cache \cup found, pending |-> FALSE, error |-> FALSE]
FetchFailed == [cam EXCEPT !.pending = FALSE, !.error = TRUE]

\* The machines by host, as far as their servers are known.
Machines == DOMAIN Vms
Resolved(cache) == {vm \in Machines : Vms[vm] \in cache}
ByHost(vms) == [h \in {Servers[Vms[vm]] : vm \in vms} |-> {vm \in vms : Servers[Vms[vm]] = h}]
Complete(cache) == Resolved(cache) = Machines
\* listContainersFinish fails only if it has nothing at all.
Unresolved(c) == Machines # {} /\ Resolved(c.cache) = {} /\ c.error
=============================================================================
