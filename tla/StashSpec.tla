------------------------------ MODULE StashSpec ------------------------------
(***************************************************************************)
(* What the stash (lib/ca/ca-persist.js) promises of its buckets: requests *)
(* on a bucket are carried out one after the other, each takes effect at   *)
(* one instant or not at all, an effect survives any crash, and a request  *)
(* is answered "ok" only after its effect.                                 *)
(*                                                                         *)
(* One weakness of the implementation is part of the promise, because it   *)
(* cannot be kept out: a bucket whose replacement a crash interrupted at   *)
(* the wrong moment keeps its content, but the restarted service does not  *)
(* know of the bucket until it restarts again or the bucket is replaced.   *)
(***************************************************************************)
CONSTANTS
    Buckets,    \* bucket names
    Vals,       \* contents of a bucket, with its metadata
    None        \* "no such bucket", "no request", "no answer"

VARIABLES
    content,    \* content of each bucket
    listed,     \* buckets that the service knows while it is serving
    torn,       \* buckets that the next start will not know
    doing,      \* request being carried out on each bucket
    reply,      \* answer to the last request on each bucket
    serving     \* whether the service is up

vars == <<content, listed, torn, doing, reply, serving>>

Ops == {"put", "del", "get"}
Requests == [op: Ops, val: Vals \cup {None}, done: BOOLEAN]
Answers == Vals \cup {"ok", "error", None}

TypeOK ==
    /\ content \in [Buckets -> Vals \cup {None}]
    /\ listed \subseteq Buckets /\ torn \subseteq Buckets
    /\ doing \in [Buckets -> Requests \cup {None}]
    /\ reply \in [Buckets -> Answers]
    /\ serving \in BOOLEAN

Init ==
    /\ content = [b \in Buckets |-> None]
    /\ listed = {} /\ torn = {}
    /\ doing = [b \in Buckets |-> None]
    /\ reply = [b \in Buckets |-> None]
    /\ serving = FALSE

Begin(b, op, v) ==
    /\ serving /\ doing[b] = None
    /\ doing' = [doing EXCEPT ![b] = [op |-> op, val |-> v, done |-> FALSE]]
    /\ reply' = [reply EXCEPT ![b] = None]
    /\ UNCHANGED <<content, listed, torn, serving>>

\* The instant at which a replacement or a deletion takes effect.
Effect(b) ==
    /\ doing[b] # None
    /\ ~doing[b].done /\ doing[b].op \in {"put", "del"}
    /\ content' = [content EXCEPT ![b] = doing[b].val]
    /\ doing' = [doing EXCEPT ![b].done = TRUE]
    /\ UNCHANGED <<listed, torn, reply, serving>>

Answer(b, ans) ==
    /\ doing' = [doing EXCEPT ![b] = None]
    /\ reply' = [reply EXCEPT ![b] = ans]
    /\ UNCHANGED <<content, torn, serving>>

Commit(b) ==
    /\ doing[b] # None
    /\ doing[b].done
    /\ Answer(b, "ok")
    /\ listed' = IF doing[b].op = "put" THEN listed \cup {b} ELSE listed \ {b}

\* A request fails without an effect.
Fail(b) ==
    /\ doing[b] # None
    /\ ~doing[b].done
    /\ Answer(b, "error")
    /\ UNCHANGED listed

\* Reading a bucket, and deleting one that is not known.
Read(b) ==
    /\ serving /\ doing[b] # None
    /\ doing[b].op = "get" /\ b \in listed
    /\ Answer(b, content[b])
    /\ UNCHANGED listed

DeleteUnknown(b) ==
    /\ serving /\ doing[b] = None
    /\ b \notin listed
    /\ Answer(b, "ok")
    /\ UNCHANGED listed

ReadUnknown(b) ==
    /\ serving /\ doing[b] = None
    /\ b \notin listed
    /\ Answer(b, "error")
    /\ UNCHANGED listed

Crash ==
    /\ torn' \in SUBSET (torn \cup {b \in Buckets : /\ doing[b] # None
                                                    /\ doing[b].op = "put"
                                                    /\ ~doing[b].done})
    /\ listed' = {}
    /\ doing' = [b \in Buckets |-> None]
    /\ reply' = [b \in Buckets |-> None]
    /\ serving' = FALSE
    /\ UNCHANGED content

Recover ==
    /\ ~serving
    /\ serving' = TRUE
    /\ listed' = {b \in Buckets : content[b] # None} \ torn
    /\ torn' = {}
    /\ UNCHANGED <<content, doing, reply>>

Next ==
    \/ Crash \/ Recover
    \/ \E b \in Buckets :
          \/ \E v \in Vals : Begin(b, "put", v)
          \/ Begin(b, "del", None) \/ Begin(b, "get", None)
          \/ Effect(b) \/ Commit(b) \/ Fail(b)
          \/ Read(b) \/ DeleteUnknown(b) \/ ReadUnknown(b)

Spec == Init /\ [][Next]_vars
=============================================================================
