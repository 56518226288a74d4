-------------------------------- MODULE Stash --------------------------------
(***************************************************************************)
(* The stash of the persistence service (lib/ca/ca-persist.js): buckets as *)
(* directories, replaced and deleted by sequences of file system calls     *)
(* that a crash may cut anywhere, and the clean-up at the next start.      *)
(*                                                                         *)
(* A directory is absent (None), complete (a value), or incomplete (Junk:  *)
(* being written, or partly removed).  Renaming a directory onto another   *)
(* one fails with EEXIST, as it does on the platform of this service.      *)
(*                                                                         *)
(* A definition marked "Mutant" is no part of the model: it is the one     *)
(* after it with a plausible bug, to show which property notices.          *)
(***************************************************************************)
EXTENDS Integers, FiniteSets, Sequences

CONSTANTS
    Buckets,        \* bucket names
    Longer,         \* Longer[b]: the buckets whose names start with b's name
    Vals,           \* contents of a bucket, with its metadata
    Rands,          \* the random numbers in directory names
    MaxRequests,    \* BOUND: requests
    MaxCrashes,     \* BOUND: crashes
    MaxErrors,      \* BOUND: file system calls that fail
    Junk, None

ASSUME ConstantsAssumption ==
    /\ Longer \in [Buckets -> SUBSET Buckets]
    /\ IsFiniteSet(Buckets) /\ IsFiniteSet(Rands)
    /\ Junk \notin Vals /\ None \notin Vals /\ Junk # None
    /\ {"ok", "error"} \cap (Vals \cup {Junk, None}) = {}
    /\ {MaxRequests, MaxCrashes, MaxErrors} \subseteq Nat

\* No bucket's name is the start of another's, as the requests need it to be
\* independent of each other: a deletion then looks at the directories of its
\* own bucket only.  (A hypothesis, not a fact of the code.)
Standalone == \A b \in Buckets : Longer[b] = {}

VARIABLES
    st,         \* down, cleaning (the last stage of init), up
    dir,        \* the directories of the stash
    listed,     \* keys of cas_buckets
    todo,       \* cas_cleanup: leftovers of the last run, in readdir's order
    queue,      \* cts_waiters of each bucket's task serializer
    task,       \* cts_pending: the request in progress on each bucket
    reply,      \* answer to the last request on each bucket
    used        \* the bounded events so far

vars == <<st, dir, listed, todo, queue, task, reply, used>>

\* Directory names: bucket-<b>, newbucket-<b>-<r>, oldbucket-<b>-<r> and
\* delbucket-<b>-<r>.
Kinds == {"new", "old", "del"}
Names == ({"bucket"} \X Buckets \X {None}) \cup (Kinds \X Buckets \X Rands)
Real(b) == <<"bucket", b, None>>
\* Mutant: the new content is written where the old one is.
InPlace(b, r) == <<"bucket", b, None>>
New(b, r) == <<"new", b, r>>
Old(b, r) == <<"old", b, r>>
Del(b, r) == <<"del", b, r>>
Kind(n) == n[1]
Bucket(n) == n[2]
Exists(n) == dir[n] # None

Requests == [op: {"put", "del", "get"}, val: Vals \cup {None}]
Stages == {"mkdir", "save", "retire", "install", "discard", "unwind",
           "list", "purge", "erase", "read", "hung"}
Tasks == [op: {"put", "del", "get"}, val: Vals \cup {None}, rand: Rands, stage: Stages,
          purge: SUBSET Names, failed: BOOLEAN]
Answers == Vals \cup {"ok", "error", None}

\* No request is the constant that stands for none.
ASSUME NoneAssumption ==
    /\ None \notin Tasks
    /\ None \notin [op: {"put", "del", "get"}, val: Vals \cup {None}, done: BOOLEAN]

Use(what) == used' = [used EXCEPT ![what] = @ + 1]
IOError == used.errors < MaxErrors /\ Use("errors")

\* Init decides whether file system calls may fail at all.
Sound == used.errors > MaxErrors

-----------------------------------------------------------------------------
(* Requests (bucketTask and the task serializer).                          *)

\* BOUND: requests.
Ask(b, op, v) ==
    /\ st = "up"
    /\ used.requests < MaxRequests /\ Use("requests")
    /\ queue' = [queue EXCEPT ![b] = Append(@, [op |-> op, val |-> v])]
    /\ UNCHANGED <<st, dir, listed, todo, task, reply>>

\* The end of a request: its callback, then the serializer's.
\* Mutant: the serializer is not told of the end.
SerializerStuck(b, ans) == reply' = [reply EXCEPT ![b] = ans] /\ UNCHANGED task
Finish(b, ans) ==
    /\ reply' = [reply EXCEPT ![b] = ans]
    /\ task' = [task EXCEPT ![b] = None]

Dequeue(b) ==
    /\ st = "up" /\ task[b] = None /\ queue[b] # <<>>
    /\ queue' = [queue EXCEPT ![b] = Tail(@)]

\* A bucket that is not in cas_buckets is neither read nor deleted.
TakeUnknown(b) ==
    /\ Dequeue(b)
    /\ Head(queue[b]).op # "put" /\ b \notin listed
    /\ Finish(b, IF Head(queue[b]).op = "del" THEN "ok" ELSE "error")
    /\ UNCHANGED <<st, dir, listed, todo, used>>

Take(b) ==
    LET q == Head(queue[b])
        first == CASE q.op = "put" -> "mkdir" [] q.op = "del" -> "list" [] OTHER -> "read"
    IN /\ Dequeue(b)
       /\ q.op = "put" \/ b \in listed
       /\ \E r \in Rands :
             task' = [task EXCEPT ![b] = [op |-> q.op, val |-> q.val, rand |-> r,
                                          stage |-> first, purge |-> {}, failed |-> FALSE]]
       /\ reply' = [reply EXCEPT ![b] = None]
       /\ UNCHANGED <<st, dir, listed, todo, used>>

At(b, stage) == st = "up" /\ task[b] # None /\ task[b].stage = stage
Goto(b, stage) == task' = [task EXCEPT ![b].stage = stage] /\ UNCHANGED reply
Rand(b) == task[b].rand

-----------------------------------------------------------------------------
(* File system calls.                                                      *)

Moved(src, dst) == [dir EXCEPT ![dst] = dir[src], ![src] = None]

\* caRemoveTree unlinks the files, then removes the directory; it does
\* nothing to one that does not exist.
Eroded(n) == dir[n] \notin {Junk, None} /\ dir' = [dir EXCEPT ![n] = Junk]
Removed(n) == dir[n] \in {Junk, None} /\ dir' = [dir EXCEPT ![n] = None]

\* caRemoveDirectory returns, and does not call back, after an error on one
\* of the files.
Hang(b) ==
    /\ \/ At(b, "discard") /\ Exists(Old(b, Rand(b)))
       \/ At(b, "unwind") /\ Exists(New(b, Rand(b)))
       \/ At(b, "erase") /\ Exists(Del(b, Rand(b)))
       \/ At(b, "purge") /\ \E n \in task[b].purge : Exists(n)
    /\ IOError
    /\ Goto(b, "hung")
    /\ UNCHANGED <<st, dir, listed, todo, queue>>

\* The process ends; an exception or caPanic has the same effect.
Die ==
    /\ st' = "down"
    /\ listed' = {} /\ todo' = <<>>
    /\ queue' = [b \in Buckets |-> <<>>]
    /\ task' = [b \in Buckets |-> None]
    /\ reply' = [b \in Buckets |-> None]
    /\ UNCHANGED dir

Crash == st # "down" /\ used.crashes < MaxCrashes /\ Use("crashes") /\ Die

-----------------------------------------------------------------------------
(* doBucketFill.                                                           *)

Mkdir(b) ==
    LET n == New(b, Rand(b))
    IN /\ At(b, "mkdir")
       /\ \/ /\ ~Exists(n)
             /\ dir' = [dir EXCEPT ![n] = Junk]
             /\ Goto(b, "save") /\ UNCHANGED used
          \/ /\ Exists(n)
             /\ Goto(b, "unwind") /\ UNCHANGED <<dir, used>>
          \/ /\ IOError
             /\ Goto(b, "unwind") /\ UNCHANGED dir
       /\ UNCHANGED <<st, listed, todo, queue>>

Save(b) ==
    /\ At(b, "save")
    /\ \/ /\ dir' = [dir EXCEPT ![New(b, Rand(b))] = task[b].val]
          /\ Goto(b, "retire") /\ UNCHANGED used
       \/ /\ IOError
          /\ Goto(b, "unwind") /\ UNCHANGED dir
    /\ UNCHANGED <<st, listed, todo, queue>>

\* The new directory is removed after a failure before it was complete; an
\* error of the removal is ignored.
Unwind(b) ==
    LET n == New(b, Rand(b))
    IN /\ At(b, "unwind")
       /\ \/ /\ Eroded(n)
             /\ UNCHANGED <<task, reply, used>>
          \/ /\ Removed(n)
             /\ Finish(b, "error") /\ UNCHANGED used
          \/ /\ IOError
             /\ Finish(b, "error") /\ UNCHANGED dir
       /\ UNCHANGED <<st, listed, todo, queue>>

\* Mutant: the old directory is removed first.
RetireByRemoving(b) ==
    /\ At(b, "retire")
    /\ dir' = [dir EXCEPT ![Real(b)] = None]
    /\ Goto(b, "install")
    /\ UNCHANGED <<st, listed, todo, queue, used>>

Retire(b) ==
    LET n == Old(b, Rand(b))
    IN /\ At(b, "retire")
       /\ ~(Exists(Real(b)) /\ Exists(n))
       /\ dir' = IF Exists(Real(b)) THEN Moved(Real(b), n) ELSE dir
       /\ Goto(b, "install")
       /\ UNCHANGED <<st, listed, todo, queue, used>>

Install(b) ==
    /\ At(b, "install")
    /\ ~Exists(Real(b))
    /\ dir' = Moved(New(b, Rand(b)), Real(b))
    /\ Goto(b, "discard")
    /\ UNCHANGED <<st, listed, todo, queue, used>>

\* A failure once the new directory is complete.
Panic(b) ==
    /\ At(b, "retire") \/ At(b, "install")
    /\ \/ /\ Exists(Real(b))
          /\ At(b, "retire") => Exists(Old(b, Rand(b)))
          /\ UNCHANGED used
       \/ IOError
    /\ Die

\* The old directory goes; an error of the removal is only logged.
Discard(b) ==
    LET n == Old(b, Rand(b))
        commit == listed' = listed \cup {b} /\ Finish(b, "ok")
    IN /\ At(b, "discard")
       /\ \/ /\ Eroded(n)
             /\ UNCHANGED <<listed, task, reply, used>>
          \/ /\ Removed(n)
             /\ commit /\ UNCHANGED used
          \/ /\ Exists(n) /\ IOError
             /\ commit /\ UNCHANGED dir
       /\ UNCHANGED <<st, todo, queue>>

-----------------------------------------------------------------------------
(* doBucketDelete.                                                         *)

\* Mutant: nothing is purged before the bucket is deleted.
NoneIn(b) == {}

\* The old directories whose name starts with "oldbucket-<b>".
OldOnes(b) == {n \in Names : Kind(n) = "old" /\ Exists(n) /\ Bucket(n) \in {b} \cup Longer[b]}

List(b) ==
    /\ At(b, "list")
    /\ \/ /\ task' = [task EXCEPT ![b].stage = "purge", ![b].purge = OldOnes(b)]
          /\ UNCHANGED <<reply, used>>
       \/ IOError /\ Finish(b, "error")
    /\ UNCHANGED <<st, dir, listed, todo, queue>>

Purge(b) ==
    /\ At(b, "purge")
    /\ \E n \in task[b].purge :
          \/ /\ Eroded(n)
             /\ UNCHANGED <<task, used>>
          \/ /\ Removed(n)
             /\ task' = [task EXCEPT ![b].purge = @ \ {n}] /\ UNCHANGED used
          \/ /\ IOError
             /\ task' = [task EXCEPT ![b].purge = @ \ {n}, ![b].failed = TRUE]
             /\ UNCHANGED dir
    /\ UNCHANGED <<st, listed, todo, queue, reply>>

\* The rename fails if the name is taken, and may have happened although the
\* sync after it failed.
Move(b) ==
    LET n == Del(b, Rand(b))
    IN /\ At(b, "purge") /\ task[b].purge = {}
       /\ \/ /\ task[b].failed
             /\ Finish(b, "error") /\ UNCHANGED <<dir, used>>
          \/ /\ ~task[b].failed
             /\ Exists(Real(b)) /\ Exists(n)
             /\ Finish(b, "error") /\ UNCHANGED <<dir, used>>
          \/ /\ ~task[b].failed
             /\ ~(Exists(Real(b)) /\ Exists(n))
             /\ dir' = IF Exists(Real(b)) THEN Moved(Real(b), n) ELSE dir
             /\ \/ Goto(b, "erase") /\ UNCHANGED used
                \/ IOError /\ Finish(b, "error")
       /\ UNCHANGED <<st, listed, todo, queue>>

\* Whether or not the moved directory could be removed, the bucket is gone.
Erase(b) ==
    LET n == Del(b, Rand(b))
        commit == listed' = listed \ {b} /\ Finish(b, "ok")
    IN /\ At(b, "erase")
       /\ \/ /\ Eroded(n)
             /\ UNCHANGED <<listed, task, reply, used>>
          \/ /\ Removed(n)
             /\ commit /\ UNCHANGED used
          \/ /\ Exists(n) /\ IOError
             /\ commit /\ UNCHANGED dir
       /\ UNCHANGED <<st, todo, queue>>

\* doBucketContents.
Read(b) ==
    /\ At(b, "read")
    /\ Finish(b, IF dir[Real(b)] \in Vals THEN dir[Real(b)] ELSE "error")
    /\ UNCHANGED <<st, dir, listed, todo, queue, used>>

-----------------------------------------------------------------------------
(* init: loadBuckets and loadFini.                                         *)

Orders(S) == {q \in [1..Cardinality(S) -> S] : \A n \in S : \E k \in DOMAIN q : q[k] = n}

Leftovers == {n \in Names : Kind(n) \in {"new", "old"} /\ Exists(n)}

\* loadFini throws if a bucket has no metadata, which Bootable excludes.
Load ==
    /\ st = "down"
    /\ st' = "cleaning"
    /\ listed' = {b \in Buckets : Exists(Real(b))}
    /\ todo' \in Orders(Leftovers)
    /\ UNCHANGED <<dir, queue, task, reply, used>>

\* cleanupRemove; cleanupPromote when the bucket exists, too.
Remove ==
    LET n == Head(todo)
    IN /\ st = "cleaning" /\ todo # <<>>
       /\ Kind(n) = "new" \/ Exists(Real(Bucket(n)))
       /\ \/ Eroded(n) /\ UNCHANGED todo
          \/ Removed(n) /\ todo' = Tail(todo)
       /\ UNCHANGED <<st, listed, queue, task, reply, used>>

Promote ==
    LET n == Head(todo)
    IN /\ st = "cleaning" /\ todo # <<>>
       /\ Kind(n) = "old" /\ ~Exists(Real(Bucket(n)))
       /\ dir' = Moved(n, Real(Bucket(n)))
       /\ todo' = Tail(todo)
       /\ UNCHANGED <<st, listed, queue, task, reply, used>>

Serve ==
    /\ st = "cleaning" /\ todo = <<>>
    /\ st' = "up"
    /\ UNCHANGED <<dir, listed, todo, queue, task, reply, used>>

-----------------------------------------------------------------------------
Init ==
    /\ st = "down"
    /\ dir = [n \in Names |-> None]
    /\ listed = {} /\ todo = <<>>
    /\ queue = [b \in Buckets |-> <<>>]
    /\ task = [b \in Buckets |-> None]
    /\ reply = [b \in Buckets |-> None]
    /\ used \in [requests : {0}, crashes : {0}, errors : {0, MaxErrors + 1}]

Work(b) ==
    \/ TakeUnknown(b) \/ Take(b) \/ Read(b)
    \/ Mkdir(b) \/ Save(b) \/ Unwind(b) \/ Retire(b) \/ Install(b) \/ Discard(b)
    \/ List(b) \/ Purge(b) \/ Move(b) \/ Erase(b)

Boot == Load \/ Remove \/ Promote \/ Serve

Next ==
    \/ Boot \/ Crash
    \/ \E b \in Buckets :
          \/ Work(b) \/ Hang(b) \/ Panic(b)
          \/ Ask(b, "del", None) \/ Ask(b, "get", None)
          \/ \E v \in Vals : Ask(b, "put", v)

Spec == Init /\ [][Next]_vars

\* Node completes every call it has started; the service is restarted when it
\* dies.
FairSpec == Spec /\ WF_vars(Boot) /\ \A b \in Buckets : WF_vars(Work(b))

-----------------------------------------------------------------------------
(* Properties.                                                             *)

TypeOK ==
    /\ st \in {"down", "cleaning", "up"}
    /\ dir \in [Names -> Vals \cup {Junk, None}]
    /\ listed \subseteq Buckets
    /\ todo \in Seq(Names)
    /\ queue \in [Buckets -> Seq(Requests)]
    /\ task \in [Buckets -> Tasks \cup {None}]
    /\ reply \in [Buckets -> Answers]
    /\ used \in [{"requests", "crashes", "errors"} -> Nat]

\* The content of a bucket: what the next start would find.
Spare(b) == {r \in Rands : dir[Old(b, r)] \in Vals}
Content(b) ==
    IF Exists(Real(b)) THEN dir[Real(b)]
    ELSE IF Spare(b) # {} THEN dir[Old(b, CHOOSE r \in Spare(b) : TRUE)]
    ELSE None

TornBuckets ==
    CASE st = "up" -> {}
      [] st = "cleaning" -> {b \in Buckets : Content(b) # None} \ listed
      [] OTHER -> {b \in Buckets : ~Exists(Real(b)) /\ Content(b) # None}

InProgress(t) == [op |-> t.op, val |-> t.val, done |-> t.stage \in {"discard", "erase"}]

A == INSTANCE StashSpec WITH
        content <- [b \in Buckets |-> IF Sound THEN Content(b) ELSE None],
        listed <- IF Sound /\ st = "up" THEN listed ELSE {},
        torn <- IF Sound THEN TornBuckets ELSE {},
        doing <- [b \in Buckets |-> IF Sound /\ task[b] # None THEN InProgress(task[b])
                                                             ELSE None],
        reply <- [b \in Buckets |-> IF Sound THEN reply[b] ELSE None],
        serving <- Sound /\ st = "up"

\* The file system calls of replacing and deleting buckets, cut by crashes at
\* any point, amount to atomic requests (the comment of bucketFill: "it does
\* so atomically").  With calls that fail they do not: see OkMeansDone.
Atomic == A!Spec

\* "ok" is answered only when the request has had its effect, also when file
\* system calls fail: a put is in place, and nothing is left of a deleted
\* bucket that a later start would promote (the comment of doBucketDelete).
OkMeansDone ==
    [][\A b \in Buckets :
          (task[b] # None /\ task'[b] = None /\ reply'[b] = "ok")
              => Content(b)' = task[b].val]_vars

\* A bucket's directory is always complete (doBucketFill writes elsewhere), so
\* that the next start can read its metadata.  If calls may fail it is not: an
\* old directory that could be removed only in part is promoted at a start
\* after the bucket itself has been moved away, and loadFini throws.
Bootable == Sound => \A b \in Buckets : dir[Real(b)] # Junk

\* Every request is answered unless the service goes down or a call fails
\* (see Hang).
Answered == \A b \in Buckets : (Sound /\ (queue[b] # <<>> \/ task[b] # None))
                                  ~> (queue[b] = <<>> /\ task[b] = None)

=============================================================================
