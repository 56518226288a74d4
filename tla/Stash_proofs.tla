---------------------------- MODULE Stash_proofs ----------------------------
(***************************************************************************)
(* Proofs about the stash, for any number of buckets, contents, random     *)
(* numbers, requests, crashes and failing file system calls: its types,    *)
(* that "ok" is answered only to what has been done, that a bucket can     *)
(* always be read at the next start, and that the sequences of file system *)
(* calls implement the atomic requests of StashSpec, step by step.         *)
(***************************************************************************)
EXTENDS Stash, FiniteSetTheorems, TLAPS

-----------------------------------------------------------------------------
(* The inductive invariant.                                                *)

Putting == {"mkdir", "save", "retire", "install", "discard", "unwind"}
Deleting == {"list", "purge", "erase"}
WellFormed(t) == IF t.op = "put" THEN t.val \in Vals ELSE t.val = None

\* What waits has a content if, and only if, it is a replacement.
Queued(b) == \A k \in DOMAIN queue[b] : WellFormed(queue[b][k])

\* A request is at a stage of its own operation, and only a bucket that the
\* service knows is read.
Suited(b) ==
    task[b] # None =>
        /\ st = "up"
        /\ WellFormed(task[b])
        /\ task[b].stage \in Putting => task[b].op = "put"
        /\ task[b].stage \in Deleting => task[b].op = "del"
        /\ task[b].stage = "read" => task[b].op = "get" /\ b \in listed
        /\ \A n \in task[b].purge : Kind(n) = "old"

\* What a request has achieved at its stage.  A deletion that missed an old
\* directory knows of it, and fails.
Achieved(b) ==
    /\ At(b, "retire") \/ At(b, "install") => dir[New(b, Rand(b))] = task[b].val
    /\ At(b, "install") => ~Exists(Real(b))
    /\ At(b, "discard") => dir[Real(b)] = task[b].val
    /\ At(b, "purge") =>
          task[b].failed \/ \A r \in Rands : Exists(Old(b, r)) => Old(b, r) \in task[b].purge
    /\ At(b, "erase") => ~Exists(Real(b)) /\ \A r \in Rands : ~Exists(Old(b, r))

Working(b) == Queued(b) /\ Suited(b) /\ Achieved(b)
IInv == TypeOK /\ \A b \in Buckets : Working(b)

\* The old directory of a bucket, while no call fails: there is one at most,
\* it is complete whenever the next start would need it, and while the
\* service is up it belongs to the replacement in progress.
OldKept(b) ==
    /\ dir[Real(b)] # Junk
    /\ \A r, s \in Rands : Exists(Old(b, r)) /\ Exists(Old(b, s)) => r = s
    /\ \A r \in Rands : dir[Old(b, r)] = Junk => Exists(Real(b))
    /\ st = "up" =>
          \A r \in Rands : Exists(Old(b, r)) =>
             task[b] # None /\ task[b].stage \in {"install", "discard"} /\ r = Rand(b)
    /\ task[b] # None => task[b].purge = {}

\* The clean-up at a start has every old directory before it, and does not
\* lose one that it has to promote.
CleaningUp(b) ==
    st = "cleaning" =>
        /\ \A r \in Rands : Exists(Old(b, r)) => \E k \in DOMAIN todo : todo[k] = Old(b, r)
        /\ \A k \in DOMAIN todo : \A r \in Rands :
              todo[k] = Old(b, r) => Exists(Real(b)) \/ Exists(Old(b, r))
        /\ \A k \in DOMAIN todo : Kind(todo[k]) \in {"new", "old"}
        /\ b \in listed => Exists(Real(b))

SInv == Sound => \A b \in Buckets : OldKept(b) /\ CleaningUp(b)

-----------------------------------------------------------------------------
(* Names and types.                                                        *)

LEMMA NameTypes ==
    ASSUME NEW b \in Buckets, NEW r \in Rands
    PROVE  Real(b) \in Names /\ New(b, r) \in Names /\ Old(b, r) \in Names /\ Del(b, r) \in Names
BY DEF Names, Kinds, Real, New, Old, Del

LEMMA RealType == ASSUME NEW b \in Buckets PROVE Real(b) \in Names
BY DEF Names, Real

\* Names of different kinds, of different buckets, and with different random
\* numbers differ.
LEMMA NamesDiffer ==
    ASSUME NEW b, NEW c, NEW r, NEW s
    PROVE  /\ Real(b) = Real(c) => b = c
           /\ New(b, r) = New(c, s) => b = c /\ r = s
           /\ Old(b, r) = Old(c, s) => b = c /\ r = s
           /\ Del(b, r) = Del(c, s) => b = c /\ r = s
           /\ Real(b) # New(c, s) /\ Real(b) # Old(c, s) /\ Real(b) # Del(c, s)
           /\ New(b, r) # Old(c, s) /\ New(b, r) # Del(c, s) /\ Old(b, r) # Del(c, s)
           /\ New(b, r) # Real(c) /\ Old(b, r) # Real(c) /\ Del(b, r) # Real(c)
           /\ Old(b, r) # New(c, s) /\ Del(b, r) # New(c, s) /\ Del(b, r) # Old(c, s)
           /\ Kind(Real(b)) = "bucket" /\ Kind(New(b, r)) = "new"
           /\ Kind(Old(b, r)) = "old" /\ Kind(Del(b, r)) = "del"
           /\ Bucket(New(b, r)) = b /\ Bucket(Old(b, r)) = b
BY DEF Real, New, Old, Del, Kind, Bucket

LEMMA OldName ==
    ASSUME NEW n \in Names, Kind(n) = "old"
    PROVE  Bucket(n) \in Buckets /\ \E r \in Rands : n = Old(Bucket(n), r)
BY DEF Names, Kinds, Kind, Bucket, Old

LEMMA NewName ==
    ASSUME NEW n \in Names, Kind(n) = "new"
    PROVE  Bucket(n) \in Buckets /\ \E r \in Rands : n = New(Bucket(n), r)
BY DEF Names, Kinds, Kind, Bucket, New

LEMMA NamesFinite == IsFiniteSet(Names)
<1> DEFINE K == {"bucket", "new", "old", "del"}
           P == K \X (Buckets \X (Rands \cup {None}))
           f == [n \in Names |-> <<n[1], <<n[2], n[3]>>>>]
<1>1. IsFiniteSet(K)
  <2>1. IsFiniteSet({}) BY FS_EmptySet
  <2>2. IsFiniteSet({"bucket"}) BY <2>1, FS_AddElement
  <2>3. IsFiniteSet({"bucket", "new"}) BY <2>2, FS_AddElement
  <2>4. IsFiniteSet({"bucket", "new", "old"}) BY <2>3, FS_AddElement
  <2> QED BY <2>4, FS_AddElement
<1>2. IsFiniteSet(Buckets \X (Rands \cup {None}))
  BY FS_AddElement, FS_Product, ConstantsAssumption
<1>3. IsFiniteSet(P)
  BY <1>1, <1>2, FS_Product
<1>4. f \in [Names -> P]
  BY DEF Names, Kinds
<1>5. \A n, m \in Names : f[n] = f[m] => n = m
  BY DEF Names, Kinds
<1>6. f \in Injection(Names, P)
  BY <1>4, <1>5 DEF Injection, IsInjective
<1> QED BY <1>3, <1>6, FS_Injection

\* A directory moved, or changed, leaves directories.
LEMMA MoveTypes ==
    ASSUME TypeOK, NEW n \in Names, NEW m \in Names, NEW v \in Vals \cup {Junk, None}
    PROVE  /\ Moved(n, m) \in [Names -> Vals \cup {Junk, None}]
           /\ [dir EXCEPT ![n] = v] \in [Names -> Vals \cup {Junk, None}]
BY DEF TypeOK, Moved

LEMMA UseTypes ==
    ASSUME TypeOK, NEW what \in {"requests", "crashes", "errors"}, Use(what)
    PROVE  used' \in [{"requests", "crashes", "errors"} -> Nat]
BY DEF TypeOK, Use
LEMMA ErrorTypes ==
    ASSUME TypeOK, IOError
    PROVE  ~Sound /\ ~Sound' /\ used' \in [{"requests", "crashes", "errors"} -> Nat]
BY ConstantsAssumption DEF TypeOK, Use, IOError, Sound
LEMMA UseSound ==
    ASSUME TypeOK, NEW what \in {"requests", "crashes"}, Use(what)
    PROVE  Sound' = Sound
BY ConstantsAssumption DEF TypeOK, Use, Sound
LEMMA InitTypes == Init => TypeOK
BY ConstantsAssumption DEF Init, TypeOK, Answers

-----------------------------------------------------------------------------
(* What a step of one bucket leaves alone.                                 *)

Untouched(c) ==
    /\ task'[c] = task[c] /\ queue'[c] = queue[c] /\ reply'[c] = reply[c]
    /\ c \in listed' <=> c \in listed
    /\ dir'[Real(c)] = dir[Real(c)]
    /\ \A r \in Rands : dir'[New(c, r)] = dir[New(c, r)] /\ dir'[Old(c, r)] = dir[Old(c, r)]
Only(b) == st = "up" /\ st' = "up" /\ \A c \in Buckets \ {b} : Untouched(c)

\* What is to be shown of each step of a bucket.
Kept(b) ==
    /\ TypeOK' /\ Only(b) /\ Working(b)'
    /\ Sound' = Sound
    /\ Standalone /\ Sound /\ OldKept(b) => OldKept(b)'

LEMMA Doing ==
    ASSUME TypeOK, NEW b \in Buckets, task[b] # None
    PROVE  task[b] \in Tasks /\ Rand(b) \in Rands
BY DEF TypeOK, Tasks, Rand

LEMMA UntouchedKeeps ==
    ASSUME TypeOK, NEW c \in Buckets, Working(c), Untouched(c), st = "up", st' = "up"
    PROVE  Working(c)' /\ (OldKept(c) => OldKept(c)') /\ CleaningUp(c)'
<1>1. task[c] # None => Rand(c) \in Rands
  BY Doing
<1>2. Queued(c)' /\ Suited(c)' /\ CleaningUp(c)'
  BY DEF Working, Untouched, Queued, WellFormed, Suited, CleaningUp
<1>3. Achieved(c)'
  BY <1>1 DEF Working, Untouched, Achieved, At, Rand, Exists
<1>4. OldKept(c) => OldKept(c)'
  BY DEF Untouched, OldKept, Rand, Exists
<1> QED BY <1>2, <1>3, <1>4 DEF Working

LEMMA KeptKeeps ==
    ASSUME IInv, NEW b \in Buckets, Kept(b)
    PROVE  IInv' /\ (Standalone /\ SInv => SInv')
<1>1. ASSUME NEW c \in Buckets \ {b}
      PROVE  Working(c)' /\ (OldKept(c) => OldKept(c)') /\ CleaningUp(c)'
  BY <1>1, UntouchedKeeps DEF IInv, Kept, Only
<1>2. CleaningUp(b)'
  BY DEF Kept, Only, CleaningUp
<1>3. IInv'
  BY <1>1 DEF Kept, IInv
<1> QED BY <1>1, <1>2, <1>3 DEF Kept, SInv


-----------------------------------------------------------------------------
(* Every step of a bucket.                                                 *)

LEMMA AskKeeps ==
    ASSUME IInv, NEW b \in Buckets, NEW op \in {"put", "del", "get"}, NEW v \in Vals \cup {None},
           IF op = "put" THEN v \in Vals ELSE v = None, Ask(b, op, v)
    PROVE  Kept(b)
<1> DEFINE q == [op |-> op, val |-> v]
<1>1. queue[b] \in Seq(Requests) /\ q \in Requests /\ WellFormed(q)
  BY DEF IInv, TypeOK, Requests, WellFormed
<1>2. queue' = [queue EXCEPT ![b] = Append(@, q)] /\ UNCHANGED <<st, dir, listed, todo, task, reply>>
      /\ st = "up" /\ Use("requests")
  BY DEF Ask
<1> HIDE DEF q
<1>3. queue'[b] = Append(queue[b], q) /\ \A c \in Buckets \ {b} : queue'[c] = queue[c]
  BY <1>2 DEF IInv, TypeOK
<1>4. TypeOK' /\ Sound' = Sound
  BY <1>1, <1>2, UseTypes, UseSound DEF IInv, TypeOK
<1>5. Queued(b)'
  BY <1>1, <1>3 DEF IInv, Working, Queued, WellFormed
<1>6. Suited(b)' /\ Achieved(b)' /\ (OldKept(b) => OldKept(b)')
  BY <1>2 DEF IInv, Working, Suited, Achieved, OldKept, At, Rand, Exists
<1>7. Only(b)
  BY <1>2, <1>3 DEF Only, Untouched
<1> QED BY <1>4, <1>5, <1>6, <1>7 DEF Kept, Working

\* The next request leaves the queue of its bucket.
LEMMA DequeueKeeps ==
    ASSUME IInv, NEW b \in Buckets, Dequeue(b)
    PROVE  /\ Head(queue[b]) \in Requests /\ WellFormed(Head(queue[b]))
           /\ queue' \in [Buckets -> Seq(Requests)]
           /\ Queued(b)'
           /\ \A c \in Buckets \ {b} : queue'[c] = queue[c]
<1>1. queue[b] \in Seq(Requests) /\ queue[b] # <<>> /\ queue' = [queue EXCEPT ![b] = Tail(@)]
  BY DEF IInv, TypeOK, Dequeue
<1>2. Head(queue[b]) \in Requests /\ WellFormed(Head(queue[b]))
  BY <1>1 DEF IInv, Working, Queued
<1>3. queue'[b] = Tail(queue[b]) /\ \A c \in Buckets \ {b} : queue'[c] = queue[c]
  BY <1>1 DEF IInv, TypeOK
<1>4. queue' \in [Buckets -> Seq(Requests)]
  BY <1>1 DEF IInv, TypeOK
<1>5. \A k \in DOMAIN Tail(queue[b]) : Tail(queue[b])[k] = queue[b][k + 1] /\ k + 1 \in DOMAIN queue[b]
  BY <1>1
<1>6. Queued(b)'
  BY <1>3, <1>5 DEF IInv, Working, Queued, WellFormed
<1> QED BY <1>2, <1>3, <1>4, <1>6

LEMMA FinishKeeps ==
    ASSUME IInv, NEW b \in Buckets, NEW ans \in Answers, Finish(b, ans)
    PROVE  /\ task' \in [Buckets -> Tasks \cup {None}] /\ reply' \in [Buckets -> Answers]
           /\ task'[b] = None /\ reply'[b] = ans
           /\ \A c \in Buckets \ {b} : task'[c] = task[c] /\ reply'[c] = reply[c]
BY DEF IInv, TypeOK, Finish

LEMMA TakeUnknownKeeps ==
    ASSUME IInv, NEW b \in Buckets, TakeUnknown(b)
    PROVE  Kept(b)
<1> DEFINE ans == IF Head(queue[b]).op = "del" THEN "ok" ELSE "error"
<1>1. ans \in Answers /\ Finish(b, ans) /\ Dequeue(b) /\ UNCHANGED <<st, dir, listed, todo, used>>
  BY DEF TakeUnknown, Answers
<1> HIDE DEF ans
<1>2. st = "up" /\ task[b] = None
  BY <1>1 DEF Dequeue
<1>3. TypeOK' /\ Sound' = Sound
  BY <1>1, DequeueKeeps, FinishKeeps DEF IInv, TypeOK, Sound
<1>4. Only(b)
  BY <1>1, <1>2, DequeueKeeps, FinishKeeps DEF Only, Untouched
<1>5. task'[b] = None
  BY <1>1, FinishKeeps
<1>6. Working(b)'
  BY <1>1, <1>5, DequeueKeeps DEF Working, Suited, Achieved, At
<1>7. OldKept(b) => OldKept(b)'
  BY <1>1, <1>2, <1>5 DEF OldKept, Exists
<1> QED BY <1>3, <1>4, <1>6, <1>7 DEF Kept

LEMMA TakeKeeps ==
    ASSUME IInv, NEW b \in Buckets, Take(b)
    PROVE  Kept(b)
<1> DEFINE q == Head(queue[b])
           first == CASE q.op = "put" -> "mkdir" [] q.op = "del" -> "list" [] OTHER -> "read"
<1>1. PICK r \in Rands :
        task' = [task EXCEPT ![b] = [op |-> q.op, val |-> q.val, rand |-> r,
                                     stage |-> first, purge |-> {}, failed |-> FALSE]]
  BY DEF Take
<1> DEFINE t == [op |-> q.op, val |-> q.val, rand |-> r,
                 stage |-> first, purge |-> {}, failed |-> FALSE]
<1>2. Dequeue(b) /\ (q.op = "put" \/ b \in listed) /\ reply' = [reply EXCEPT ![b] = None]
      /\ UNCHANGED <<st, dir, listed, todo, used>>
  BY DEF Take
<1>3. st = "up" /\ task[b] = None
  BY <1>2 DEF Dequeue
<1>4. q \in Requests /\ WellFormed(q)
  BY <1>2, DequeueKeeps
<1>5. t \in Tasks
  BY <1>4 DEF Requests, Tasks, Stages
<1>6. /\ WellFormed(t) /\ t.stage \in {"mkdir", "list", "read"} /\ t.purge = {}
      /\ t.stage = "mkdir" => t.op = "put"
      /\ t.stage = "list" => t.op = "del"
      /\ t.stage = "read" => t.op = "get" /\ b \in listed
  BY <1>2, <1>4 DEF WellFormed, Requests
<1> HIDE DEF t
<1>7. task'[b] = t /\ \A c \in Buckets \ {b} : task'[c] = task[c]
  BY <1>1 DEF t, IInv, TypeOK
<1>8. TypeOK' /\ Sound' = Sound
  <2>1. task' \in [Buckets -> Tasks \cup {None}]
    BY <1>1, <1>5 DEF t, IInv, TypeOK
  <2> QED BY <1>2, <2>1, DequeueKeeps DEF IInv, TypeOK, Sound, Answers
<1>9. Only(b)
  BY <1>2, <1>3, <1>7, DequeueKeeps DEF Only, Untouched, IInv, TypeOK
<1>10. Suited(b)' /\ Achieved(b)'
  BY <1>2, <1>3, <1>6, <1>7 DEF Suited, Achieved, At, WellFormed, Putting, Deleting
<1>11. OldKept(b) => OldKept(b)'
  BY <1>2, <1>3, <1>6, <1>7 DEF OldKept, Exists
<1> QED BY <1>2, <1>8, <1>9, <1>10, <1>11, DequeueKeeps DEF Kept, Working

LEMMA GotoKeeps ==
    ASSUME IInv, NEW b \in Buckets, task[b] # None, NEW stage \in Stages, Goto(b, stage)
    PROVE  /\ task' \in [Buckets -> Tasks \cup {None}] /\ UNCHANGED reply
           /\ task'[b] # None /\ task'[b].stage = stage
           /\ task'[b].op = task[b].op /\ task'[b].val = task[b].val
           /\ task'[b].rand = task[b].rand /\ task'[b].purge = task[b].purge
           /\ task'[b].failed = task[b].failed
           /\ \A c \in Buckets \ {b} : task'[c] = task[c]
<1> DEFINE t == [task[b] EXCEPT !.stage = stage]
<1>1. task[b] \in Tasks
  BY Doing DEF IInv
<1>2. /\ t \in Tasks /\ t.stage = stage /\ t.op = task[b].op /\ t.val = task[b].val
      /\ t.rand = task[b].rand /\ t.purge = task[b].purge /\ t.failed = task[b].failed
  BY <1>1 DEF Tasks
<1>3. t # None
  BY <1>2, NoneAssumption
<1>4. task' = [task EXCEPT ![b] = t] /\ UNCHANGED reply
  BY DEF Goto
<1> HIDE DEF t
<1>5. task'[b] = t /\ \A c \in Buckets \ {b} : task'[c] = task[c]
  BY <1>4 DEF IInv, TypeOK
<1>6. task' \in [Buckets -> Tasks \cup {None}]
  BY <1>2, <1>4 DEF IInv, TypeOK
<1> QED BY <1>2, <1>3, <1>4, <1>5, <1>6

\* A request that ends keeps what there is to keep of its bucket.
LEMMA EndKeeps ==
    ASSUME IInv, NEW b \in Buckets, NEW ans \in Answers, Finish(b, ans), UNCHANGED queue
    PROVE  Working(b)'
BY FinishKeeps DEF IInv, Working, Queued, WellFormed, Suited, Achieved, At

LEMMA HangKeeps ==
    ASSUME IInv, NEW b \in Buckets, Hang(b)
    PROVE  Kept(b)
<1>1. /\ st = "up" /\ task[b] # None /\ IOError /\ Goto(b, "hung")
      /\ UNCHANGED <<st, dir, listed, todo, queue>>
  BY DEF Hang, At
<1>2. "hung" \in Stages
  BY DEF Stages
<1>3. TypeOK' /\ ~Sound /\ ~Sound'
  BY <1>1, <1>2, ErrorTypes, GotoKeeps DEF IInv, TypeOK
<1>4. Only(b)
  BY <1>1, <1>2, GotoKeeps DEF Only, Untouched
<1>5. Working(b)'
  BY <1>1, <1>2, GotoKeeps
     DEF IInv, Working, Queued, WellFormed, Suited, Achieved, At, Putting, Deleting
<1> QED BY <1>3, <1>4, <1>5 DEF Kept, Sound

LEMMA MkdirKeeps ==
    ASSUME IInv, NEW b \in Buckets, Mkdir(b)
    PROVE  Kept(b)
<1> DEFINE n == New(b, Rand(b))
<1>1. /\ st = "up" /\ task[b] # None /\ task[b].stage = "mkdir"
      /\ UNCHANGED <<st, listed, todo, queue>>
  BY DEF Mkdir, At
<1>2. PICK stage \in {"save", "unwind"} : Goto(b, stage)
  BY DEF Mkdir
<1>3. stage \in Stages /\ Rand(b) \in Rands /\ n \in Names
  BY <1>1, Doing, NameTypes DEF Stages, IInv
<1>4. dir' = dir \/ dir' = [dir EXCEPT ![n] = Junk]
  BY DEF Mkdir
<1>5. used' \in [{"requests", "crashes", "errors"} -> Nat] /\ Sound' = Sound
  BY ErrorTypes DEF Mkdir, IInv, TypeOK, Sound
<1>6. TypeOK'
  BY <1>1, <1>2, <1>3, <1>4, <1>5, GotoKeeps DEF IInv, TypeOK
<1>7. /\ \A c \in Buckets : dir'[Real(c)] = dir[Real(c)]
      /\ \A c \in Buckets, r \in Rands : dir'[Old(c, r)] = dir[Old(c, r)]
      /\ \A c \in Buckets \ {b}, r \in Rands : dir'[New(c, r)] = dir[New(c, r)]
  BY <1>3, <1>4, NameTypes, RealType, NamesDiffer DEF IInv, TypeOK
<1>8. Only(b)
  BY <1>1, <1>2, <1>3, <1>7, GotoKeeps DEF Only, Untouched
<1>9. Queued(b)' /\ Suited(b)' /\ Achieved(b)'
  BY <1>1, <1>2, <1>3, GotoKeeps
     DEF IInv, Working, Queued, WellFormed, Suited, Achieved, At, Putting, Deleting
<1>10. OldKept(b) => OldKept(b)'
  BY <1>1, <1>2, <1>3, <1>7, GotoKeeps DEF OldKept, Exists, Rand
<1> QED BY <1>5, <1>6, <1>8, <1>9, <1>10 DEF Kept, Working

LEMMA SaveKeeps ==
    ASSUME IInv, NEW b \in Buckets, Save(b)
    PROVE  Kept(b)
<1> DEFINE n == New(b, Rand(b))
<1>1. /\ st = "up" /\ task[b] # None /\ task[b].stage = "save"
      /\ UNCHANGED <<st, listed, todo, queue>>
  BY DEF Save, At
<1>2. task[b].op = "put" /\ task[b].val \in Vals
  BY <1>1 DEF IInv, Working, Suited, WellFormed, Putting
<1>3. PICK stage \in {"retire", "unwind"} :
          Goto(b, stage) /\ (stage = "retire" => dir' = [dir EXCEPT ![n] = task[b].val])
  BY DEF Save
<1>4. stage \in Stages /\ Rand(b) \in Rands /\ n \in Names
  BY <1>1, Doing, NameTypes DEF Stages, IInv
<1>5. dir' = dir \/ dir' = [dir EXCEPT ![n] = task[b].val]
  BY DEF Save
<1>6. used' \in [{"requests", "crashes", "errors"} -> Nat] /\ Sound' = Sound
  BY ErrorTypes DEF Save, IInv, TypeOK, Sound
<1>7. TypeOK'
  BY <1>1, <1>2, <1>3, <1>4, <1>5, <1>6, GotoKeeps DEF IInv, TypeOK
<1>8. /\ \A c \in Buckets : dir'[Real(c)] = dir[Real(c)]
      /\ \A c \in Buckets, r \in Rands : dir'[Old(c, r)] = dir[Old(c, r)]
      /\ \A c \in Buckets \ {b}, r \in Rands : dir'[New(c, r)] = dir[New(c, r)]
      /\ stage = "retire" => dir'[n] = task[b].val
  BY <1>3, <1>4, <1>5, NameTypes, RealType, NamesDiffer DEF IInv, TypeOK
<1>9. Only(b)
  BY <1>1, <1>3, <1>4, <1>8, GotoKeeps DEF Only, Untouched
<1>10. Queued(b)' /\ Suited(b)'
  BY <1>1, <1>3, <1>4, GotoKeeps
     DEF IInv, Working, Queued, WellFormed, Suited, At, Putting, Deleting
<1>11. Achieved(b)'
  BY <1>1, <1>3, <1>4, <1>8, GotoKeeps DEF Achieved, At, Rand
<1>12. OldKept(b) => OldKept(b)'
  BY <1>1, <1>3, <1>4, <1>8, GotoKeeps DEF OldKept, Exists, Rand
<1> QED BY <1>6, <1>7, <1>9, <1>10, <1>11, <1>12 DEF Kept, Working

\* The two ways in which a directory of a bucket is removed.
LEMMA RemovalTypes ==
    ASSUME TypeOK, NEW n \in Names, Eroded(n) \/ Removed(n)
    PROVE  /\ dir' \in [Names -> Vals \cup {Junk, None}]
           /\ \A m \in Names \ {n} : dir'[m] = dir[m]
           /\ Eroded(n) => dir[n] \in Vals /\ dir'[n] = Junk
           /\ Removed(n) => dir'[n] = None
BY DEF TypeOK, Eroded, Removed

LEMMA UnwindKeeps ==
    ASSUME IInv, NEW b \in Buckets, Unwind(b)
    PROVE  Kept(b)
<1> DEFINE n == New(b, Rand(b))
<1>1. /\ st = "up" /\ task[b] # None /\ task[b].stage = "unwind"
      /\ UNCHANGED <<st, listed, todo, queue>>
  BY DEF Unwind, At
<1>2. Rand(b) \in Rands /\ n \in Names
  BY <1>1, Doing, NameTypes DEF IInv
<1>3. /\ dir' \in [Names -> Vals \cup {Junk, None}]
      /\ \A m \in Names \ {n} : dir'[m] = dir[m]
  BY <1>2, RemovalTypes DEF Unwind, IInv, TypeOK
<1>4. UNCHANGED <<task, reply>> \/ Finish(b, "error")
  BY DEF Unwind
<1>5. "error" \in Answers
  BY DEF Answers
<1>6. used' \in [{"requests", "crashes", "errors"} -> Nat] /\ Sound' = Sound
  BY ErrorTypes DEF Unwind, IInv, TypeOK, Sound
<1>7. TypeOK'
  BY <1>1, <1>3, <1>4, <1>5, <1>6, FinishKeeps DEF IInv, TypeOK
<1>8. /\ \A c \in Buckets : dir'[Real(c)] = dir[Real(c)]
      /\ \A c \in Buckets, r \in Rands : dir'[Old(c, r)] = dir[Old(c, r)]
      /\ \A c \in Buckets \ {b}, r \in Rands : dir'[New(c, r)] = dir[New(c, r)]
  BY <1>2, <1>3, NameTypes, RealType, NamesDiffer
<1>9. Only(b)
  BY <1>1, <1>4, <1>5, <1>8, FinishKeeps DEF Only, Untouched
<1>10. CASE Finish(b, "error")
  <2>1. Working(b)'
    BY <1>1, <1>5, <1>10, EndKeeps
  <2>2. OldKept(b) => OldKept(b)'
    BY <1>1, <1>5, <1>8, <1>10, FinishKeeps DEF OldKept, Exists
  <2> QED BY <1>6, <1>7, <1>9, <2>1, <2>2 DEF Kept
<1>11. CASE UNCHANGED <<task, reply>>
  <2>1. Working(b)'
    BY <1>1, <1>11 DEF IInv, Working, Queued, WellFormed, Suited, Achieved, At
  <2>2. OldKept(b) => OldKept(b)'
    BY <1>1, <1>8, <1>11 DEF OldKept, Exists, Rand
  <2> QED BY <1>6, <1>7, <1>9, <2>1, <2>2 DEF Kept
<1> QED BY <1>4, <1>10, <1>11

LEMMA RetireKeeps ==
    ASSUME IInv, NEW b \in Buckets, Retire(b)
    PROVE  Kept(b)
<1> DEFINE n == Old(b, Rand(b))
<1>1. /\ st = "up" /\ task[b] # None /\ task[b].stage = "retire"
      /\ ~(Exists(Real(b)) /\ Exists(n)) /\ Goto(b, "install")
      /\ dir' = IF Exists(Real(b)) THEN Moved(Real(b), n) ELSE dir
      /\ UNCHANGED <<st, listed, todo, queue, used>>
  BY DEF Retire, At
<1>2. "install" \in Stages /\ Rand(b) \in Rands /\ n \in Names /\ Real(b) \in Names
  BY <1>1, Doing, NameTypes DEF Stages, IInv
<1>3. dir[Real(b)] \in Vals \cup {Junk, None} /\ dir \in [Names -> Vals \cup {Junk, None}]
  BY <1>2 DEF IInv, TypeOK
<1>4. /\ dir' \in [Names -> Vals \cup {Junk, None}]
      /\ \A m \in Names \ {n, Real(b)} : dir'[m] = dir[m]
      /\ dir'[Real(b)] = None
      /\ dir'[n] = IF Exists(Real(b)) THEN dir[Real(b)] ELSE dir[n]
  BY <1>1, <1>2, <1>3, NamesDiffer DEF Moved, Exists
<1>5. TypeOK' /\ Sound' = Sound
  BY <1>1, <1>2, <1>4, GotoKeeps DEF IInv, TypeOK, Sound
<1>6. /\ \A c \in Buckets \ {b} : dir'[Real(c)] = dir[Real(c)]
      /\ \A c \in Buckets \ {b}, r \in Rands : dir'[Old(c, r)] = dir[Old(c, r)]
      /\ \A r \in Rands \ {Rand(b)} : dir'[Old(b, r)] = dir[Old(b, r)]
      /\ \A c \in Buckets, r \in Rands : dir'[New(c, r)] = dir[New(c, r)]
  BY <1>2, <1>4, NameTypes, RealType, NamesDiffer
<1>7. Only(b)
  BY <1>1, <1>2, <1>6, GotoKeeps DEF Only, Untouched
<1>8. Queued(b)' /\ Suited(b)'
  BY <1>1, <1>2, GotoKeeps
     DEF IInv, Working, Queued, WellFormed, Suited, At, Putting, Deleting
<1>9. Achieved(b)'
  BY <1>1, <1>2, <1>4, <1>6, GotoKeeps DEF IInv, Working, Achieved, At, Rand, Exists
<1>10. OldKept(b) => OldKept(b)'
  BY <1>1, <1>2, <1>3, <1>4, <1>6, GotoKeeps, ConstantsAssumption DEF OldKept, Exists, Rand
<1> QED BY <1>5, <1>7, <1>8, <1>9, <1>10 DEF Kept, Working

LEMMA InstallKeeps ==
    ASSUME IInv, NEW b \in Buckets, Install(b)
    PROVE  Kept(b)
<1> DEFINE n == New(b, Rand(b))
<1>1. /\ st = "up" /\ task[b] # None /\ task[b].stage = "install"
      /\ ~Exists(Real(b)) /\ Goto(b, "discard") /\ dir' = Moved(n, Real(b))
      /\ UNCHANGED <<st, listed, todo, queue, used>>
  BY DEF Install, At
<1>2. "discard" \in Stages /\ Rand(b) \in Rands /\ n \in Names /\ Real(b) \in Names
  BY <1>1, Doing, NameTypes DEF Stages, IInv
<1>3. dir[n] = task[b].val /\ task[b].val \in Vals
  BY <1>1 DEF IInv, Working, Achieved, Suited, WellFormed, At, Putting
<1>4. /\ dir' \in [Names -> Vals \cup {Junk, None}]
      /\ \A m \in Names \ {n, Real(b)} : dir'[m] = dir[m]
      /\ dir'[Real(b)] = task[b].val
  BY <1>1, <1>2, <1>3, NamesDiffer DEF Moved, IInv, TypeOK
<1>5. TypeOK' /\ Sound' = Sound
  BY <1>1, <1>2, <1>4, GotoKeeps DEF IInv, TypeOK, Sound
<1>6. /\ \A c \in Buckets \ {b} : dir'[Real(c)] = dir[Real(c)]
      /\ \A c \in Buckets, r \in Rands : dir'[Old(c, r)] = dir[Old(c, r)]
      /\ \A c \in Buckets \ {b}, r \in Rands : dir'[New(c, r)] = dir[New(c, r)]
  BY <1>2, <1>4, NameTypes, RealType, NamesDiffer
<1>7. Only(b)
  BY <1>1, <1>2, <1>6, GotoKeeps DEF Only, Untouched
<1>8. Queued(b)' /\ Suited(b)' /\ Achieved(b)'
  BY <1>1, <1>2, <1>4, GotoKeeps
     DEF IInv, Working, Queued, WellFormed, Suited, Achieved, At, Putting, Deleting
<1>9. OldKept(b) => OldKept(b)'
  BY <1>1, <1>2, <1>3, <1>4, <1>6, GotoKeeps, ConstantsAssumption DEF OldKept, Exists, Rand
<1> QED BY <1>5, <1>7, <1>8, <1>9 DEF Kept, Working

LEMMA DiscardKeeps ==
    ASSUME IInv, NEW b \in Buckets, Discard(b)
    PROVE  Kept(b)
<1> DEFINE n == Old(b, Rand(b))
<1>1. /\ st = "up" /\ task[b] # None /\ task[b].stage = "discard"
      /\ UNCHANGED <<st, todo, queue>>
  BY DEF Discard, At
<1>2. Rand(b) \in Rands /\ n \in Names
  BY <1>1, Doing, NameTypes DEF IInv
<1>3. /\ dir' \in [Names -> Vals \cup {Junk, None}]
      /\ \A m \in Names \ {n} : dir'[m] = dir[m]
  BY <1>2, RemovalTypes DEF Discard, IInv, TypeOK
<1>4. \/ Eroded(n) /\ UNCHANGED <<listed, task, reply>>
      \/ /\ Removed(n) \/ ~Sound
         /\ Finish(b, "ok") /\ listed' = listed \cup {b}
  BY ErrorTypes DEF Discard, IInv
<1>5. "ok" \in Answers
  BY DEF Answers
<1>6. used' \in [{"requests", "crashes", "errors"} -> Nat] /\ Sound' = Sound
  BY ErrorTypes DEF Discard, IInv, TypeOK, Sound
<1>7. TypeOK'
  BY <1>1, <1>3, <1>4, <1>5, <1>6, FinishKeeps DEF IInv, TypeOK
<1>8. /\ \A c \in Buckets : dir'[Real(c)] = dir[Real(c)]
      /\ \A c \in Buckets \ {b}, r \in Rands : dir'[Old(c, r)] = dir[Old(c, r)]
      /\ \A r \in Rands \ {Rand(b)} : dir'[Old(b, r)] = dir[Old(b, r)]
      /\ \A c \in Buckets, r \in Rands : dir'[New(c, r)] = dir[New(c, r)]
  BY <1>2, <1>3, NameTypes, RealType, NamesDiffer
<1>9. Only(b)
  BY <1>1, <1>4, <1>5, <1>8, FinishKeeps DEF Only, Untouched
<1>10. CASE Finish(b, "ok") /\ (Removed(n) \/ ~Sound)
  <2>1. Working(b)'
    BY <1>1, <1>5, <1>10, EndKeeps
  <2>2. Sound /\ OldKept(b) => OldKept(b)'
    <3>1. dir'[n] = None \/ ~Sound
      BY <1>2, <1>10, RemovalTypes DEF IInv
    <3>2. task'[b] = None
      BY <1>5, <1>10, FinishKeeps
    <3> QED BY <1>1, <1>8, <3>1, <3>2, ConstantsAssumption DEF OldKept, Exists
  <2> QED BY <1>6, <1>7, <1>9, <2>1, <2>2 DEF Kept
<1>11. CASE Eroded(n) /\ UNCHANGED <<listed, task, reply>>
  <2>1. Working(b)'
    BY <1>1, <1>8, <1>11 DEF IInv, Working, Queued, WellFormed, Suited, Achieved, At, Rand
  <2>2. OldKept(b) => OldKept(b)'
    <3>1. dir[n] \in Vals /\ dir'[n] = Junk
      BY <1>2, <1>11, RemovalTypes DEF IInv
    <3>2. dir[Real(b)] = task[b].val /\ task[b].val \in Vals
      BY <1>1 DEF IInv, Working, Achieved, Suited, WellFormed, At, Putting
    <3> QED BY <1>1, <1>2, <1>8, <1>11, <3>1, <3>2, ConstantsAssumption DEF OldKept, Exists, Rand
  <2> QED BY <1>6, <1>7, <1>9, <2>1, <2>2 DEF Kept
<1> QED BY <1>4, <1>10, <1>11

LEMMA OldOnesOwn ==
    ASSUME NEW b \in Buckets
    PROVE  /\ OldOnes(b) \subseteq Names /\ \A n \in OldOnes(b) : Kind(n) = "old"
           /\ \A r \in Rands : Exists(Old(b, r)) => Old(b, r) \in OldOnes(b)
           /\ Standalone => \A n \in OldOnes(b) : \E r \in Rands : n = Old(b, r) /\ Exists(n)
<1>1. OldOnes(b) \subseteq Names /\ \A n \in OldOnes(b) : Kind(n) = "old"
  BY DEF OldOnes
<1>2. \A r \in Rands : Exists(Old(b, r)) => Old(b, r) \in OldOnes(b)
  BY NameTypes, NamesDiffer DEF OldOnes
<1>3. ASSUME Standalone, NEW n \in OldOnes(b)
      PROVE  \E r \in Rands : n = Old(b, r) /\ Exists(n)
  <2>1. n \in Names /\ Kind(n) = "old" /\ Exists(n) /\ Bucket(n) = b
    BY <1>3 DEF OldOnes, Standalone
  <2> QED BY <2>1, OldName
<1> QED BY <1>1, <1>2, <1>3

LEMMA ListKeeps ==
    ASSUME IInv, NEW b \in Buckets, List(b)
    PROVE  Kept(b)
<1>1. /\ st = "up" /\ task[b] # None /\ task[b].stage = "list"
      /\ UNCHANGED <<st, dir, listed, todo, queue>>
  BY DEF List, At
<1>2. used' \in [{"requests", "crashes", "errors"} -> Nat] /\ Sound' = Sound
  BY ErrorTypes DEF List, IInv, TypeOK, Sound
<1>3. CASE IOError /\ Finish(b, "error")
  <2>1. "error" \in Answers
    BY DEF Answers
  <2>2. TypeOK' /\ Only(b)
    BY <1>1, <1>2, <1>3, <2>1, FinishKeeps DEF IInv, TypeOK, Only, Untouched
  <2>3. Working(b)' /\ ~Sound
    BY <1>1, <1>3, <2>1, EndKeeps, ErrorTypes DEF IInv
  <2> QED BY <1>2, <2>2, <2>3 DEF Kept
<1>4. CASE task' = [task EXCEPT ![b].stage = "purge", ![b].purge = OldOnes(b)]
           /\ UNCHANGED <<reply, used>>
  <2> DEFINE t == [task[b] EXCEPT !.stage = "purge", !.purge = OldOnes(b)]
  <2>1. task[b] \in Tasks
    BY <1>1, Doing DEF IInv
  <2>2. /\ t \in Tasks /\ t.stage = "purge" /\ t.op = task[b].op /\ t.val = task[b].val
        /\ t.purge = OldOnes(b)
    BY <2>1, OldOnesOwn DEF Tasks, Stages
  <2>3. t # None
    BY <2>2, NoneAssumption
  <2>4. task' = [task EXCEPT ![b] = t]
    BY <1>4
  <2> HIDE DEF t
  <2>5. task'[b] = t /\ \A c \in Buckets \ {b} : task'[c] = task[c]
    BY <2>4 DEF IInv, TypeOK
  <2>6. TypeOK'
    BY <1>1, <1>2, <1>4, <2>2, <2>4 DEF IInv, TypeOK
  <2>7. Only(b)
    BY <1>1, <1>4, <2>5 DEF Only, Untouched
  <2>8. Queued(b)' /\ Suited(b)'
    BY <1>1, <2>2, <2>3, <2>5, OldOnesOwn
       DEF IInv, Working, Queued, WellFormed, Suited, Putting, Deleting
  <2>9. Achieved(b)'
    BY <1>1, <2>2, <2>3, <2>5, OldOnesOwn DEF Achieved, At, Exists
  <2>10. Standalone /\ OldKept(b) => OldKept(b)'
    <3>1. Standalone /\ OldKept(b) => OldOnes(b) = {}
      BY <1>1, OldOnesOwn DEF OldKept
    <3> QED BY <1>1, <2>2, <2>5, <3>1 DEF OldKept, Exists
  <2> QED BY <1>2, <2>6, <2>7, <2>8, <2>9, <2>10 DEF Kept, Working
<1> QED BY <1>3, <1>4 DEF List

LEMMA MoveKeeps ==
    ASSUME IInv, NEW b \in Buckets, Move(b)
    PROVE  Kept(b)
<1> DEFINE n == Del(b, Rand(b))
<1>1. /\ st = "up" /\ task[b] # None /\ task[b].stage = "purge" /\ task[b].purge = {}
      /\ UNCHANGED <<st, listed, todo, queue>>
  BY DEF Move, At
<1>2. Rand(b) \in Rands /\ n \in Names /\ Real(b) \in Names
  BY <1>1, Doing, NameTypes DEF IInv
<1>3. \/ UNCHANGED dir
      \/ /\ ~(Exists(Real(b)) /\ Exists(n)) /\ dir' = IF Exists(Real(b)) THEN Moved(Real(b), n) ELSE dir
  BY DEF Move
<1>4. /\ dir' \in [Names -> Vals \cup {Junk, None}]
      /\ \A m \in Names \ {n, Real(b)} : dir'[m] = dir[m]
      /\ dir'[Real(b)] \in {dir[Real(b)], None}
  <2>1. dir \in [Names -> Vals \cup {Junk, None}]
    BY DEF IInv, TypeOK
  <2>2. CASE UNCHANGED dir
    BY <1>2, <2>1, <2>2
  <2>3. CASE dir' = Moved(Real(b), n)
    BY <1>2, <2>1, <2>3, NamesDiffer DEF Moved
  <2> QED BY <1>3, <2>2, <2>3
<1>5. used' \in [{"requests", "crashes", "errors"} -> Nat] /\ Sound' = Sound
  BY ErrorTypes DEF Move, IInv, TypeOK, Sound
<1>6. /\ \A c \in Buckets \ {b} : dir'[Real(c)] = dir[Real(c)]
      /\ \A c \in Buckets, r \in Rands : dir'[Old(c, r)] = dir[Old(c, r)]
      /\ \A c \in Buckets, r \in Rands : dir'[New(c, r)] = dir[New(c, r)]
  BY <1>2, <1>4, NameTypes, RealType, NamesDiffer
<1>7. CASE Finish(b, "error")
  <2>1. "error" \in Answers
    BY DEF Answers
  <2>2. TypeOK' /\ Only(b)
    BY <1>1, <1>4, <1>5, <1>6, <1>7, <2>1, FinishKeeps DEF IInv, TypeOK, Only, Untouched
  <2>3. Working(b)'
    BY <1>1, <1>7, <2>1, EndKeeps
  <2>4. OldKept(b) => OldKept(b)'
    BY <1>1, <1>4, <1>6, <1>7, <2>1, FinishKeeps, ConstantsAssumption DEF OldKept, Exists
  <2> QED BY <1>5, <2>2, <2>3, <2>4 DEF Kept
<1>8. CASE ~task[b].failed /\ Goto(b, "erase") /\ ~(Exists(Real(b)) /\ Exists(n))
           /\ dir' = IF Exists(Real(b)) THEN Moved(Real(b), n) ELSE dir
  <2>1. "erase" \in Stages
    BY DEF Stages
  <2>2. dir'[Real(b)] = None
    BY <1>2, <1>8, NamesDiffer DEF Moved, Exists, IInv, TypeOK
  <2>3. TypeOK' /\ Only(b)
    BY <1>1, <1>4, <1>5, <1>6, <1>8, <2>1, GotoKeeps DEF IInv, TypeOK, Only, Untouched
  <2>4. Queued(b)' /\ Suited(b)'
    BY <1>1, <1>8, <2>1, GotoKeeps
       DEF IInv, Working, Queued, WellFormed, Suited, At, Putting, Deleting
  <2>5. \A r \in Rands : ~Exists(Old(b, r))
    BY <1>1, <1>8 DEF IInv, Working, Achieved, At
  <2>6. Achieved(b)'
    BY <1>1, <1>6, <1>8, <2>1, <2>2, <2>5, GotoKeeps DEF Achieved, At, Exists
  <2>7. OldKept(b) => OldKept(b)'
    BY <1>1, <1>6, <1>8, <2>1, <2>2, <2>5, GotoKeeps, ConstantsAssumption DEF OldKept, Exists
  <2> QED BY <1>5, <2>3, <2>4, <2>6, <2>7 DEF Kept, Working
<1> QED BY <1>7, <1>8 DEF Move

LEMMA EraseKeeps ==
    ASSUME IInv, NEW b \in Buckets, Erase(b)
    PROVE  Kept(b)
<1> DEFINE n == Del(b, Rand(b))
<1>1. /\ st = "up" /\ task[b] # None /\ task[b].stage = "erase"
      /\ UNCHANGED <<st, todo, queue>>
  BY DEF Erase, At
<1>2. Rand(b) \in Rands /\ n \in Names
  BY <1>1, Doing, NameTypes DEF IInv
<1>3. /\ dir' \in [Names -> Vals \cup {Junk, None}]
      /\ \A m \in Names \ {n} : dir'[m] = dir[m]
  BY <1>2, RemovalTypes DEF Erase, IInv, TypeOK
<1>4. \/ UNCHANGED <<listed, task, reply>>
      \/ Finish(b, "ok") /\ listed' = listed \ {b}
  BY DEF Erase
<1>5. "ok" \in Answers
  BY DEF Answers
<1>6. used' \in [{"requests", "crashes", "errors"} -> Nat] /\ Sound' = Sound
  BY ErrorTypes DEF Erase, IInv, TypeOK, Sound
<1>7. TypeOK'
  BY <1>1, <1>3, <1>4, <1>5, <1>6, FinishKeeps DEF IInv, TypeOK
<1>8. /\ \A c \in Buckets : dir'[Real(c)] = dir[Real(c)]
      /\ \A c \in Buckets, r \in Rands : dir'[Old(c, r)] = dir[Old(c, r)]
      /\ \A c \in Buckets, r \in Rands : dir'[New(c, r)] = dir[New(c, r)]
  BY <1>2, <1>3, NameTypes, RealType, NamesDiffer
<1>9. Only(b)
  BY <1>1, <1>4, <1>5, <1>8, FinishKeeps DEF Only, Untouched
<1>10. CASE Finish(b, "ok")
  <2>1. Working(b)'
    BY <1>1, <1>5, <1>10, EndKeeps
  <2>2. OldKept(b) => OldKept(b)'
    BY <1>1, <1>5, <1>8, <1>10, FinishKeeps DEF OldKept, Exists
  <2> QED BY <1>6, <1>7, <1>9, <2>1, <2>2 DEF Kept
<1>11. CASE UNCHANGED <<listed, task, reply>>
  <2>1. Working(b)'
    BY <1>1, <1>8, <1>11 DEF IInv, Working, Queued, WellFormed, Suited, Achieved, At, Exists
  <2>2. OldKept(b) => OldKept(b)'
    BY <1>1, <1>8, <1>11 DEF OldKept, Exists, Rand
  <2> QED BY <1>6, <1>7, <1>9, <2>1, <2>2 DEF Kept
<1> QED BY <1>4, <1>10, <1>11

LEMMA ReadKeeps ==
    ASSUME IInv, NEW b \in Buckets, Read(b)
    PROVE  Kept(b)
<1> DEFINE ans == IF dir[Real(b)] \in Vals THEN dir[Real(b)] ELSE "error"
<1>1. st = "up" /\ task[b] # None /\ task[b].stage = "read"
      /\ Finish(b, ans) /\ ans \in Answers
      /\ UNCHANGED <<st, dir, listed, todo, queue, used>>
  BY DEF Read, At, Answers
<1> HIDE DEF ans
<1>2. TypeOK' /\ Only(b) /\ Sound' = Sound
  BY <1>1, FinishKeeps DEF IInv, TypeOK, Only, Untouched, Sound
<1>3. Working(b)'
  BY <1>1, EndKeeps
<1>4. Sound /\ OldKept(b) => OldKept(b)'
  BY <1>1, FinishKeeps DEF OldKept, Exists
<1> QED BY <1>2, <1>3, <1>4 DEF Kept

\* A purge reaches the old directories of other buckets, too, but it only
\* ever takes from what is there; while no call fails, there is nothing to
\* purge.
LEMMA PurgeKeeps ==
    ASSUME IInv, NEW b \in Buckets, Purge(b)
    PROVE  /\ IInv' /\ (SInv => SInv') /\ (Sound => ~SInv) /\ Sound' = Sound
           /\ task'[b] # None /\ \A c \in Buckets \ {b} : task'[c] = task[c]
<1>1. /\ st = "up" /\ task[b] # None /\ task[b].stage = "purge"
      /\ UNCHANGED <<st, listed, todo, queue, reply>>
  BY DEF Purge, At
<1>2. PICK n \in task[b].purge :
        \/ Eroded(n) /\ UNCHANGED <<task, used>>
        \/ /\ Removed(n)
           /\ task' = [task EXCEPT ![b].purge = @ \ {n}] /\ UNCHANGED used
        \/ /\ IOError
           /\ task' = [task EXCEPT ![b].purge = @ \ {n}, ![b].failed = TRUE]
           /\ UNCHANGED dir
  BY DEF Purge
<1>3. task[b] \in Tasks /\ Rand(b) \in Rands
  BY <1>1, Doing DEF IInv
<1>4. n \in Names /\ Kind(n) = "old"
  BY <1>1, <1>2, <1>3 DEF IInv, Working, Suited, Tasks
<1>5. /\ dir' \in [Names -> Vals \cup {Junk, None}]
      /\ \A m \in Names \ {n} : dir'[m] = dir[m]
      /\ dir'[n] # None => dir[n] # None
  BY <1>2, <1>4, RemovalTypes, ConstantsAssumption DEF IInv, TypeOK, Eroded, Removed
<1>6. used' \in [{"requests", "crashes", "errors"} -> Nat] /\ Sound' = Sound
  BY <1>2, ErrorTypes DEF IInv, TypeOK, Sound
<1>7. /\ \A c \in Buckets : dir'[Real(c)] = dir[Real(c)]
      /\ \A c \in Buckets, r \in Rands : dir'[Old(c, r)] # None => dir[Old(c, r)] # None
      /\ \A c \in Buckets, r \in Rands : dir'[New(c, r)] = dir[New(c, r)]
  BY <1>4, <1>5, NameTypes, RealType, NamesDiffer
<1>8. /\ task' \in [Buckets -> Tasks \cup {None}]
      /\ \A c \in Buckets \ {b} : task'[c] = task[c]
      /\ task'[b] # None
      /\ task'[b].stage = "purge" /\ task'[b].op = task[b].op /\ task'[b].val = task[b].val
      /\ task'[b].purge \subseteq task[b].purge
      /\ \A m \in task[b].purge :
            m \in task'[b].purge \/ task'[b].failed \/ (m = n /\ dir'[n] = None)
      /\ task[b].failed => task'[b].failed
  <2>1. CASE Eroded(n) /\ UNCHANGED <<task, used>>
    BY <1>1, <2>1 DEF IInv, TypeOK
  <2>2. CASE \E f \in BOOLEAN :
               /\ task' = [task EXCEPT ![b].purge = @ \ {n}, ![b].failed = f]
               /\ f \/ (f = task[b].failed /\ Removed(n))
    <3>1. PICK f \in BOOLEAN :
               /\ task' = [task EXCEPT ![b].purge = @ \ {n}, ![b].failed = f]
               /\ f \/ (f = task[b].failed /\ Removed(n))
      BY <2>2
    <3> DEFINE t == [task[b] EXCEPT !.purge = @ \ {n}, !.failed = f]
    <3>2. /\ t \in Tasks /\ t.stage = task[b].stage /\ t.op = task[b].op /\ t.val = task[b].val
          /\ t.purge = task[b].purge \ {n} /\ t.failed = f
      BY <1>3 DEF Tasks
    <3>3. t # None
      BY <3>2, NoneAssumption
    <3>4. task' = [task EXCEPT ![b] = t]
      BY <3>1
    <3> HIDE DEF t
    <3>5. task'[b] = t /\ (\A c \in Buckets \ {b} : task'[c] = task[c])
          /\ task' \in [Buckets -> Tasks \cup {None}]
      BY <3>2, <3>4 DEF IInv, TypeOK
    <3>6. f \/ (f = task[b].failed /\ dir'[n] = None)
      BY <1>4, <3>1, RemovalTypes DEF IInv
    <3> QED BY <1>1, <3>2, <3>3, <3>5, <3>6
  <2>3. ASSUME task' = [task EXCEPT ![b].purge = @ \ {n}]
        PROVE  task' = [task EXCEPT ![b].purge = @ \ {n}, ![b].failed = task[b].failed]
               /\ task[b].failed \in BOOLEAN
    BY <1>3, <2>3 DEF Tasks, IInv, TypeOK
  <2> QED BY <1>2, <2>1, <2>2, <2>3
<1>9. TypeOK'
  BY <1>1, <1>5, <1>6, <1>8 DEF IInv, TypeOK
<1>10. Working(b)'
  <2>1. Queued(b)' /\ Suited(b)'
    BY <1>1, <1>8 DEF IInv, Working, Queued, WellFormed, Suited, Putting, Deleting
  <2>2. Achieved(b)'
    BY <1>1, <1>7, <1>8 DEF IInv, Working, Achieved, At, Exists
  <2> QED BY <2>1, <2>2 DEF Working
<1>11. ASSUME NEW c \in Buckets \ {b} PROVE Working(c)'
  <2>1. task'[c] = task[c]
    BY <1>8
  <2>2. Queued(c)' /\ Suited(c)'
    BY <1>1, <2>1 DEF IInv, Working, Queued, WellFormed, Suited
  <2>3. task[c] # None => Rand(c) \in Rands
    BY Doing DEF IInv
  <2>4. Achieved(c)'
    BY <1>1, <1>7, <2>1, <2>3 DEF IInv, Working, Achieved, At, Rand, Exists
  <2> QED BY <2>2, <2>4 DEF Working
<1>12. IInv'
  BY <1>9, <1>10, <1>11 DEF IInv
<1>13. Sound => ~SInv
  BY <1>1, <1>2 DEF SInv, OldKept
<1> QED BY <1>6, <1>8, <1>12, <1>13 DEF SInv

-----------------------------------------------------------------------------
(* Crashes and starts.                                                     *)

LEMMA DieKeeps ==
    ASSUME IInv, Die, used' \in [{"requests", "crashes", "errors"} -> Nat], Sound' = Sound
    PROVE  IInv' /\ (SInv => SInv')
<1>1. TypeOK'
  BY DEF IInv, TypeOK, Die, Answers
<1>2. ASSUME NEW b \in Buckets PROVE Working(b)'
  BY DEF Die, Working, Queued, Suited, Achieved, At
<1>3. ASSUME NEW b \in Buckets, OldKept(b) PROVE OldKept(b)' /\ CleaningUp(b)'
  BY <1>3 DEF Die, OldKept, CleaningUp, Exists
<1> QED BY <1>1, <1>2, <1>3 DEF IInv, SInv

LEMMA CrashKeeps == ASSUME IInv, Crash PROVE IInv' /\ (SInv => SInv')
BY DieKeeps, UseTypes, UseSound DEF IInv, Crash

LEMMA PanicKeeps ==
    ASSUME IInv, NEW b \in Buckets, Panic(b)
    PROVE  IInv' /\ (SInv => SInv')
<1>1. Die /\ (UNCHANGED used \/ IOError)
  BY DEF Panic
<1>2. used' \in [{"requests", "crashes", "errors"} -> Nat] /\ Sound' = Sound
  BY <1>1, ErrorTypes DEF IInv, TypeOK, Sound
<1> QED BY <1>1, <1>2, DieKeeps

\* Nothing is being done while the service is not up.
LEMMA Idle == ASSUME IInv, st # "up", NEW b \in Buckets PROVE task[b] = None
BY DEF IInv, Working, Suited

\* The order of the clean-up is any order of what was left over.
LEMMA OrderOfLeftovers ==
    ASSUME NEW q \in Orders(Leftovers)
    PROVE  /\ q \in Seq(Names)
           /\ \A n \in Leftovers : \E k \in DOMAIN q : q[k] = n
           /\ \A k \in DOMAIN q : q[k] \in Leftovers
<1>1. Leftovers \subseteq Names
  BY DEF Leftovers
<1>2. IsFiniteSet(Leftovers)
  BY <1>1, NamesFinite, FS_Subset
<1>3. Cardinality(Leftovers) \in Nat
  BY <1>2, FS_CardinalityType
<1> QED BY <1>1, <1>3 DEF Orders

LEMMA BootedKeeps ==
    ASSUME IInv, st # "up", UNCHANGED <<queue, task>>
    PROVE  \A b \in Buckets : Working(b)' \/ st' = "up"
BY Idle DEF IInv, Working, Queued, WellFormed, Suited, Achieved, At

LEMMA LoadKeeps == ASSUME IInv, Load PROVE IInv' /\ (SInv => SInv')
<1>1. /\ st = "down" /\ st' = "cleaning" /\ listed' = {b \in Buckets : Exists(Real(b))}
      /\ todo' \in Orders(Leftovers) /\ UNCHANGED <<dir, queue, task, reply, used>>
  BY DEF Load
<1>2. TypeOK' /\ Sound' = Sound
  BY <1>1, OrderOfLeftovers DEF IInv, TypeOK, Sound
<1>3. IInv'
  BY <1>1, <1>2, BootedKeeps DEF IInv
<1>4. ASSUME NEW b \in Buckets, OldKept(b) PROVE OldKept(b)' /\ CleaningUp(b)'
  <2>1. OldKept(b)'
    BY <1>1, <1>4 DEF OldKept, Exists
  <2>2. \A r \in Rands : Exists(Old(b, r)) => Old(b, r) \in Leftovers
    BY NameTypes, NamesDiffer DEF Leftovers
  <2>3. \A n \in Leftovers : Exists(n) /\ Kind(n) \in {"new", "old"}
    BY DEF Leftovers
  <2> QED BY <1>1, <2>1, <2>2, <2>3, OrderOfLeftovers DEF CleaningUp, Exists
<1> QED BY <1>2, <1>3, <1>4 DEF SInv

LEMMA ServeKeeps == ASSUME IInv, Serve PROVE IInv' /\ (SInv => SInv')
<1>1. /\ st = "cleaning" /\ todo = <<>> /\ st' = "up"
      /\ UNCHANGED <<dir, listed, todo, queue, task, reply, used>>
  BY DEF Serve
<1>2. TypeOK' /\ Sound' = Sound
  BY <1>1 DEF IInv, TypeOK, Sound
<1>3. ASSUME NEW b \in Buckets PROVE Working(b)'
  <2>1. task'[b] = None
    BY <1>1, Idle
  <2> QED BY <1>1, <2>1 DEF IInv, Working, Queued, WellFormed, Suited, Achieved, At
<1>4. ASSUME NEW b \in Buckets, OldKept(b), CleaningUp(b) PROVE OldKept(b)' /\ CleaningUp(b)'
  <2>1. \A r \in Rands : ~Exists(Old(b, r))
    BY <1>1, <1>4 DEF CleaningUp
  <2> QED BY <1>1, <1>4, <2>1 DEF OldKept, CleaningUp, Exists
<1> QED BY <1>2, <1>3, <1>4 DEF IInv, SInv

\* The clean-up's next leftover: the rest of them is what it was before.
LEMMA NextLeftover ==
    ASSUME IInv, todo # <<>>
    PROVE  /\ Head(todo) \in Names /\ Tail(todo) \in Seq(Names)
           /\ \E k \in DOMAIN todo : todo[k] = Head(todo)
           /\ \A k \in DOMAIN Tail(todo) : \E j \in DOMAIN todo : Tail(todo)[k] = todo[j]
           /\ \A k \in DOMAIN todo :
                 todo[k] = Head(todo) \/ \E j \in DOMAIN Tail(todo) : Tail(todo)[j] = todo[k]
<1>1. todo \in Seq(Names) /\ Len(todo) \in Nat \ {0}
  BY DEF IInv, TypeOK
<1>2. Head(todo) = todo[1] /\ 1 \in DOMAIN todo /\ Head(todo) \in Names /\ Tail(todo) \in Seq(Names)
  BY <1>1
<1>3. \A k \in DOMAIN Tail(todo) : Tail(todo)[k] = todo[k + 1] /\ k + 1 \in DOMAIN todo
  BY <1>1
<1>4. ASSUME NEW k \in DOMAIN todo, k # 1
      PROVE  k - 1 \in DOMAIN Tail(todo) /\ Tail(todo)[k - 1] = todo[k]
  BY <1>1, <1>4
<1> QED BY <1>2, <1>3, <1>4

LEMMA RemoveKeeps == ASSUME IInv, Remove PROVE IInv' /\ (SInv => SInv')
<1> DEFINE n == Head(todo)
<1>1. /\ st = "cleaning" /\ todo # <<>>
      /\ Kind(n) = "new" \/ Exists(Real(Bucket(n)))
      /\ (Eroded(n) /\ UNCHANGED todo) \/ (Removed(n) /\ todo' = Tail(todo))
      /\ UNCHANGED <<st, listed, queue, task, reply, used>>
  BY DEF Remove
<1>2. n \in Names /\ Tail(todo) \in Seq(Names)
  BY <1>1, NextLeftover
<1>3. /\ dir' \in [Names -> Vals \cup {Junk, None}]
      /\ \A m \in Names \ {n} : dir'[m] = dir[m]
      /\ dir'[n] # None => dir[n] # None /\ UNCHANGED todo
      /\ Removed(n) => dir'[n] = None
  BY <1>1, <1>2, RemovalTypes, ConstantsAssumption DEF IInv
<1>4. TypeOK' /\ Sound' = Sound
  BY <1>1, <1>2, <1>3 DEF IInv, TypeOK, Sound
<1>5. IInv'
  BY <1>1, <1>4, BootedKeeps DEF IInv
<1>6. ASSUME NEW b \in Buckets, OldKept(b), CleaningUp(b) PROVE OldKept(b)' /\ CleaningUp(b)'
  <2>1. Kind(n) \in {"new", "old"}
    BY <1>1, <1>6, NextLeftover DEF CleaningUp
  <2>2. dir'[Real(b)] = dir[Real(b)]
    BY <1>3, <2>1, RealType, NamesDiffer
  <2>3. \A r \in Rands : n = Old(b, r) => Exists(Real(b))
    BY <1>1, NamesDiffer
  <2>4. \A r \in Rands : n # Old(b, r) => dir'[Old(b, r)] = dir[Old(b, r)]
    BY <1>3, NameTypes
  <2>5. \A r \in Rands : dir'[Old(b, r)] # None => dir[Old(b, r)] # None
    BY <1>3, <2>4
  <2>6. OldKept(b)'
    BY <1>1, <1>6, <2>2, <2>3, <2>4, <2>5 DEF OldKept, Exists
  <2>7. \A k \in DOMAIN todo' : \E j \in DOMAIN todo : todo'[k] = todo[j]
    BY <1>1, NextLeftover
  <2>8. \A r \in Rands : Exists(Old(b, r))' => \E k \in DOMAIN todo' : todo'[k] = Old(b, r)
    <3> SUFFICES ASSUME NEW r \in Rands, dir'[Old(b, r)] # None
                 PROVE  \E k \in DOMAIN todo' : todo'[k] = Old(b, r)
      BY DEF Exists
    <3>1. PICK k \in DOMAIN todo : todo[k] = Old(b, r)
      BY <1>1, <1>6, <2>5 DEF CleaningUp, Exists
    <3>2. CASE n = Old(b, r)
      BY <1>3, <3>1, <3>2
    <3>3. CASE n # Old(b, r)
      BY <1>1, <3>1, <3>3, NextLeftover
    <3> QED BY <3>2, <3>3
  <2>9. \A k \in DOMAIN todo', r \in Rands :
          todo'[k] = Old(b, r) => (Exists(Real(b)) \/ Exists(Old(b, r)))'
    <3> SUFFICES ASSUME NEW k \in DOMAIN todo', NEW r \in Rands, todo'[k] = Old(b, r)
                 PROVE  dir'[Real(b)] # None \/ dir'[Old(b, r)] # None
      BY DEF Exists
    <3>1. dir[Real(b)] # None \/ dir[Old(b, r)] # None
      BY <1>1, <1>6, <2>7 DEF CleaningUp, Exists
    <3> QED BY <2>2, <2>3, <2>4, <3>1 DEF Exists
  <2>10. CleaningUp(b)'
    BY <1>1, <1>6, <2>2, <2>7, <2>8, <2>9 DEF CleaningUp, Exists
  <2> QED BY <2>6, <2>10
<1> QED BY <1>4, <1>5, <1>6 DEF SInv

LEMMA PromoteKeeps == ASSUME IInv, Promote PROVE IInv' /\ (SInv => SInv')
<1> DEFINE n == Head(todo)
           p == Bucket(n)
<1>1. /\ st = "cleaning" /\ todo # <<>>
      /\ Kind(n) = "old" /\ ~Exists(Real(p)) /\ dir' = Moved(n, Real(p)) /\ todo' = Tail(todo)
      /\ UNCHANGED <<st, listed, queue, task, reply, used>>
  BY DEF Promote
<1>2. n \in Names /\ Tail(todo) \in Seq(Names)
  BY <1>1, NextLeftover
<1>3. PICK s \in Rands : n = Old(p, s) /\ p \in Buckets
  BY <1>1, <1>2, OldName
<1>4. /\ dir' \in [Names -> Vals \cup {Junk, None}]
      /\ \A m \in Names \ {n, Real(p)} : dir'[m] = dir[m]
      /\ dir'[Real(p)] = dir[n] /\ dir'[n] = None
  BY <1>1, <1>2, <1>3, RealType, NamesDiffer DEF Moved, IInv, TypeOK
<1>5. TypeOK' /\ Sound' = Sound
  BY <1>1, <1>2, <1>4 DEF IInv, TypeOK, Sound
<1>6. IInv'
  BY <1>1, <1>5, BootedKeeps DEF IInv
<1>7. ASSUME NEW b \in Buckets, OldKept(b), CleaningUp(b) PROVE OldKept(b)' /\ CleaningUp(b)'
  <2>1. CASE b # p
    <3>1. dir'[Real(b)] = dir[Real(b)] /\ \A r \in Rands : dir'[Old(b, r)] = dir[Old(b, r)]
      BY <1>3, <1>4, <2>1, NameTypes, RealType, NamesDiffer
    <3>2. OldKept(b)'
      BY <1>1, <1>7, <3>1 DEF OldKept, Exists
    <3>3. \A k \in DOMAIN todo' : \E j \in DOMAIN todo : todo'[k] = todo[j]
      BY <1>1, NextLeftover
    <3>4. \A r \in Rands : n # Old(b, r)
      BY <1>3, <2>1, NamesDiffer
    <3>5. \A r \in Rands : Exists(Old(b, r)) => \E k \in DOMAIN todo' : todo'[k] = Old(b, r)
      <4> SUFFICES ASSUME NEW r \in Rands, Exists(Old(b, r))
                   PROVE  \E k \in DOMAIN todo' : todo'[k] = Old(b, r)
        OBVIOUS
      <4>1. PICK k \in DOMAIN todo : todo[k] = Old(b, r)
        BY <1>1, <1>7 DEF CleaningUp
      <4> QED BY <1>1, <3>4, <4>1, NextLeftover
    <3>6. CleaningUp(b)'
      BY <1>1, <1>7, <3>1, <3>3, <3>5 DEF CleaningUp, Exists
    <3> QED BY <3>2, <3>6
  <2>2. CASE b = p
    <3>1. dir[n] # None
      BY <1>1, <1>3, <1>7, <2>2, NextLeftover DEF CleaningUp, Exists
    <3>2. dir[n] # Junk
      BY <1>1, <1>3, <1>7, <2>2 DEF OldKept
    <3>3. \A r \in Rands : dir'[Old(b, r)] = None
      <4> TAKE r \in Rands
      <4>1. CASE r = s
        BY <1>3, <1>4, <2>2, <4>1
      <4>2. CASE r # s
        <5>1. dir'[Old(b, r)] = dir[Old(b, r)]
          BY <1>3, <1>4, <2>2, <4>2, NameTypes, NamesDiffer
        <5> QED BY <1>3, <1>7, <2>2, <3>1, <4>2, <5>1 DEF OldKept, Exists
      <4> QED BY <4>1, <4>2
    <3>4. task[b] = None
      BY <1>1, Idle
    <3>5. OldKept(b)'
      BY <1>1, <1>4, <2>2, <3>1, <3>2, <3>3, <3>4, ConstantsAssumption DEF OldKept, Exists
    <3>6. \A k \in DOMAIN todo' : \E j \in DOMAIN todo : todo'[k] = todo[j]
      BY <1>1, NextLeftover
    <3>7. CleaningUp(b)'
      BY <1>1, <1>4, <1>7, <2>2, <3>1, <3>3, <3>6 DEF CleaningUp, Exists
    <3> QED BY <3>5, <3>7
  <2> QED BY <2>1, <2>2
<1> QED BY <1>5, <1>6, <1>7 DEF SInv

-----------------------------------------------------------------------------
(* The invariants.                                                         *)

LEMMA InitHolds == Init => IInv /\ SInv
<1> SUFFICES ASSUME Init PROVE IInv /\ SInv
  OBVIOUS
<1>1. /\ st = "down" /\ dir = [n \in Names |-> None]
      /\ queue = [b \in Buckets |-> <<>>] /\ task = [b \in Buckets |-> None]
  BY DEF Init
<1>2. ASSUME NEW b \in Buckets PROVE Working(b)
  BY <1>1 DEF Working, Queued, Suited, Achieved, At
<1>3. ASSUME NEW b \in Buckets PROVE OldKept(b) /\ CleaningUp(b)
  BY <1>1, NameTypes, RealType, ConstantsAssumption DEF OldKept, CleaningUp, Exists
<1> QED BY <1>2, <1>3, InitTypes DEF IInv, SInv

LEMMA StutterKeeps == ASSUME IInv, UNCHANGED vars PROVE IInv' /\ (SInv => SInv')
<1>1. TypeOK' /\ Sound' = Sound
  BY DEF vars, IInv, TypeOK, Sound
<1>2. ASSUME NEW b \in Buckets PROVE Working(b)'
  BY DEF vars, IInv, Working, Queued, WellFormed, Suited, Achieved, At, Rand, Exists
<1>3. ASSUME NEW b \in Buckets, OldKept(b), CleaningUp(b) PROVE OldKept(b)' /\ CleaningUp(b)'
  BY <1>3 DEF vars, OldKept, CleaningUp, Exists, Rand
<1> QED BY <1>1, <1>2, <1>3 DEF IInv, SInv

LEMMA NextKeeps == ASSUME IInv, [Next]_vars PROVE IInv' /\ (Standalone /\ SInv => SInv')
<1>1. CASE UNCHANGED vars
  BY <1>1, StutterKeeps
<1>2. CASE Boot
  BY <1>2, LoadKeeps, RemoveKeeps, PromoteKeeps, ServeKeeps DEF Boot
<1>3. CASE Crash
  BY <1>3, CrashKeeps
<1>4. ASSUME NEW b \in Buckets, Work(b)
      PROVE  IInv' /\ (Standalone /\ SInv => SInv')
  <2>1. CASE Purge(b)
    BY <2>1, PurgeKeeps
  <2>2. CASE ~Purge(b)
    <3>1. Kept(b)
      BY <1>4, <2>2, TakeUnknownKeeps, TakeKeeps, ReadKeeps, MkdirKeeps, SaveKeeps, UnwindKeeps,
         RetireKeeps, InstallKeeps, DiscardKeeps, ListKeeps, MoveKeeps, EraseKeeps DEF Work
    <3> QED BY <3>1, KeptKeeps
  <2> QED BY <2>1, <2>2
<1>5. ASSUME NEW b \in Buckets, Hang(b) \/ Panic(b)
      PROVE  IInv' /\ (Standalone /\ SInv => SInv')
  BY <1>5, HangKeeps, PanicKeeps, KeptKeeps
<1>6. ASSUME NEW b \in Buckets,
             Ask(b, "del", None) \/ Ask(b, "get", None) \/ \E v \in Vals : Ask(b, "put", v)
      PROVE  IInv' /\ (Standalone /\ SInv => SInv')
  BY <1>6, AskKeeps, KeptKeeps
<1> QED BY <1>1, <1>2, <1>3, <1>4, <1>5, <1>6 DEF Next

\* The inductive invariant above holds, also while file system calls fail:
\* a request is at a stage of its operation and has achieved what is said.
THEOREM Invariant == Spec => []IInv
BY InitHolds, NextKeeps, PTL DEF Spec

\* The variables keep to their types, whatever crashes and whatever fails.
THEOREM TypeCorrect == Spec => []TypeOK
BY Invariant, PTL DEF IInv

\* While no call fails, the one old directory of a bucket is whole when it is
\* needed, and the clean-up at a start has it before it.
THEOREM SoundInvariant == ASSUME Standalone PROVE Spec => [](IInv /\ SInv)
<1>1. IInv /\ SInv /\ [Next]_vars => (IInv /\ SInv)'
  BY NextKeeps
<1> QED BY <1>1, InitHolds, PTL DEF Spec

\* A bucket's directory is complete at every instant, unless a file system
\* call fails: the next start can read it (loadFini).
THEOREM AlwaysBootable == ASSUME Standalone PROVE Spec => []Bootable
<1>1. SInv => Bootable
  BY DEF SInv, OldKept, Bootable
<1> QED BY <1>1, SoundInvariant, PTL

-----------------------------------------------------------------------------
(* "ok" means done.                                                        *)

\* What OkMeansDone says of the bucket b in one step.
Honest(b) ==
    (task[b] # None /\ task'[b] = None /\ reply'[b] = "ok") => Content(b)' = task[b].val

LEMMA OtherHonest ==
    ASSUME NEW b \in Buckets, Only(b), NEW c \in Buckets, c # b
    PROVE  Honest(c)
BY DEF Only, Untouched, Honest

LEMMA DiscardHonest ==
    ASSUME IInv, NEW b \in Buckets, Discard(b)
    PROVE  Honest(b)
<1>1. st = "up" /\ task[b] # None /\ task[b].stage = "discard" /\ Rand(b) \in Rands
  BY Doing DEF Discard, At, IInv
<1>2. dir[Real(b)] = task[b].val /\ task[b].val \in Vals
  BY <1>1 DEF IInv, Working, Achieved, Suited, WellFormed, At, Putting
<1>3. dir'[Real(b)] = dir[Real(b)]
  BY <1>1, NameTypes, NamesDiffer, RemovalTypes DEF Discard, IInv, TypeOK
<1> QED BY <1>2, <1>3, ConstantsAssumption DEF Honest, Content, Exists

LEMMA EraseHonest ==
    ASSUME IInv, NEW b \in Buckets, Erase(b)
    PROVE  Honest(b)
<1>1. st = "up" /\ task[b] # None /\ task[b].stage = "erase" /\ Rand(b) \in Rands
  BY Doing DEF Erase, At, IInv
<1>2. ~Exists(Real(b)) /\ \A r \in Rands : ~Exists(Old(b, r))
  BY <1>1 DEF IInv, Working, Achieved, At
<1>3. task[b].val = None
  BY <1>1 DEF IInv, Working, Suited, WellFormed, Deleting
<1>4. dir'[Real(b)] = dir[Real(b)] /\ \A r \in Rands : dir'[Old(b, r)] = dir[Old(b, r)]
  BY <1>1, NameTypes, NamesDiffer, RemovalTypes DEF Erase, IInv, TypeOK
<1>5. Content(b)' = None
  BY <1>2, <1>4, ConstantsAssumption DEF Content, Spare, Exists
<1> QED BY <1>3, <1>5 DEF Honest

LEMMA OtherStagesHonest ==
    ASSUME IInv, NEW b \in Buckets,
           \/ TakeUnknown(b) \/ Take(b) \/ Read(b) \/ Mkdir(b) \/ Save(b) \/ Unwind(b)
           \/ Retire(b) \/ Install(b) \/ List(b) \/ Move(b) \/ Hang(b)
    PROVE  Honest(b)
<1>1. CASE TakeUnknown(b) \/ Take(b)
  BY <1>1 DEF TakeUnknown, Take, Dequeue, Honest
<1>2. CASE Read(b)
  <2> DEFINE ans == IF dir[Real(b)] \in Vals THEN dir[Real(b)] ELSE "error"
  <2>1. Finish(b, ans) /\ ans # "ok" /\ ans \in Answers
    BY <1>2, ConstantsAssumption DEF Read, Answers
  <2> QED BY <2>1, FinishKeeps DEF Honest
<1>3. ASSUME Finish(b, "error") PROVE Honest(b)
  <2>1. "error" \in Answers
    BY DEF Answers
  <2> QED BY <1>3, <2>1, FinishKeeps DEF Honest
<1>4. ASSUME NEW stage \in Stages, Goto(b, stage), task[b] # None PROVE Honest(b)
  BY <1>4, GotoKeeps DEF Honest
<1>5. CASE Mkdir(b) \/ Save(b) \/ Retire(b) \/ Install(b) \/ Hang(b)
  <2>1. {"save", "unwind", "retire", "install", "discard", "hung"} \subseteq Stages
    BY DEF Stages
  <2> QED BY <1>4, <1>5, <2>1 DEF Mkdir, Save, Retire, Install, Hang, At
<1>6. CASE Unwind(b)
  BY <1>3, <1>6 DEF Unwind, Honest
<1>7. CASE List(b)
  <2>1. CASE Finish(b, "error")
    BY <1>3, <2>1
  <2>2. CASE UNCHANGED reply /\ task' = [task EXCEPT ![b].stage = "purge", ![b].purge = OldOnes(b)]
    <3>1. task[b] \in Tasks
      BY <1>7, Doing DEF List, At, IInv
    <3>2. [task[b] EXCEPT !.stage = "purge", !.purge = OldOnes(b)] \in Tasks
      BY <3>1, OldOnesOwn DEF Tasks, Stages
    <3>3. task'[b] # None
      BY <2>2, <3>2, NoneAssumption DEF IInv, TypeOK
    <3> QED BY <3>3 DEF Honest
  <2> QED BY <1>7, <2>1, <2>2 DEF List
<1>8. CASE Move(b)
  <2>1. "erase" \in Stages
    BY DEF Stages
  <2> QED BY <1>3, <1>4, <1>8, <2>1 DEF Move, At
<1> QED BY <1>1, <1>2, <1>5, <1>6, <1>7, <1>8

\* "ok" is answered only when the request has had its effect, whatever calls
\* fail and whatever other requests do meanwhile: a replacement is in place,
\* and nothing is left of a deleted bucket for a later start to promote.
THEOREM OkIsHonest == Spec => OkMeansDone
<1>1. ASSUME IInv, [Next]_vars
      PROVE  [\A b \in Buckets : Honest(b)]_vars
  <2> SUFFICES ASSUME NEW c \in Buckets, Next PROVE Honest(c)
    BY <1>1
  <2>1. CASE Boot
    BY <2>1 DEF Boot, Load, Remove, Promote, Serve, Honest
  <2>2. CASE Crash \/ \E b \in Buckets : Panic(b)
    BY <2>2, ConstantsAssumption DEF Crash, Panic, Die, Honest
  <2>3. ASSUME NEW b \in Buckets,
               Ask(b, "del", None) \/ Ask(b, "get", None) \/ \E v \in Vals : Ask(b, "put", v)
        PROVE  Honest(c)
    BY <2>3 DEF Ask, Honest
  <2>4. ASSUME NEW b \in Buckets, Purge(b)
        PROVE  Honest(c)
    BY <1>1, <2>4, PurgeKeeps DEF Honest
  <2>5. ASSUME NEW b \in Buckets, Hang(b) \/ (Work(b) /\ ~Purge(b))
        PROVE  Honest(c)
    <3>1. Only(b)
      BY <1>1, <2>5, HangKeeps, TakeUnknownKeeps, TakeKeeps, ReadKeeps, MkdirKeeps, SaveKeeps,
         UnwindKeeps, RetireKeeps, InstallKeeps, DiscardKeeps, ListKeeps, MoveKeeps, EraseKeeps
         DEF Work, Kept
    <3>2. Honest(b)
      BY <1>1, <2>5, DiscardHonest, EraseHonest, OtherStagesHonest DEF Work
    <3> QED BY <3>1, <3>2, OtherHonest
  <2> QED BY <2>1, <2>2, <2>3, <2>4, <2>5 DEF Next
<1> QED BY <1>1, Invariant, PTL DEF Spec, OkMeansDone, Honest

-----------------------------------------------------------------------------
(* The refinement: what each step means to the atomic requests.            *)

LEMMA ChooseOnly ==
    ASSUME NEW S, NEW r \in S, \A s \in S : s = r
    PROVE  (CHOOSE x \in S : TRUE) = r
OBVIOUS

\* The content of a bucket, without the choice among its old directories.
LEMMA ContentIs ==
    ASSUME NEW b \in Buckets, OldKept(b)
    PROVE  /\ Exists(Real(b)) => Content(b) = dir[Real(b)]
           /\ \A r \in Rands :
                 ~Exists(Real(b)) /\ dir[Old(b, r)] \in Vals => Content(b) = dir[Old(b, r)]
           /\ ~Exists(Real(b)) /\ (\A r \in Rands : dir[Old(b, r)] \notin Vals) => Content(b) = None
<1>1. ASSUME NEW r \in Rands, ~Exists(Real(b)), dir[Old(b, r)] \in Vals
      PROVE  Content(b) = dir[Old(b, r)]
  <2>1. r \in Spare(b) /\ \A s \in Spare(b) : s = r
    BY <1>1, ConstantsAssumption DEF Spare, OldKept, Exists
  <2>2. (CHOOSE s \in Spare(b) : TRUE) = r
    BY <2>1, ChooseOnly
  <2> QED BY <1>1, <2>1, <2>2 DEF Content
<1> QED BY <1>1 DEF Content, Spare

LEMMA ContentIsNext ==
    ASSUME NEW b \in Buckets, OldKept(b)'
    PROVE  /\ Exists(Real(b))' => Content(b)' = dir'[Real(b)]
           /\ \A r \in Rands :
                 ~Exists(Real(b))' /\ dir'[Old(b, r)] \in Vals => Content(b)' = dir'[Old(b, r)]
           /\ ~Exists(Real(b))' /\ (\A r \in Rands : dir'[Old(b, r)] \notin Vals) => Content(b)' = None
<1>1. ASSUME NEW r \in Rands, ~Exists(Real(b))', dir'[Old(b, r)] \in Vals
      PROVE  Content(b)' = dir'[Old(b, r)]
  <2>1. r \in Spare(b)' /\ \A s \in Spare(b)' : s = r
    BY <1>1, ConstantsAssumption DEF Spare, OldKept, Exists
  <2>2. (CHOOSE s \in Spare(b)' : TRUE) = r
    BY <2>1, ChooseOnly
  <2> QED BY <1>1, <2>1, <2>2 DEF Content
<1> QED BY <1>1 DEF Content, Spare

LEMMA SameContent ==
    ASSUME NEW b \in Buckets, OldKept(b), OldKept(b)', dir'[Real(b)] = dir[Real(b)],
           \A r \in Rands : dir'[Old(b, r)] = dir[Old(b, r)]
    PROVE  Content(b)' = Content(b)
<1>1. CASE \E r \in Rands : dir[Old(b, r)] \in Vals
  BY <1>1, ContentIs, ContentIsNext DEF Exists
<1>2. CASE ~\E r \in Rands : dir[Old(b, r)] \in Vals
  BY <1>2, ContentIs, ContentIsNext DEF Exists
<1> QED BY <1>1, <1>2

\* The request in progress on a bucket, as StashSpec sees it.
Seen(b) == IF task[b] # None THEN InProgress(task[b]) ELSE None

\* What the steps below have in common: the service is up before and after,
\* no call fails, and the other buckets are left alone.
Serving(b) ==
    /\ Sound /\ Sound' /\ st = "up" /\ st' = "up"
    /\ \A c \in Buckets \ {b} :
          Content(c)' = Content(c) /\ Seen(c)' = Seen(c) /\ reply'[c] = reply[c]

LEMMA MapStutter ==
    ASSUME Sound, Sound', st = "up", st' = "up", UNCHANGED listed,
           \A c \in Buckets : Content(c)' = Content(c) /\ Seen(c)' = Seen(c) /\ reply'[c] = reply[c]
    PROVE  UNCHANGED A!vars
BY DEF A!vars, Seen, TornBuckets

LEMMA MapBegin ==
    ASSUME NEW b \in Buckets, Serving(b), NEW op, NEW v,
           task[b] = None, Seen(b)' = [op |-> op, val |-> v, done |-> FALSE], reply'[b] = None,
           Content(b)' = Content(b), UNCHANGED listed
    PROVE  A!Begin(b, op, v)
BY DEF A!Begin, Serving, Seen, TornBuckets

\* A request in progress is no constant, and done at its last stages.
LEMMA Progress ==
    ASSUME NEW t \in Tasks
    PROVE  /\ InProgress(t) # None
           /\ t.stage \in {"discard", "erase"}
                 => InProgress(t) = [op |-> t.op, val |-> t.val, done |-> TRUE]
           /\ t.stage \notin {"discard", "erase"}
                 => InProgress(t) = [op |-> t.op, val |-> t.val, done |-> FALSE]
<1> DEFINE d == t.stage \in {"discard", "erase"}
           P(x) == [op |-> t.op, val |-> t.val, done |-> x]
<1>1. InProgress(t) = P(d)
  BY DEF InProgress
<1>2. P(TRUE) # None /\ P(FALSE) # None
  <2>1. t.op \in {"put", "del", "get"} /\ t.val \in Vals \cup {None}
    BY DEF Tasks
  <2>2. /\ P(TRUE) \in [op: {"put", "del", "get"}, val: Vals \cup {None}, done: BOOLEAN]
        /\ P(FALSE) \in [op: {"put", "del", "get"}, val: Vals \cup {None}, done: BOOLEAN]
    BY <2>1
  <2> QED BY <2>2, NoneAssumption
<1>3. CASE d
  <2>1. d = TRUE
    BY <1>3
  <2> HIDE DEF d
  <2>2. InProgress(t) = P(TRUE)
    BY <1>1, <2>1, Zenon
  <2> QED BY <1>2, <1>3, <2>2 DEF d
<1>4. CASE ~d
  <2>1. d = FALSE
    BY <1>4
  <2> HIDE DEF d
  <2>2. InProgress(t) = P(FALSE)
    BY <1>1, <2>1, Zenon
  <2> QED BY <1>2, <1>4, <2>2 DEF d
<1> QED BY <1>3, <1>4

LEMMA MapAnswer ==
    ASSUME NEW b \in Buckets, Serving(b), task'[b] = None, NEW ans, reply'[b] = ans,
           Content(b)' = Content(b)
    PROVE  A!Answer(b, ans)
BY DEF A!Answer, Serving, Seen, TornBuckets

LEMMA Finishing ==
    ASSUME NEW o, NEW v
    PROVE  [[op |-> o, val |-> v, done |-> FALSE] EXCEPT !.done = TRUE]
              = [op |-> o, val |-> v, done |-> TRUE]
<1>1. ASSUME NEW x, NEW y
      PROVE  [[op |-> o, val |-> v, done |-> x] EXCEPT !.done = y]
                = [op |-> o, val |-> v, done |-> y]
  OBVIOUS
<1> QED BY <1>1, Zenon

LEMMA MapEffect ==
    ASSUME NEW b \in Buckets, Serving(b), TypeOK, task[b] # None,
           task[b].stage \notin {"discard", "erase"}, task[b].op \in {"put", "del"},
           Content(b)' = task[b].val, reply'[b] = reply[b], UNCHANGED listed,
           Seen(b)' = [op |-> task[b].op, val |-> task[b].val, done |-> TRUE]
    PROVE  A!Effect(b)
<1> DEFINE D == [c \in Buckets |-> IF Sound /\ task[c] # None THEN InProgress(task[c]) ELSE None]
           p == [op |-> task[b].op, val |-> task[b].val, done |-> FALSE]
<1>1. InProgress(task[b]) = p /\ p # None
  BY Doing, Progress
<1>2. D[b] = p
  BY <1>1 DEF Serving
<1>3. D' = [D EXCEPT ![b] = [op |-> task[b].op, val |-> task[b].val, done |-> TRUE]]
  BY DEF Serving, Seen
<1>4. D' = [D EXCEPT ![b].done = TRUE]
  <2> HIDE DEF D
  <2>1. [D[b] EXCEPT !.done = TRUE] = [op |-> task[b].op, val |-> task[b].val, done |-> TRUE]
    BY <1>2, Finishing
  <2> QED BY <1>3, <2>1
<1>5. D[b] # None /\ ~D[b].done /\ D[b].op \in {"put", "del"} /\ D[b].val = task[b].val
  BY <1>1, <1>2
<1> HIDE DEF D, p
<1>6. [c \in Buckets |-> IF Sound THEN Content(c) ELSE None]'
        = [[c \in Buckets |-> IF Sound THEN Content(c) ELSE None] EXCEPT ![b] = D[b].val]
  BY <1>5 DEF Serving
<1>7. UNCHANGED <<IF Sound /\ st = "up" THEN listed ELSE {}, IF Sound THEN TornBuckets ELSE {},
                  [c \in Buckets |-> IF Sound THEN reply[c] ELSE None], Sound /\ st = "up">>
  BY DEF Serving, TornBuckets
<1> QED BY <1>4, <1>5, <1>6, <1>7 DEF A!Effect, D

LEMMA MapCommit ==
    ASSUME NEW b \in Buckets, Serving(b), TypeOK, task[b] # None,
           task[b].stage \in {"discard", "erase"}, task'[b] = None, reply'[b] = "ok",
           Content(b)' = Content(b),
           listed' = IF task[b].op = "put" THEN listed \cup {b} ELSE listed \ {b}
    PROVE  A!Commit(b)
<1> DEFINE D == [c \in Buckets |-> IF Sound /\ task[c] # None THEN InProgress(task[c]) ELSE None]
           p == [op |-> task[b].op, val |-> task[b].val, done |-> TRUE]
<1>1. InProgress(task[b]) = p /\ p # None
  BY Doing, Progress
<1>2. D[b] = p
  BY <1>1 DEF Serving
<1>3. D[b] # None /\ D[b].done /\ D[b].op = task[b].op
  BY <1>1, <1>2
<1> HIDE DEF D, p
<1>4. (IF Sound /\ st = "up" THEN listed ELSE {})'
        = IF D[b].op = "put" THEN (IF Sound /\ st = "up" THEN listed ELSE {}) \cup {b}
                             ELSE (IF Sound /\ st = "up" THEN listed ELSE {}) \ {b}
  BY <1>3 DEF Serving
<1> QED BY <1>3, <1>4, MapAnswer DEF A!Commit, D

LEMMA MapFail ==
    ASSUME NEW b \in Buckets, Serving(b), TypeOK, task[b] # None,
           task[b].stage \notin {"discard", "erase"}, task'[b] = None, reply'[b] = "error",
           Content(b)' = Content(b), UNCHANGED listed
    PROVE  A!Fail(b)
<1> DEFINE D == [c \in Buckets |-> IF Sound /\ task[c] # None THEN InProgress(task[c]) ELSE None]
           p == [op |-> task[b].op, val |-> task[b].val, done |-> FALSE]
<1>1. InProgress(task[b]) = p /\ p # None
  BY Doing, Progress
<1>2. D[b] = p
  BY <1>1 DEF Serving
<1>3. D[b] # None /\ ~D[b].done
  BY <1>1, <1>2
<1> HIDE DEF D, p
<1>4. UNCHANGED (IF Sound /\ st = "up" THEN listed ELSE {})
  BY DEF Serving
<1> QED BY <1>3, <1>4, MapAnswer DEF A!Fail, D

LEMMA MapRead ==
    ASSUME NEW b \in Buckets, Serving(b), TypeOK, task[b] # None, task[b].op = "get",
           task[b].stage = "read", b \in listed, task'[b] = None, reply'[b] = Content(b),
           Content(b)' = Content(b), UNCHANGED listed
    PROVE  A!Read(b)
<1>1. InProgress(task[b]).op = "get" /\ InProgress(task[b]) # None
  BY Doing, Progress
<1> QED BY <1>1 DEF A!Read, A!Answer, Serving, Seen, TornBuckets

LEMMA MapUnknown ==
    ASSUME NEW b \in Buckets, Serving(b), task[b] = None, b \notin listed, task'[b] = None,
           Content(b)' = Content(b), UNCHANGED listed
    PROVE  /\ reply'[b] = "ok" => A!DeleteUnknown(b)
           /\ reply'[b] = "error" => A!ReadUnknown(b)
BY MapAnswer DEF A!DeleteUnknown, A!ReadUnknown, Serving

\* A step while no file system call fails.
Quiet == IInv /\ SInv /\ IInv' /\ SInv' /\ Sound /\ Sound'

LEMMA OnlyServing ==
    ASSUME NEW b \in Buckets, Quiet, Only(b)
    PROVE  Serving(b)
<1>1. ASSUME NEW c \in Buckets \ {b}
      PROVE  Content(c)' = Content(c) /\ Seen(c)' = Seen(c) /\ reply'[c] = reply[c]
  <2>1. Untouched(c)
    BY DEF Only
  <2>2. OldKept(c) /\ OldKept(c)'
    BY DEF Quiet, SInv
  <2> QED BY <2>1, <2>2, SameContent DEF Untouched, Seen
<1> QED BY <1>1 DEF Serving, Quiet, Only

LEMMA SeenIs ==
    ASSUME IInv, NEW b \in Buckets, task[b] # None
    PROVE  Seen(b) = [op |-> task[b].op, val |-> task[b].val,
                      done |-> IF task[b].stage \in {"discard", "erase"} THEN TRUE ELSE FALSE]
BY Doing, Progress DEF IInv, Seen

LEMMA SeenNext ==
    ASSUME IInv', NEW b \in Buckets, task'[b] # None
    PROVE  Seen(b)' = [op |-> task'[b].op, val |-> task'[b].val,
                       done |-> IF task'[b].stage \in {"discard", "erase"} THEN TRUE ELSE FALSE]
<1>1. task'[b] \in Tasks
  BY DEF IInv, TypeOK
<1> QED BY <1>1, Progress DEF Seen

\* A request that goes to a stage without an effect, or waits at one.
LEMMA GoingOn ==
    ASSUME NEW b \in Buckets, Quiet, Only(b), task[b] # None, task'[b] # None, UNCHANGED listed,
           task'[b].op = task[b].op, task'[b].val = task[b].val,
           task'[b].stage \in {"discard", "erase"} <=> task[b].stage \in {"discard", "erase"},
           Content(b)' = Content(b), reply'[b] = reply[b]
    PROVE  UNCHANGED A!vars
<1>1. Serving(b)
  BY OnlyServing
<1>2. Seen(b)' = Seen(b)
  BY SeenIs, SeenNext DEF Quiet
<1> QED BY <1>1, <1>2, MapStutter DEF Serving

LEMMA AskMaps ==
    ASSUME Quiet, NEW b \in Buckets, NEW op, NEW v, Ask(b, op, v)
    PROVE  UNCHANGED A!vars
<1>1. st = "up" /\ UNCHANGED <<st, dir, listed, todo, task, reply>>
  BY DEF Ask
<1>2. \A c \in Buckets : OldKept(c) /\ OldKept(c)'
  BY DEF Quiet, SInv
<1>3. \A c \in Buckets : Content(c)' = Content(c)
  BY <1>1, <1>2, SameContent
<1> QED BY <1>1, <1>3, MapStutter DEF Quiet, Seen

LEMMA TakeUnknownMaps ==
    ASSUME Quiet, NEW b \in Buckets, TakeUnknown(b)
    PROVE  A!DeleteUnknown(b) \/ A!ReadUnknown(b)
<1> DEFINE ans == IF Head(queue[b]).op = "del" THEN "ok" ELSE "error"
<1>1. /\ task[b] = None /\ b \notin listed /\ Finish(b, ans) /\ ans \in Answers
      /\ UNCHANGED <<dir, listed>>
  BY DEF TakeUnknown, Dequeue, Answers
<1>2. task'[b] = None /\ reply'[b] \in {"ok", "error"}
  BY <1>1, FinishKeeps DEF Quiet
<1>3. Serving(b)
  BY OnlyServing, TakeUnknownKeeps DEF Quiet, Kept
<1>4. Content(b)' = Content(b)
  BY <1>1, SameContent DEF Quiet, SInv
<1> QED BY <1>1, <1>2, <1>3, <1>4, MapUnknown

LEMMA TakeMaps ==
    ASSUME Quiet, NEW b \in Buckets, Take(b)
    PROVE  A!Begin(b, "del", None) \/ A!Begin(b, "get", None) \/ \E v \in Vals : A!Begin(b, "put", v)
<1> DEFINE q == Head(queue[b])
           first == CASE q.op = "put" -> "mkdir" [] q.op = "del" -> "list" [] OTHER -> "read"
<1>1. PICK r \in Rands :
        task' = [task EXCEPT ![b] = [op |-> q.op, val |-> q.val, rand |-> r,
                                     stage |-> first, purge |-> {}, failed |-> FALSE]]
  BY DEF Take
<1> DEFINE t == [op |-> q.op, val |-> q.val, rand |-> r,
                 stage |-> first, purge |-> {}, failed |-> FALSE]
<1>2. /\ Dequeue(b) /\ task[b] = None /\ reply' = [reply EXCEPT ![b] = None]
      /\ UNCHANGED <<dir, listed>>
  BY DEF Take, Dequeue
<1>3. q \in Requests /\ WellFormed(q)
  BY <1>2, DequeueKeeps DEF Quiet
<1>4. t \in Tasks
  BY <1>3 DEF Requests, Tasks, Stages
<1>5. t.op = q.op /\ t.val = q.val /\ t.stage \notin {"discard", "erase"} /\ t # None
  BY <1>4, NoneAssumption
<1> HIDE DEF t
<1>6. task'[b] = t /\ reply'[b] = None
  BY <1>1, <1>2 DEF t, Quiet, IInv, TypeOK
<1>7. Seen(b)' = [op |-> q.op, val |-> q.val, done |-> FALSE]
  BY <1>5, <1>6, SeenNext DEF Quiet
<1>8. Serving(b)
  BY OnlyServing, TakeKeeps DEF Quiet, Kept
<1>9. Content(b)' = Content(b)
  BY <1>2, SameContent DEF Quiet, SInv
<1>10. PICK op, v : op = q.op /\ v = q.val
  OBVIOUS
<1>11. A!Begin(b, op, v)
  BY <1>2, <1>6, <1>7, <1>8, <1>9, <1>10, MapBegin
<1> QED BY <1>3, <1>10, <1>11 DEF WellFormed, Requests

\* Without a failing call, a directory's removal goes on or is complete.
LEMMA NoError == Quiet => ~IOError
BY ErrorTypes DEF Quiet, IInv

LEMMA MkdirMaps ==
    ASSUME Quiet, NEW b \in Buckets, Mkdir(b) \/ Save(b)
    PROVE  UNCHANGED A!vars
<1>1. Kept(b)
  BY MkdirKeeps, SaveKeeps DEF Quiet
<1>2. PICK stage \in {"save", "retire", "unwind"} : Goto(b, stage)
  BY DEF Mkdir, Save
<1>3. task[b] # None /\ task[b].stage \in {"mkdir", "save"} /\ UNCHANGED listed
  BY DEF Mkdir, Save, At
<1>4. stage \in Stages /\ Rand(b) \in Rands
  BY <1>3, Doing DEF Stages, Quiet, IInv
<1>5. dir' = dir \/ \E v : dir' = [dir EXCEPT ![New(b, Rand(b))] = v]
  BY DEF Mkdir, Save
<1>6. dir'[Real(b)] = dir[Real(b)] /\ \A r \in Rands : dir'[Old(b, r)] = dir[Old(b, r)]
  BY <1>4, <1>5, NameTypes, RealType, NamesDiffer DEF Quiet, IInv, TypeOK
<1>7. Content(b)' = Content(b)
  BY <1>6, SameContent DEF Quiet, SInv
<1> QED BY <1>1, <1>2, <1>3, <1>4, <1>7, GotoKeeps, GoingOn DEF Quiet, Kept

LEMMA UnwindMaps ==
    ASSUME Quiet, NEW b \in Buckets, Unwind(b)
    PROVE  UNCHANGED A!vars \/ A!Fail(b)
<1>1. Kept(b)
  BY UnwindKeeps DEF Quiet
<1>2. task[b] # None /\ task[b].stage = "unwind" /\ UNCHANGED listed
  BY DEF Unwind, At
<1>3. Rand(b) \in Rands
  BY <1>2, Doing DEF Quiet, IInv
<1>4. Eroded(New(b, Rand(b))) \/ Removed(New(b, Rand(b)))
  BY NoError DEF Unwind
<1>5. dir'[Real(b)] = dir[Real(b)] /\ \A r \in Rands : dir'[Old(b, r)] = dir[Old(b, r)]
  BY <1>3, <1>4, NameTypes, RealType, NamesDiffer, RemovalTypes DEF Quiet, IInv
<1>6. Content(b)' = Content(b)
  BY <1>5, SameContent DEF Quiet, SInv
<1>7. CASE UNCHANGED <<task, reply>>
  BY <1>1, <1>2, <1>6, <1>7, GoingOn DEF Kept
<1>8. CASE Finish(b, "error")
  <2>1. "error" \in Answers
    BY DEF Answers
  <2>2. task'[b] = None /\ reply'[b] = "error"
    BY <1>8, <2>1, FinishKeeps DEF Quiet
  <2>3. Serving(b) /\ TypeOK
    BY <1>1, OnlyServing DEF Kept, Quiet, IInv
  <2> QED BY <1>2, <1>6, <2>2, <2>3, MapFail
<1> QED BY <1>7, <1>8 DEF Unwind

\* Retiring the old directory changes where the content is, not what it is.
LEMMA RetireMaps ==
    ASSUME Quiet, NEW b \in Buckets, Retire(b)
    PROVE  UNCHANGED A!vars
<1> DEFINE n == Old(b, Rand(b))
<1>1. Kept(b)
  BY RetireKeeps DEF Quiet
<1>2. /\ task[b] # None /\ task[b].stage = "retire" /\ st = "up" /\ UNCHANGED listed
      /\ Goto(b, "install") /\ dir' = IF Exists(Real(b)) THEN Moved(Real(b), n) ELSE dir
  BY DEF Retire, At
<1>3. Rand(b) \in Rands /\ n \in Names /\ Real(b) \in Names /\ "install" \in Stages
  BY <1>2, Doing, NameTypes DEF Quiet, IInv, Stages
<1>4. OldKept(b) /\ OldKept(b)'
  BY DEF Quiet, SInv
<1>5. Content(b)' = Content(b)
  <2>1. CASE ~Exists(Real(b))
    BY <1>2, <1>4, <2>1, SameContent
  <2>2. CASE Exists(Real(b))
    <3>1. dir'[Real(b)] = None /\ dir'[n] = dir[Real(b)]
      BY <1>2, <1>3, <2>2, NamesDiffer DEF Moved, Quiet, IInv, TypeOK
    <3>2. dir[Real(b)] \in Vals
      BY <1>3, <1>4, <2>2 DEF Quiet, IInv, TypeOK, OldKept, Exists
    <3>3. Content(b) = dir[Real(b)]
      BY <1>4, <2>2, ContentIs
    <3>4. Content(b)' = dir'[n]
      BY <1>3, <1>4, <3>1, <3>2, ContentIsNext DEF Exists
    <3> QED BY <3>1, <3>3, <3>4
  <2> QED BY <2>1, <2>2
<1> QED BY <1>1, <1>2, <1>3, <1>5, GotoKeeps, GoingOn DEF Quiet, Kept

\* The rename of the new directory is the instant of a replacement.
LEMMA InstallMaps ==
    ASSUME Quiet, NEW b \in Buckets, Install(b)
    PROVE  A!Effect(b)
<1> DEFINE n == New(b, Rand(b))
<1>1. Kept(b)
  BY InstallKeeps DEF Quiet
<1>2. /\ task[b] # None /\ task[b].stage = "install" /\ st = "up" /\ UNCHANGED listed
      /\ Goto(b, "discard") /\ dir' = Moved(n, Real(b))
  BY DEF Install, At
<1>3. Rand(b) \in Rands /\ n \in Names /\ Real(b) \in Names /\ "discard" \in Stages
  BY <1>2, Doing, NameTypes DEF Quiet, IInv, Stages
<1>4. dir[n] = task[b].val /\ task[b].val \in Vals /\ task[b].op = "put"
  BY <1>2 DEF Quiet, IInv, Working, Achieved, Suited, WellFormed, At, Putting, Install
<1>5. dir'[Real(b)] = task[b].val
  BY <1>2, <1>3, <1>4, NamesDiffer DEF Moved, Quiet, IInv, TypeOK
<1>6. Content(b)' = task[b].val
  BY <1>4, <1>5, ContentIsNext, ConstantsAssumption DEF Quiet, SInv, Exists
<1>7. Seen(b)' = [op |-> task[b].op, val |-> task[b].val, done |-> TRUE]
  BY <1>2, <1>3, GotoKeeps, SeenNext DEF Quiet
<1>8. Serving(b) /\ TypeOK /\ UNCHANGED reply
  BY <1>1, <1>2, OnlyServing DEF Kept, Quiet, IInv, Goto
<1> QED BY <1>2, <1>4, <1>6, <1>7, <1>8, MapEffect

LEMMA DiscardMaps ==
    ASSUME Quiet, NEW b \in Buckets, Discard(b)
    PROVE  UNCHANGED A!vars \/ A!Commit(b)
<1> DEFINE n == Old(b, Rand(b))
<1>1. Kept(b)
  BY DiscardKeeps DEF Quiet
<1>2. task[b] # None /\ task[b].stage = "discard" /\ st = "up"
  BY DEF Discard, At
<1>3. Rand(b) \in Rands /\ n \in Names
  BY <1>2, Doing, NameTypes DEF Quiet, IInv
<1>4. Eroded(n) \/ Removed(n)
  BY NoError DEF Discard
<1>5. dir'[Real(b)] = dir[Real(b)]
  <2>1. Real(b) \in Names \ {n}
    BY RealType, NamesDiffer
  <2> QED BY <1>3, <1>4, <2>1, RemovalTypes DEF Quiet, IInv
<1>6. dir[Real(b)] = task[b].val /\ task[b].val \in Vals /\ task[b].op = "put"
  BY <1>2 DEF Quiet, IInv, Working, Achieved, Suited, WellFormed, At, Putting
<1>7. Content(b)' = Content(b)
  BY <1>5, <1>6, ContentIs, ContentIsNext, ConstantsAssumption DEF Quiet, SInv, Exists
<1>8. CASE UNCHANGED <<listed, task, reply>>
  BY <1>1, <1>2, <1>7, <1>8, GoingOn DEF Kept
<1>9. CASE listed' = listed \cup {b} /\ Finish(b, "ok")
  <2>1. "ok" \in Answers
    BY DEF Answers
  <2>2. task'[b] = None /\ reply'[b] = "ok"
    BY <1>9, <2>1, FinishKeeps DEF Quiet
  <2>3. Serving(b) /\ TypeOK
    BY <1>1, OnlyServing DEF Kept, Quiet, IInv
  <2> QED BY <1>2, <1>6, <1>7, <1>9, <2>2, <2>3, MapCommit
<1> QED BY <1>8, <1>9 DEF Discard

LEMMA ListMaps ==
    ASSUME Quiet, NEW b \in Buckets, List(b)
    PROVE  UNCHANGED A!vars
<1>1. Kept(b)
  BY ListKeeps DEF Quiet
<1>2. /\ task[b] # None /\ task[b].stage = "list" /\ UNCHANGED <<dir, listed, reply>>
      /\ task' = [task EXCEPT ![b].stage = "purge", ![b].purge = OldOnes(b)]
  BY NoError DEF List, At
<1> DEFINE t == [task[b] EXCEPT !.stage = "purge", !.purge = OldOnes(b)]
<1>3. task[b] \in Tasks
  BY <1>2, Doing DEF Quiet, IInv
<1>4. /\ t \in Tasks /\ t.stage = "purge" /\ t.op = task[b].op /\ t.val = task[b].val
  BY <1>3, OldOnesOwn DEF Tasks, Stages
<1>5. t # None
  BY <1>4, NoneAssumption
<1>6. task' = [task EXCEPT ![b] = t]
  BY <1>2
<1> HIDE DEF t
<1>7. task'[b] = t
  BY <1>6 DEF Quiet, IInv, TypeOK
<1>8. Content(b)' = Content(b)
  BY <1>2, SameContent DEF Quiet, SInv
<1> QED BY <1>1, <1>2, <1>4, <1>5, <1>7, <1>8, GoingOn DEF Kept

\* The rename of the bucket's directory is the instant of a deletion.
LEMMA MoveMaps ==
    ASSUME Quiet, NEW b \in Buckets, Move(b)
    PROVE  A!Effect(b) \/ A!Fail(b)
<1> DEFINE n == Del(b, Rand(b))
<1>1. Kept(b)
  BY MoveKeeps DEF Quiet
<1>2. task[b] # None /\ task[b].stage = "purge" /\ st = "up" /\ UNCHANGED listed
  BY DEF Move, At
<1>3. Rand(b) \in Rands /\ n \in Names /\ Real(b) \in Names /\ "erase" \in Stages
  BY <1>2, Doing, NameTypes DEF Quiet, IInv, Stages
<1>4. OldKept(b) /\ OldKept(b)' /\ Serving(b) /\ TypeOK
  BY <1>1, OnlyServing DEF Quiet, SInv, Kept, IInv
<1>5. CASE Finish(b, "error") /\ UNCHANGED dir
  <2>1. "error" \in Answers
    BY DEF Answers
  <2>2. task'[b] = None /\ reply'[b] = "error"
    BY <1>5, <2>1, FinishKeeps DEF Quiet
  <2>3. Content(b)' = Content(b)
    BY <1>4, <1>5, SameContent
  <2> QED BY <1>2, <1>4, <2>2, <2>3, MapFail
<1>6. CASE Goto(b, "erase") /\ dir' = IF Exists(Real(b)) THEN Moved(Real(b), n) ELSE dir
  <2>1. dir'[Real(b)] = None
    BY <1>3, <1>6, NamesDiffer DEF Moved, Exists, Quiet, IInv, TypeOK
  <2>2. \A r \in Rands : dir'[Old(b, r)] = None
    <3>1. \A r \in Rands : dir[Old(b, r)] = None
      BY <1>2, <1>4 DEF OldKept, Exists
    <3> QED BY <1>3, <1>6, <3>1, NameTypes, NamesDiffer DEF Moved, Quiet, IInv, TypeOK
  <2>3. Content(b)' = None
    BY <1>4, <2>1, <2>2, ContentIsNext, ConstantsAssumption DEF Exists
  <2>4. task[b].op = "del" /\ task[b].val = None
    BY <1>2 DEF Quiet, IInv, Working, Suited, WellFormed, Deleting
  <2>5. Seen(b)' = [op |-> task[b].op, val |-> task[b].val, done |-> TRUE]
    BY <1>2, <1>3, <1>6, GotoKeeps, SeenNext DEF Quiet
  <2>6. UNCHANGED reply
    BY <1>6 DEF Goto
  <2> QED BY <1>2, <1>4, <2>3, <2>4, <2>5, <2>6, MapEffect
<1> QED BY <1>5, <1>6, NoError DEF Move

LEMMA EraseMaps ==
    ASSUME Quiet, NEW b \in Buckets, Erase(b)
    PROVE  UNCHANGED A!vars \/ A!Commit(b)
<1> DEFINE n == Del(b, Rand(b))
<1>1. Kept(b)
  BY EraseKeeps DEF Quiet
<1>2. task[b] # None /\ task[b].stage = "erase" /\ st = "up"
  BY DEF Erase, At
<1>3. Rand(b) \in Rands /\ n \in Names
  BY <1>2, Doing, NameTypes DEF Quiet, IInv
<1>4. Eroded(n) \/ Removed(n)
  BY NoError DEF Erase
<1>5. dir'[Real(b)] = dir[Real(b)] /\ \A r \in Rands : dir'[Old(b, r)] = dir[Old(b, r)]
  BY <1>3, <1>4, RealType, NameTypes, NamesDiffer, RemovalTypes DEF Quiet, IInv
<1>6. Content(b)' = Content(b)
  BY <1>5, SameContent DEF Quiet, SInv
<1>7. task[b].op = "del"
  BY <1>2 DEF Quiet, IInv, Working, Suited, Deleting
<1>8. CASE UNCHANGED <<listed, task, reply>>
  BY <1>1, <1>2, <1>6, <1>8, GoingOn DEF Kept
<1>9. CASE listed' = listed \ {b} /\ Finish(b, "ok")
  <2>1. "ok" \in Answers
    BY DEF Answers
  <2>2. task'[b] = None /\ reply'[b] = "ok"
    BY <1>9, <2>1, FinishKeeps DEF Quiet
  <2>3. Serving(b) /\ TypeOK
    BY <1>1, OnlyServing DEF Kept, Quiet, IInv
  <2> QED BY <1>2, <1>6, <1>7, <1>9, <2>2, <2>3, MapCommit
<1> QED BY <1>8, <1>9 DEF Erase

LEMMA ReadMaps ==
    ASSUME Quiet, NEW b \in Buckets, Read(b)
    PROVE  A!Read(b) \/ A!Fail(b)
<1> DEFINE ans == IF dir[Real(b)] \in Vals THEN dir[Real(b)] ELSE "error"
<1>1. Kept(b)
  BY ReadKeeps DEF Quiet
<1>2. /\ task[b] # None /\ task[b].stage = "read" /\ Finish(b, ans) /\ ans \in Answers
      /\ UNCHANGED <<dir, listed>>
  BY DEF Read, At, Answers
<1>3. task'[b] = None /\ reply'[b] = ans
  BY <1>2, FinishKeeps DEF Quiet
<1>4. task[b].op = "get" /\ b \in listed
  BY <1>2 DEF Quiet, IInv, Working, Suited
<1>5. OldKept(b) /\ OldKept(b)' /\ Serving(b) /\ TypeOK
  BY <1>1, OnlyServing DEF Quiet, SInv, Kept, IInv
<1>6. Content(b)' = Content(b)
  BY <1>2, <1>5, SameContent
<1>7. CASE dir[Real(b)] \in Vals
  <2>1. Content(b) = dir[Real(b)]
    BY <1>5, <1>7, ContentIs, ConstantsAssumption DEF Exists
  <2> QED BY <1>2, <1>3, <1>4, <1>5, <1>6, <1>7, <2>1, MapRead
<1>8. CASE dir[Real(b)] \notin Vals
  BY <1>2, <1>3, <1>5, <1>6, <1>8, MapFail
<1> QED BY <1>7, <1>8

\* A crash keeps the contents; only a bucket whose old directory had been
\* retired will be unknown to the next start.
LEMMA DieMaps ==
    ASSUME Quiet, Die
    PROVE  A!Crash
<1>1. \A b \in Buckets : OldKept(b) /\ OldKept(b)' /\ CleaningUp(b)
  BY DEF Quiet, SInv
<1>2. /\ st' = "down" /\ listed' = {} /\ UNCHANGED dir
      /\ task' = [b \in Buckets |-> None] /\ reply' = [b \in Buckets |-> None]
  BY DEF Die
<1>3. \A b \in Buckets : Content(b)' = Content(b)
  BY <1>1, <1>2, SameContent
<1> DEFINE D == [c \in Buckets |-> IF Sound /\ task[c] # None THEN InProgress(task[c]) ELSE None]
           torn == IF Sound THEN TornBuckets ELSE {}
<1>4. ASSUME NEW b \in Buckets, ~Exists(Real(b)), Content(b) # None
      PROVE  b \in torn \/ (D[b] # None /\ D[b].op = "put" /\ ~D[b].done)
  <2>1. CASE st = "up"
    <3>1. PICK r \in Rands : Exists(Old(b, r))
      BY <1>1, <1>4, ContentIs, ConstantsAssumption DEF Exists
    <3>2. task[b] # None /\ task[b].stage \in {"install", "discard"}
      BY <1>1, <2>1, <3>1 DEF OldKept
    <3>3. task[b].stage = "install" /\ task[b].op = "put"
      BY <1>4, <2>1, <3>2, ConstantsAssumption
         DEF Quiet, IInv, Working, Suited, Achieved, WellFormed, At, Putting, Exists
    <3>4. InProgress(task[b]) = [op |-> "put", val |-> task[b].val, done |-> FALSE]
          /\ InProgress(task[b]) # None
      BY <3>2, <3>3, Doing, Progress DEF Quiet, IInv
    <3>5. D[b] = InProgress(task[b])
      BY <3>2 DEF Quiet
    <3> HIDE DEF D
    <3> QED BY <3>4, <3>5
  <2>2. CASE st = "cleaning"
    BY <1>1, <1>4, <2>2 DEF CleaningUp, TornBuckets, Quiet
  <2>3. CASE st \notin {"up", "cleaning"}
    BY <1>4, <2>3 DEF TornBuckets, Quiet
  <2> QED BY <2>1, <2>2, <2>3
<1>5. torn' = {b \in Buckets : ~Exists(Real(b)) /\ Content(b) # None}
  BY <1>2, <1>3 DEF TornBuckets, Exists, Quiet
<1>6. torn' \in SUBSET (torn \cup {b \in Buckets : /\ D[b] # None /\ D[b].op = "put" /\ ~D[b].done})
  <2> HIDE DEF D, torn
  <2> QED BY <1>4, <1>5
<1>7. D' = [b \in Buckets |-> None]
  BY <1>2
<1>8. /\ [b \in Buckets |-> IF Sound THEN reply[b] ELSE None]' = [b \in Buckets |-> None]
      /\ ~(Sound /\ st = "up")'
      /\ (IF Sound /\ st = "up" THEN listed ELSE {})' = {}
  BY <1>2
<1>9. UNCHANGED [b \in Buckets |-> IF Sound THEN Content(b) ELSE None]
  BY <1>3 DEF Quiet
<1> QED BY <1>6, <1>7, <1>8, <1>9 DEF A!Crash

LEMMA LoadMaps == ASSUME Quiet, Load PROVE UNCHANGED A!vars
<1>1. /\ st = "down" /\ st' = "cleaning" /\ listed' = {b \in Buckets : Exists(Real(b))}
      /\ UNCHANGED <<dir, task, reply>>
  BY DEF Load
<1>2. \A b \in Buckets : OldKept(b) /\ OldKept(b)'
  BY DEF Quiet, SInv
<1>3. \A b \in Buckets : Content(b)' = Content(b)
  BY <1>1, <1>2, SameContent
<1>4. \A b \in Buckets : Exists(Real(b)) => Content(b) # None
  BY <1>2, ContentIs DEF Exists
<1>5. TornBuckets' = TornBuckets
  BY <1>1, <1>3, <1>4 DEF TornBuckets
<1> QED BY <1>1, <1>3, <1>5 DEF A!vars, Quiet

\* While the clean-up goes on nothing is served, and no content changes.
LEMMA CleaningMaps ==
    ASSUME Quiet, st = "cleaning", UNCHANGED <<st, listed, task, reply>>,
           \A b \in Buckets : Content(b)' = Content(b)
    PROVE  UNCHANGED A!vars
<1>1. TornBuckets' = TornBuckets
  BY DEF TornBuckets
<1> QED BY <1>1 DEF A!vars, Quiet

LEMMA RemoveMaps == ASSUME Quiet, Remove PROVE UNCHANGED A!vars
<1> DEFINE n == Head(todo)
<1>1. /\ st = "cleaning" /\ todo # <<>>
      /\ Eroded(n) \/ Removed(n)
      /\ Kind(n) = "new" \/ Exists(Real(Bucket(n)))
      /\ UNCHANGED <<st, listed, task, reply>>
  BY DEF Remove
<1>2. n \in Names /\ \E k \in DOMAIN todo : todo[k] = n
  BY <1>1, NextLeftover DEF Quiet
<1>3. ASSUME NEW b \in Buckets PROVE Content(b)' = Content(b)
  <2>1. OldKept(b) /\ OldKept(b)' /\ CleaningUp(b)
    BY DEF Quiet, SInv
  <2>2. Kind(n) \in {"new", "old"}
    BY <1>1, <1>2, <2>1 DEF CleaningUp
  <2>3. dir'[Real(b)] = dir[Real(b)]
    <3>1. Real(b) \in Names \ {n}
      BY <2>2, RealType, NamesDiffer
    <3> QED BY <1>1, <1>2, <3>1, RemovalTypes DEF Quiet, IInv
  <2>4. CASE Exists(Real(b))
    BY <2>1, <2>3, <2>4, ContentIs, ContentIsNext DEF Exists
  <2>5. CASE ~Exists(Real(b))
    <3>1. \A r \in Rands : Old(b, r) \in Names \ {n}
      BY <1>1, <2>5, NameTypes, NamesDiffer
    <3>2. \A r \in Rands : dir'[Old(b, r)] = dir[Old(b, r)]
      BY <1>1, <1>2, <3>1, RemovalTypes DEF Quiet, IInv
    <3> QED BY <2>1, <2>3, <3>2, SameContent
  <2> QED BY <2>4, <2>5
<1> QED BY <1>1, <1>3, CleaningMaps

LEMMA PromoteMaps == ASSUME Quiet, Promote PROVE UNCHANGED A!vars
<1> DEFINE n == Head(todo)
           p == Bucket(n)
<1>1. /\ st = "cleaning" /\ todo # <<>> /\ Kind(n) = "old"
      /\ ~Exists(Real(p)) /\ dir' = Moved(n, Real(p))
      /\ UNCHANGED <<st, listed, task, reply>>
  BY DEF Promote
<1>2. n \in Names /\ \E k \in DOMAIN todo : todo[k] = n
  BY <1>1, NextLeftover DEF Quiet
<1>3. PICK s \in Rands : n = Old(p, s) /\ p \in Buckets
  BY <1>1, <1>2, OldName
<1>4. /\ \A m \in Names \ {n, Real(p)} : dir'[m] = dir[m]
      /\ dir'[Real(p)] = dir[n] /\ dir[n] \in Vals \cup {Junk, None}
  BY <1>1, <1>2, <1>3, RealType, NamesDiffer DEF Moved, Quiet, IInv, TypeOK
<1>5. ASSUME NEW b \in Buckets PROVE Content(b)' = Content(b)
  <2>1. OldKept(b) /\ OldKept(b)' /\ CleaningUp(b)
    BY DEF Quiet, SInv
  <2>2. CASE b # p
    <3>1. dir'[Real(b)] = dir[Real(b)] /\ \A r \in Rands : dir'[Old(b, r)] = dir[Old(b, r)]
      BY <1>3, <1>4, <2>2, NameTypes, RealType, NamesDiffer
    <3> QED BY <2>1, <3>1, SameContent
  <2>3. CASE b = p
    <3>1. Exists(n)
      BY <1>1, <1>2, <1>3, <2>1, <2>3 DEF CleaningUp
    <3>2. dir[n] # Junk
      BY <1>1, <1>3, <2>1, <2>3 DEF OldKept
    <3>3. dir[n] \in Vals
      BY <1>4, <3>1, <3>2 DEF Exists
    <3>4. Content(b) = dir[n]
      BY <1>1, <1>3, <2>1, <2>3, <3>3, ContentIs
    <3>5. Content(b)' = dir[n]
      BY <1>4, <2>1, <2>3, <3>1, ContentIsNext DEF Exists
    <3> QED BY <3>4, <3>5
  <2> QED BY <2>2, <2>3
<1> QED BY <1>1, <1>5, CleaningMaps

\* The service knows what it found at the start: all but what was promoted.
LEMMA ServeMaps == ASSUME Quiet, Serve PROVE A!Recover
<1>1. st = "cleaning" /\ st' = "up" /\ UNCHANGED <<dir, listed, task, reply>>
  BY DEF Serve
<1>2. \A b \in Buckets : OldKept(b) /\ OldKept(b)' /\ CleaningUp(b)
  BY DEF Quiet, SInv
<1>3. \A b \in Buckets : Content(b)' = Content(b)
  BY <1>1, <1>2, SameContent
<1>4. \A b \in listed : Content(b) # None
  BY <1>1, <1>2, ContentIs DEF CleaningUp, Exists, Quiet, IInv, TypeOK
<1>5. listed \subseteq Buckets
  BY DEF Quiet, IInv, TypeOK
<1>6. TornBuckets = {b \in Buckets : Content(b) # None} \ listed /\ TornBuckets' = {}
  BY <1>1 DEF TornBuckets
<1> DEFINE content == [b \in Buckets |-> IF Sound THEN Content(b) ELSE None]
<1>7. (IF Sound /\ st = "up" THEN listed ELSE {})'
        = {b \in Buckets : content[b] # None} \ IF Sound THEN TornBuckets ELSE {}
  <2>1. \A b \in Buckets : content[b] = Content(b)
    BY DEF Quiet
  <2> HIDE DEF content
  <2> QED BY <1>1, <1>4, <1>5, <1>6, <2>1 DEF Quiet
<1>8. UNCHANGED <<content,
                  [b \in Buckets |-> IF Sound /\ task[b] # None THEN InProgress(task[b]) ELSE None],
                  [b \in Buckets |-> IF Sound THEN reply[b] ELSE None]>>
  BY <1>1, <1>3 DEF Quiet
<1> QED BY <1>1, <1>6, <1>7, <1>8 DEF A!Recover, Quiet

-----------------------------------------------------------------------------
(* The refinement theorem.                                                 *)

\* Whether calls may fail is decided at the start.
LEMMA SoundSame == ASSUME IInv, [Next]_vars PROVE Sound' = Sound
<1>1. CASE UNCHANGED vars \/ Boot
  BY <1>1 DEF vars, Boot, Load, Remove, Promote, Serve, Sound
<1>2. CASE Crash
  BY <1>2, UseSound DEF Crash, IInv
<1>3. ASSUME NEW b \in Buckets, Panic(b) PROVE Sound' = Sound
  <2>1. UNCHANGED used \/ IOError
    BY <1>3 DEF Panic
  <2> QED BY <2>1, ErrorTypes DEF IInv, Sound
<1>4. ASSUME NEW b \in Buckets, Purge(b) PROVE Sound' = Sound
  BY <1>4, PurgeKeeps
<1>5. ASSUME NEW b \in Buckets, Hang(b) \/ (Work(b) /\ ~Purge(b)) PROVE Sound' = Sound
  BY <1>5, HangKeeps, TakeUnknownKeeps, TakeKeeps, ReadKeeps, MkdirKeeps, SaveKeeps,
     UnwindKeeps, RetireKeeps, InstallKeeps, DiscardKeeps, ListKeeps, MoveKeeps, EraseKeeps
     DEF Work, Kept
<1>6. ASSUME NEW b \in Buckets,
             Ask(b, "del", None) \/ Ask(b, "get", None) \/ \E v \in Vals : Ask(b, "put", v)
      PROVE  Sound' = Sound
  BY <1>6, AskKeeps DEF Kept
<1> QED BY <1>1, <1>2, <1>3, <1>4, <1>5, <1>6 DEF Next

LEMMA UnsoundMaps == ASSUME ~Sound, ~Sound' PROVE UNCHANGED A!vars
BY DEF A!vars

LEMMA StepMaps == ASSUME Quiet, Next PROVE A!Next \/ UNCHANGED A!vars
<1>1. CASE Boot
  BY <1>1, LoadMaps, RemoveMaps, PromoteMaps, ServeMaps DEF Boot, A!Next
<1>2. CASE Crash \/ \E b \in Buckets : Panic(b)
  BY <1>2, DieMaps DEF Crash, Panic, A!Next
<1>3. ASSUME NEW b \in Buckets, Hang(b) \/ Purge(b) PROVE FALSE
  BY <1>3, NoError, PurgeKeeps DEF Hang, Quiet
<1>4. ASSUME NEW b \in Buckets,
             Ask(b, "del", None) \/ Ask(b, "get", None) \/ \E v \in Vals : Ask(b, "put", v)
      PROVE  UNCHANGED A!vars
  BY <1>4, AskMaps
<1>5. ASSUME NEW b \in Buckets, Work(b) PROVE A!Next \/ UNCHANGED A!vars
  <2>1. CASE TakeUnknown(b) \/ Take(b) \/ Read(b)
    BY <2>1, TakeUnknownMaps, TakeMaps, ReadMaps DEF A!Next
  <2>2. CASE Mkdir(b) \/ Save(b) \/ Unwind(b) \/ Retire(b) \/ Install(b) \/ Discard(b)
    BY <2>2, MkdirMaps, UnwindMaps, RetireMaps, InstallMaps, DiscardMaps DEF A!Next
  <2>3. CASE List(b) \/ Purge(b) \/ Move(b) \/ Erase(b)
    BY <1>3, <2>3, ListMaps, MoveMaps, EraseMaps DEF A!Next
  <2> QED BY <1>5, <2>1, <2>2, <2>3 DEF Work
<1> QED BY <1>1, <1>2, <1>3, <1>4, <1>5 DEF Next

LEMMA InitMaps == ASSUME Init PROVE A!Init
<1>1. /\ st = "down" /\ dir = [n \in Names |-> None] /\ listed = {}
      /\ task = [b \in Buckets |-> None] /\ reply = [b \in Buckets |-> None]
  BY DEF Init
<1>2. \A b \in Buckets : ~Exists(Real(b)) /\ \A r \in Rands : dir[Old(b, r)] = None
  BY <1>1, NameTypes, RealType DEF Exists
<1>3. \A b \in Buckets : Content(b) = None
  BY <1>2, ConstantsAssumption DEF Content, Spare
<1>4. TornBuckets = {}
  BY <1>1, <1>3 DEF TornBuckets
<1> QED BY <1>1, <1>3, <1>4 DEF A!Init

\* The sequences of file system calls, cut by crashes at any point and
\* cleaned up at the next start, implement requests that take effect at one
\* instant each and are durable (StashSpec): a replacement at the rename of
\* the new directory, a deletion at the rename of the bucket's.
THEOREM AtomicRequests == ASSUME Standalone PROVE Spec => Atomic
<1>1. Init => A!Init
  BY InitMaps
<1>2. ASSUME IInv, SInv, IInv', SInv', [Next]_vars
      PROVE  [A!Next]_(A!vars)
  <2>1. CASE Sound
    <3>1. Quiet
      BY <1>2, <2>1, SoundSame DEF Quiet
    <3>2. CASE Next
      BY <3>1, <3>2, StepMaps
    <3>3. CASE UNCHANGED vars
      <4>1. \A b \in Buckets : Content(b)' = Content(b)
        BY <3>1, <3>3, SameContent DEF Quiet, SInv, vars
      <4>2. TornBuckets' = TornBuckets
        BY <3>3, <4>1 DEF vars, TornBuckets, Exists
      <4> QED BY <3>3, <4>1, <4>2 DEF vars, A!vars, Sound
    <3> QED BY <1>2, <3>2, <3>3
  <2>2. CASE ~Sound
    <3>1. ~Sound'
      BY <1>2, <2>2, SoundSame DEF Sound
    <3> QED BY <2>2, <3>1, UnsoundMaps
  <2> QED BY <2>1, <2>2
<1> QED BY <1>1, <1>2, SoundInvariant, PTL DEF Spec, A!Spec, Atomic
=============================================================================
