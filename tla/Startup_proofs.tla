---------------------------- MODULE Startup_proofs ----------------------------
(***************************************************************************)
(* Proofs about how the configuration service starts, for any number of    *)
(* customers, servers, machines, instrumenters, requests and failures, and *)
(* whatever instrumenters announce and users ask for: what has been saved  *)
(* survives, a customer's machines are found, requests are attended, what  *)
(* is listed is described, and instrumentations run where they should.     *)
(***************************************************************************)
EXTENDS Startup, SequenceTheorems, WellFoundedInduction, TLAPS

-----------------------------------------------------------------------------
(* The queue of tasks of an object: a creation is always its head.         *)

Tasks == {"create", "zones", "instrs", "save"}
Later == Tasks \ {"create"}
Front(ts) == ts # <<>> /\ Head(ts) = "create"
Queue(ts) == ts \in Seq(Tasks) /\ \A i \in DOMAIN ts : i > 1 => ts[i] # "create"

LEMMA Appended ==
  ASSUME NEW ts, Queue(ts), NEW more \in Seq(Later)
  PROVE  Queue(ts \o more) /\ (Front(ts \o more) <=> Front(ts))
<1>1. more \in Seq(Tasks) /\ (\A i \in DOMAIN more : more[i] # "create")
  BY DEF Later
<1>2. /\ ts \o more \in Seq(Tasks)
      /\ Len(ts \o more) = Len(ts) + Len(more)
      /\ \A i \in 1..(Len(ts) + Len(more)) :
             (ts \o more)[i] = IF i <= Len(ts) THEN ts[i] ELSE more[i - Len(ts)]
  BY <1>1 DEF Queue
<1> DEFINE s == ts \o more
<1>3. s \in Seq(Tasks) /\ Len(s) = Len(ts) + Len(more)
  BY <1>2
<1>4. \A i \in 1..Len(s) : s[i] = IF i <= Len(ts) THEN ts[i] ELSE more[i - Len(ts)]
  BY <1>2
<1> HIDE DEF s
<1>5. Queue(s)
  BY <1>1, <1>3, <1>4 DEF Queue
<1>6. Front(s) <=> Front(ts)
  <2>1. CASE ts = <<>>
    <3>1. ~Front(ts) /\ Len(ts) = 0
      BY <2>1 DEF Front
    <3>2. s # <<>> => Head(s) = s[1] /\ Len(s) > 0
      BY <1>3
    <3>3. s # <<>> => s[1] = more[1] /\ 1 \in DOMAIN more
      BY <3>1, <3>2, <1>3, <1>4
    <3> QED BY <3>1, <3>2, <3>3, <1>1 DEF Front
  <2>2. CASE ts # <<>>
    <3>1. Len(ts) > 0 /\ Head(ts) = ts[1]
      BY <2>2 DEF Queue
    <3>2. s # <<>> /\ Head(s) = s[1]
      BY <3>1, <1>3
    <3>3. s[1] = ts[1]
      BY <3>1, <1>3, <1>4
    <3> QED BY <3>1, <3>2, <3>3, <2>2 DEF Front
  <2> QED BY <2>1, <2>2
<1> QED BY <1>5, <1>6 DEF s

LEMMA Removed ==
  ASSUME NEW ts, Queue(ts), ts # <<>>
  PROVE  Queue(Tail(ts)) /\ ~Front(Tail(ts))
<1> DEFINE s == Tail(ts)
<1>1. /\ s \in Seq(Tasks) /\ Len(s) = Len(ts) - 1
      /\ \A i \in 1..Len(s) : s[i] = ts[i + 1]
  BY DEF Queue
<1>2. \A i \in 1..Len(s) : s[i] # "create"
  BY <1>1 DEF Queue
<1> HIDE DEF s
<1>3. Queue(s)
  BY <1>1, <1>2 DEF Queue
<1>4. s # <<>> => Head(s) = s[1] /\ 1 \in 1..Len(s)
  BY <1>1
<1>5. ~Front(s)
  BY <1>2, <1>4 DEF Front
<1> QED BY <1>3, <1>5 DEF s

LEMMA Mores ==
  /\ <<"zones">> \in Seq(Later) /\ <<"instrs">> \in Seq(Later)
  /\ <<"save", "instrs">> \in Seq(Later)
BY DEF Later, Tasks

-----------------------------------------------------------------------------
(* The objects.                                                            *)

Keys == Ids \X {"made", "loaded"}
Entire(o) ==
    o \in [base : {o.base}, decomp : {o.decomp}, by : {o.by}, zones : {o.zones}, on : {o.on},
           tasks : {o.tasks}, at : {o.at}, lacks : {o.lacks}, blind : {o.blind},
           missed : {o.missed}]
Creating(o) == Front(o.tasks)
Object(k, o) ==
    /\ Entire(o) /\ Queue(o.tasks) /\ o.lacks = {}
    /\ Creating(o) => k[2] = "made"
    /\ k[2] = "loaded" => o.blind = FALSE

\* What a task does to its object, and what happens to it meanwhile.
Alike(o, n) ==
    /\ n.base = o.base /\ n.decomp = o.decomp /\ n.by = o.by /\ n.blind = o.blind
    /\ Creating(n) <=> Creating(o)
Worked(k, o, n) == Object(k, n) /\ Alike(o, n)

\* An id is made once, by the requests of one life of the service; what an id means is
\* not being created any more.
Fresh ==
    /\ nextid \in [Scopes -> Nat]
    /\ \A k \in DOMAIN objs : k[2] = "made" => k[1][2] < nextid[k[1][1]]
Meant == \A id \in DOMAIN instns :
    <<id, instns[id]>> \in DOMAIN objs /\ ~Creating(objs[<<id, instns[id]>>])
ObjectsInv ==
    /\ DOMAIN objs \subseteq Keys
    /\ \A k \in DOMAIN objs : Object(k, objs[k])
    /\ Fresh /\ Meant

\* Buckets have proper ids.
BucketsInv ==
    /\ DOMAIN legacy \subseteq Ids /\ DOMAIN buckets \subseteq Ids
    /\ phase \in {"put", "fetch"} => DOMAIN plan \subseteq Ids
PartsInv == ObjectsInv /\ BucketsInv

\* A step that makes no object and saves nothing.
Steady ==
    /\ DOMAIN objs' = DOMAIN objs
    /\ \A k \in DOMAIN objs : Worked(k, objs[k], objs'[k])
Settled == UNCHANGED <<instns, nextid, plan, unread, stash>>
Gone ==
    /\ phase' = "down" /\ objs' = Nothing /\ instns' = Nothing
    /\ nextid' = [s \in Scopes |-> 1]
    /\ \A r \in DOMAIN http' : http'[r].stage \notin {"saving", "asking"}

LEMMA Untouched ==
  ASSUME ObjectsInv, UNCHANGED objs
  PROVE  Steady
<1>1. \A k \in DOMAIN objs : Worked(k, objs[k], objs[k])
  BY DEF ObjectsInv, Worked, Alike
<1> QED BY <1>1 DEF Steady

LEMMA DiesGone ==
  ASSUME Dies
  PROVE  Gone /\ UNCHANGED asked /\ UNCHANGED registered
<1>1. \A r \in DOMAIN http' : http'[r].stage \notin {"saving", "asking"}
  BY DEF Dies
<1> QED BY <1>1 DEF Dies, Gone, Forget, StopSdc

LEMMA GoneBase ==
  ASSUME Gone, DOMAIN legacy' \subseteq Ids, DOMAIN buckets' \subseteq Ids
  PROVE  PartsInv'
BY DEF Gone, PartsInv, ObjectsInv, BucketsInv, Fresh, Meant, Nothing

LEMMA SteadyObjects ==
  ASSUME ObjectsInv, Steady, UNCHANGED <<instns, nextid>>
  PROVE  ObjectsInv'
<1>1. \A k \in DOMAIN objs' : Object(k, objs'[k]) /\ (Creating(objs'[k]) <=> Creating(objs[k]))
  BY DEF Steady, Worked, Alike
<1> QED BY <1>1 DEF ObjectsInv, Steady, Fresh, Meant

\* The objects that a task leaves behind.
LEMMA OneWorked ==
  ASSUME ObjectsInv, NEW k \in DOMAIN objs, NEW o, Set(k, o), Worked(k, objs[k], o)
  PROVE  Steady
<1>1. DOMAIN objs' = DOMAIN objs /\ objs'[k] = o
  BY DEF Set
<1>2. \A q \in DOMAIN objs : q # k => objs'[q] = objs[q]
  BY DEF Set
<1>3. \A q \in DOMAIN objs : Worked(q, objs[q], objs[q])
  BY DEF ObjectsInv, Worked, Alike
<1> QED BY <1>1, <1>2, <1>3 DEF Steady

\* A task other than a creation has been started, and more is to be done.
LEMMA StartedWorked ==
  ASSUME ObjectsInv, NEW k \in DOMAIN objs, NEW task \in Later, Starts(k, task)
  PROVE  Worked(k, objs[k], Started(k))
<1>1. Object(k, objs[k])
  BY DEF ObjectsInv
<1>2. ~Creating(objs[k]) /\ objs[k].tasks # <<>>
  BY DEF Starts, Creating, Front, Later
<1>3. Queue(Tail(objs[k].tasks)) /\ ~Front(Tail(objs[k].tasks))
  BY <1>1, <1>2, Removed DEF Object
<1> QED BY <1>1, <1>2, <1>3 DEF Worked, Alike, Object, Entire, Started, Creating

LEMMA EnqueueWorked ==
  ASSUME NEW k, NEW o, Object(k, o), NEW ts \in Seq(Later)
  PROVE  Worked(k, o, Enqueue(o, ts))
<1>1. Queue(o.tasks \o ts) /\ (Front(o.tasks \o ts) <=> Front(o.tasks))
  BY Appended DEF Object
<1> QED BY <1>1 DEF Worked, Alike, Object, Entire, Enqueue, Creating

LEMMA WorkedTwice ==
  ASSUME NEW k, NEW o, NEW n, NEW m, Worked(k, o, n), Worked(k, n, m)
  PROVE  Worked(k, o, m)
BY DEF Worked, Alike


\* The tasks, one by one.
LEMMA FieldsWorked ==
  ASSUME NEW k, NEW o, Object(k, o), NEW z, NEW a, NEW n
  PROVE  /\ Worked(k, o, [o EXCEPT !.zones = z])
         /\ Worked(k, o, [o EXCEPT !.at = a])
         /\ \A m : Worked(k, o, [o EXCEPT !.on = n, !.missed = m])
         /\ Worked(k, o, [o EXCEPT !.at = a, !.zones = z, !.lacks = {}])
BY DEF Worked, Alike, Object, Entire, Creating

LEMMA ZonesGlobalSteady ==
  ASSUME ObjectsInv, NEW k \in DOMAIN objs, ZonesGlobal(k)
  PROVE  Steady
<1> DEFINE o == [Started(k) EXCEPT !.zones = Undefined]
<1>1. Worked(k, objs[k], Started(k))
  BY StartedWorked DEF ZonesGlobal, Later, Tasks
<1>2. Worked(k, Started(k), o)
  BY <1>1, FieldsWorked DEF Worked
<1>3. Worked(k, o, Enqueue(o, <<"instrs">>))
  BY <1>2, EnqueueWorked, Mores DEF Worked
<1>4. Worked(k, objs[k], Enqueue(o, <<"instrs">>))
  BY <1>1, <1>2, <1>3, WorkedTwice
<1> QED BY <1>4, OneWorked DEF ZonesGlobal

LEMMA ZonesCustomerSteady ==
  ASSUME ObjectsInv, NEW k \in DOMAIN objs, ZonesCustomer(k)
  PROVE  Steady
<1>1. Worked(k, objs[k], Started(k))
  BY StartedWorked DEF ZonesCustomer, Later, Tasks
<1>2. Worked(k, Started(k), [Started(k) EXCEPT !.at = "vmapi"])
  BY <1>1, FieldsWorked DEF Worked
<1>3. Worked(k, objs[k], [Started(k) EXCEPT !.at = "vmapi"])
  BY <1>1, <1>2, WorkedTwice
<1> QED BY <1>3, OneWorked DEF ZonesCustomer

LEMMA FinishedWorked ==
  ASSUME NEW k, NEW o, Object(k, o), NEW c, NEW promised,
         Resolved(promised) \subseteq Resolved(c.cache)
  PROVE  Worked(k, o, Finished(o, c, promised))
<1>1. CASE Unresolved(c)
  <2> DEFINE n == [o EXCEPT !.at = "idle"]
  <2>1. Worked(k, o, n)
    BY FieldsWorked
  <2>2. Worked(k, n, Enqueue(n, <<"zones">>))
    BY <2>1, EnqueueWorked, Mores DEF Worked
  <2>3. Worked(k, o, Enqueue(n, <<"zones">>))
    BY <2>1, <2>2, WorkedTwice
  <2> QED BY <1>1, <2>3 DEF Finished
<1>2. CASE ~Unresolved(c)
  <2> DEFINE n == [o EXCEPT !.at = "idle", !.zones = <<ByHost(Resolved(c.cache))>>, !.lacks = {}]
  <2>0. Resolved(promised) \ Resolved(c.cache) = {}
    OBVIOUS
  <2>1. Worked(k, o, n)
    BY FieldsWorked
  <2>2. Worked(k, n, Enqueue(n, <<"save", "instrs">>))
    BY <2>1, EnqueueWorked, Mores DEF Worked
  <2>3. Worked(k, o, Enqueue(n, <<"save", "instrs">>))
    BY <2>1, <2>2, WorkedTwice
  <2> QED BY <1>2, <2>0, <2>3 DEF Finished
<1> QED BY <1>1, <1>2

LEMMA ListedSteady ==
  ASSUME ObjectsInv, NEW k \in DOMAIN objs, Listed(k)
  PROVE  Steady
<1>0. Object(k, objs[k])
  BY DEF ObjectsInv
<1>1. CompleteNow(cam.cache) => Worked(k, objs[k], Finished(objs[k], cam, registered))
  <2>1. CompleteNow(cam.cache) => Resolved(registered) \subseteq Resolved(cam.cache)
    BY DEF CompleteNow, Complete, Resolved
  <2> QED BY <1>0, <2>1, FinishedWorked
<1>2. Worked(k, objs[k], [objs[k] EXCEPT !.at = "cnapi"])
  BY <1>0, FieldsWorked
<1> QED BY <1>1, <1>2, OneWorked DEF Listed

LEMMA NotListedSteady ==
  ASSUME ObjectsInv, NEW k \in DOMAIN objs, NotListed(k)
  PROVE  Steady
<1> DEFINE n == [objs[k] EXCEPT !.at = "idle"]
<1>1. Worked(k, objs[k], n)
  BY FieldsWorked DEF ObjectsInv
<1>2. Worked(k, n, Enqueue(n, <<"zones">>))
  BY <1>1, EnqueueWorked, Mores DEF Worked
<1>3. Worked(k, objs[k], Enqueue(n, <<"zones">>))
  BY <1>1, <1>2, WorkedTwice
<1> QED BY <1>3, OneWorked DEF NotListed

LEMMA CnapiRepliesSteady ==
  ASSUME ObjectsInv, asked \subseteq registered, CnapiReplies
  PROVE  Steady
<1>1. PICK c, promised : Woken(c, promised) /\ Resolved(promised) \subseteq Resolved(c.cache)
  <2>1. ASSUME NEW found \in {asked, registered}
        PROVE  Resolved(asked) \subseteq Resolved(Fetched(found).cache)
    BY <2>1 DEF Resolved, Fetched
  <2>2. Resolved({}) \subseteq Resolved(FetchFailed.cache)
    BY DEF Resolved
  <2> QED BY <2>1, <2>2 DEF CnapiReplies
<1>2. DOMAIN objs' = DOMAIN objs
  BY <1>1 DEF Woken
<1>3. ASSUME NEW k \in DOMAIN objs PROVE Worked(k, objs[k], objs'[k])
  <2>1. Object(k, objs[k])
    BY DEF ObjectsInv
  <2>2. Worked(k, objs[k], objs[k]) /\ Worked(k, objs[k], Finished(objs[k], c, promised))
    BY <1>1, <2>1, FinishedWorked DEF Worked, Alike
  <2> QED BY <1>1, <2>2 DEF Woken
<1> QED BY <1>2, <1>3 DEF Steady

LEMMA InstrsUpdateSteady ==
  ASSUME ObjectsInv, NEW k \in DOMAIN objs, InstrsUpdate(k)
  PROVE  Steady
<1>1. Worked(k, objs[k], Started(k))
  BY StartedWorked DEF InstrsUpdate, Later, Tasks
<1>2. PICK n, m : Set(k, [Started(k) EXCEPT !.on = n, !.missed = m])
  BY DEF InstrsUpdate
<1>3. Worked(k, Started(k), [Started(k) EXCEPT !.on = n, !.missed = m])
  BY <1>1, FieldsWorked DEF Worked
<1>4. Worked(k, objs[k], [Started(k) EXCEPT !.on = n, !.missed = m])
  BY <1>1, <1>3, WorkedTwice
<1> QED BY <1>2, <1>4, OneWorked

LEMMA SaveSteady ==
  ASSUME ObjectsInv, NEW k \in DOMAIN objs, Save(k)
  PROVE  Steady
<1>1. Worked(k, objs[k], Started(k))
  BY StartedWorked DEF Save, Later, Tasks
<1> QED BY <1>1, OneWorked DEF Save

LEMMA InstrOnlineSteady ==
  ASSUME ObjectsInv, NEW h, InstrOnline(h)
  PROVE  Steady
<1>1. \/ objs' = [k \in DOMAIN objs |-> Told(k, h)]
      \/ UNCHANGED objs
  BY DEF InstrOnline
<1>2. ASSUME NEW k \in DOMAIN objs PROVE Worked(k, objs[k], Told(k, h))
  <2>1. Object(k, objs[k]) /\ Worked(k, objs[k], objs[k])
    BY DEF ObjectsInv, Worked, Alike
  <2>2. ASSUME NEW o, Object(k, o) PROVE Worked(k, o, Restarted(o, h))
    <3> DEFINE n == [o EXCEPT !.on[h] = FALSE, !.missed = o.missed \ {h}]
    <3>1. Worked(k, o, n) /\ Worked(k, o, o)
      BY <2>2 DEF Worked, Alike, Object, Entire, Creating
    <3>2. Worked(k, n, Enqueue(n, <<"instrs">>))
      BY <3>1, EnqueueWorked, Mores DEF Worked
    <3>3. Worked(k, o, Enqueue(n, <<"instrs">>))
      BY <3>1, <3>2, WorkedTwice
    <3> QED BY <3>1, <3>3 DEF Restarted
  <2>3. Worked(k, objs[k], Enqueue(objs[k], <<"zones">>))
    BY <2>1, EnqueueWorked, Mores
  <2>4. PICK o : /\ Told(k, h) \in {objs[k], Restarted(o, h)}
                 /\ o \in {objs[k], Enqueue(objs[k], <<"zones">>)}
    BY DEF Told
  <2>5. Worked(k, objs[k], o) /\ Object(k, o)
    BY <2>1, <2>3, <2>4 DEF Worked
  <2>6. Worked(k, objs[k], Restarted(o, h))
    BY <2>2, <2>5, WorkedTwice
  <2> QED BY <2>1, <2>4, <2>6
<1> QED BY <1>1, <1>2, Untouched DEF Steady


-----------------------------------------------------------------------------
(* Loading, requests and creations.                                        *)

LEMMA Least == ASSUME NEW T \in SUBSET Nat, T # {} PROVE \E m \in T : \A k \in T : m <= k
<1> DEFINE R == {ss \in Nat \X Nat : ss[1] < ss[2]}
<1>1. IsWellFoundedOn(R, Nat)
  BY NatLessThanWellFounded DEF OpToRel
<1>2. \A x, y \in Nat : x < y => <<x, y>> \in R
  OBVIOUS
<1> HIDE DEF R
<1>3. PICK m \in T : \A y \in T : ~(<<y, m>> \in R)
  BY <1>1, WFMin
<1>4. \A y \in T : ~(y < m)
  BY <1>2, <1>3
<1>5. \A y \in T : m <= y
  BY <1>4
<1> QED BY <1>5

LEMMA GreatestIs ==
  ASSUME NEW B \in Nat, NEW S \in SUBSET (0..B), S # {}
  PROVE  Greatest(S) \in S /\ \A m \in S : m <= Greatest(S)
<1> DEFINE T == {B - n : n \in S}
<1>0. \A n \in S : B - n \in Nat
  OBVIOUS
<1>1. T \in SUBSET Nat /\ T # {}
  BY <1>0
<1>2. \A n \in S : B - n \in T
  OBVIOUS
<1>3. PICK m \in T : \A k \in T : m <= k
  <2> HIDE DEF T
  <2> QED BY <1>1, Least
<1>4. PICK n \in S : m = B - n
  BY <1>3
<1>5. \A x \in S : x <= n
  <2> TAKE x \in S
  <2>1. m <= B - x
    BY <1>2, <1>3
  <2>2. x \in 0..B /\ n \in 0..B
    BY <1>4
  <2> HIDE DEF T
  <2> QED BY <1>4, <2>1, <2>2
<1>6. \E x \in S : \A y \in S : y <= x
  BY <1>4, <1>5
<1> QED BY <1>6 DEF Greatest

LEMMA IdsAfterIs ==
  ASSUME nextid \in [Scopes -> Nat], NEW some, some \subseteq Ids
  PROVE  /\ IdsAfter(some) \in [Scopes -> Nat]
         /\ \A s \in Scopes : nextid[s] <= IdsAfter(some)[s]
         /\ \A id \in some : id[2] < IdsAfter(some)[id[1]]
<1>1. ASSUME NEW s \in Scopes
      PROVE  /\ IdsAfter(some)[s] \in Nat /\ nextid[s] <= IdsAfter(some)[s]
             /\ \A id \in some : id[1] = s => id[2] < IdsAfter(some)[s]
  <2> DEFINE S == {nextid[s]} \cup IdsUsed(s, some)
             B == nextid[s] + MaxId + 1
  <2>0. nextid[s] \in Nat /\ MaxId \in Nat
    BY StartupAssumption
  <2>1. \A id \in some : id[1] \in Scopes /\ id[2] \in 1..MaxId
    BY DEF Ids
  <2>2. IdsUsed(s, some) \subseteq 0..(MaxId + 1)
    BY <2>0, <2>1 DEF IdsUsed
  <2>3. B \in Nat /\ S \in SUBSET (0..B) /\ S # {} /\ \A n \in S : n \in Nat
    BY <2>0, <2>2
  <2>4. \A id \in some : id[1] = s => id[2] + 1 \in S
    BY DEF IdsUsed
  <2>5. IdsAfter(some)[s] = Greatest(S)
    BY DEF IdsAfter
  <2>6. nextid[s] \in S
    OBVIOUS
  <2> HIDE DEF S, B
  <2>7. Greatest(S) \in S /\ \A m \in S : m <= Greatest(S)
    BY <2>3, GreatestIs
  <2>8. Greatest(S) \in Nat
    BY <2>3, <2>7
  <2>9. ASSUME NEW id \in some, id[1] = s PROVE id[2] < Greatest(S)
    <3>1. id[2] + 1 <= Greatest(S)
      BY <2>4, <2>7, <2>9
    <3> QED BY <3>1, <2>8, <2>1
  <2> QED BY <2>5, <2>6, <2>7, <2>8, <2>9
<1>2. DOMAIN IdsAfter(some) = Scopes /\ IdsAfter(some) = [s \in Scopes |-> IdsAfter(some)[s]]
  BY DEF IdsAfter
<1>3. \A id \in some : id[1] \in Scopes
  BY DEF Ids
<1> QED BY <1>1, <1>2, <1>3

\* A new object, and one that is loaded.
LEMMA InstnObject ==
  ASSUME NEW k, NEW conf, NEW ts \in Seq(Later)
  PROVE  /\ Object(k, Instn(conf, ts)) /\ ~Creating(Instn(conf, ts))
         /\ Instn(conf, ts).by = conf.by /\ Instn(conf, ts).blind = FALSE
<1>1. Queue(ts) /\ ~Front(ts)
  <2>1. ts \in Seq(Tasks) /\ \A i \in DOMAIN ts : ts[i] # "create"
    BY DEF Later
  <2>2. ts # <<>> => Head(ts) = ts[1] /\ 1 \in DOMAIN ts
    OBVIOUS
  <2> QED BY <2>1, <2>2 DEF Queue, Front
<1> QED BY <1>1 DEF Object, Entire, Creating, Instn

LEMMA LoadTasksLater ==
  ASSUME NEW id, NEW conf PROVE LoadTasks(id, conf) \in Seq(Later)
<1>1. <<"instrs", "zones">> \in Seq(Later) /\ <<"zones">> \in Seq(Later)
  BY DEF Later, Tasks
<1> QED BY <1>1 DEF LoadTasks


LEMMA CreationObject ==
  ASSUME NEW k, k[2] = "made", NEW conf, NEW b \in BOOLEAN
  PROVE  LET o == [Instn(conf, <<"create">>) EXCEPT !.blind = b]
         IN  Object(k, o) /\ Creating(o) /\ o.by = conf.by /\ o.blind = b
<1>1. Queue(<<"create">>) /\ Front(<<"create">>)
  BY DEF Queue, Front, Tasks
<1> QED BY <1>1 DEF Object, Entire, Creating, Instn

\* What a request that is accepted makes.
Only(r) == DOMAIN http' = DOMAIN http /\ \A q \in DOMAIN http \ {r} : http'[q] = http[q]
TakesId(id) == id[2] = nextid[id[1]] /\ nextid' = [nextid EXCEPT ![id[1]] = @ + 1]
Made(r, id, o) ==
    /\ TakesId(id)
    /\ objs' = Updated(objs, <<id, "made">>, o) /\ http'[r].stage = "saving"
    /\ Object(<<id, "made">>, o) /\ Creating(o)
    /\ o.by = r /\ o.blind = (phase # "up" \/ id \in unread)

LEMMA RequestedMakes ==
  ASSUME NEW r \in DOMAIN http, NEW c, Requested(r, c)
  PROVE  /\ Only(r)
         /\ \/ UNCHANGED objs /\ http'[r].stage = "done"
               /\ (UNCHANGED nextid \/ \E id \in Ids : TakesId(id))
            \/ \E id \in Ids : \E o : Made(r, id, o)
<1> DEFINE id == <<c.scope, nextid[c.scope]>>
           conf == [base |-> c.base, decomp |-> c.decomp, by |-> r, zones |-> Undefined]
           b == phase # "up" \/ id \in unread
           o == [Instn(conf, <<"create">>) EXCEPT !.blind = b]
<1>1. CASE ~Valid(c)
  BY <1>1 DEF Requested, Answer, Only
<1>2. CASE Valid(c)
  <2>1. /\ id \in Ids /\ TakesId(id)
        /\ \/ objs' = Updated(objs, <<id, "made">>, o) /\ Awaits(r, "saving", {})
           \/ Answer(r, ESERVER) /\ UNCHANGED objs
    BY <1>2 DEF Requested, TakesId
  <2>2. /\ Object(<<id, "made">>, o) /\ Creating(o)
        /\ o.by = r /\ o.blind = b
    <3> DEFINE k == <<id, "made">>
    <3>1. k[2] = "made" /\ b \in BOOLEAN /\ conf.by = r
      OBVIOUS
    <3> HIDE DEF k, b, conf
    <3> QED BY <3>1, CreationObject
  <2> HIDE DEF id, o, b
  <2>3. CASE Answer(r, ESERVER) /\ UNCHANGED objs
    BY <2>1, <2>3 DEF Answer, Only
  <2>4. CASE objs' = Updated(objs, <<id, "made">>, o) /\ Awaits(r, "saving", {})
    <3>1. Only(r) /\ http'[r].stage = "saving"
      BY <2>4 DEF Awaits, Only
    <3>2. Made(r, id, o)
      BY <2>1, <2>2, <2>4, <3>1 DEF Made, b
    <3> QED BY <2>1, <3>1, <3>2
  <2> QED BY <2>1, <2>3, <2>4
<1> QED BY <1>1, <1>2

LEMMA TakesIdFresh ==
  ASSUME Fresh, NEW id \in Ids, TakesId(id)
  PROVE  /\ nextid' \in [Scopes -> Nat] /\ <<id, "made">> \notin DOMAIN objs
         /\ id[2] < nextid'[id[1]]
         /\ \A s \in Scopes : nextid[s] <= nextid'[s]
<1>1. id[1] \in Scopes /\ id[2] \in Nat
  BY DEF Ids
<1>2. nextid[id[1]] \in Nat
  BY <1>1 DEF Fresh
<1>3. <<id, "made">> \notin DOMAIN objs
  BY <1>1, <1>2 DEF Fresh, TakesId
<1> QED BY <1>1, <1>2, <1>3 DEF Fresh, TakesId

LEMMA MadeObjects ==
  ASSUME ObjectsInv, UNCHANGED instns, NEW r, NEW id \in Ids, NEW o, Made(r, id, o)
  PROVE  ObjectsInv'
<1> DEFINE k == <<id, "made">>
<1>1. /\ DOMAIN objs' = DOMAIN objs \cup {k} /\ objs'[k] = o
      /\ \A q \in DOMAIN objs \ {k} : objs'[q] = objs[q]
  BY DEF Made, Updated, Merged, Single, Has
<1>2. k \in Keys /\ k \notin DOMAIN objs
  BY TakesIdFresh DEF Keys, Made, ObjectsInv
<1>3. DOMAIN objs' \subseteq Keys /\ \A q \in DOMAIN objs' : Object(q, objs'[q])
  BY <1>1, <1>2 DEF ObjectsInv, Made
<1>4. Fresh'
  <2>1. /\ nextid' \in [Scopes -> Nat] /\ id[2] < nextid'[id[1]]
        /\ \A s \in Scopes : nextid[s] <= nextid'[s] /\ nextid[s] \in Nat /\ nextid'[s] \in Nat
    BY TakesIdFresh DEF Made, ObjectsInv, Fresh
  <2>2. ASSUME NEW q \in DOMAIN objs, q[2] = "made" PROVE q[1][2] < nextid'[q[1][1]]
    <3>1. q[1][1] \in Scopes /\ q[1][2] \in Nat /\ q[1][2] < nextid[q[1][1]]
      BY <2>2 DEF ObjectsInv, Fresh, Keys, Ids
    <3> QED BY <3>1, <2>1
  <2> QED BY <1>1, <2>1, <2>2 DEF Fresh
<1>5. Meant'
  BY <1>1, <1>2 DEF ObjectsInv, Meant
<1> QED BY <1>3, <1>4, <1>5 DEF ObjectsInv

LEMMA RequestedObjects ==
  ASSUME ObjectsInv, NEW r \in DOMAIN http, NEW c, Requested(r, c)
  PROVE  ObjectsInv'
<1>1. UNCHANGED instns
  BY DEF Requested
<1>2. CASE UNCHANGED <<objs, nextid>>
  BY <1>1, <1>2 DEF ObjectsInv, Fresh, Meant
<1>3. ASSUME UNCHANGED objs, NEW id \in Ids, TakesId(id) PROVE ObjectsInv'
  <2>1. /\ nextid' \in [Scopes -> Nat]
        /\ \A s \in Scopes : nextid[s] <= nextid'[s] /\ nextid[s] \in Nat /\ nextid'[s] \in Nat
    BY <1>3, TakesIdFresh DEF ObjectsInv, Fresh
  <2>2. ASSUME NEW q \in DOMAIN objs, q[2] = "made" PROVE q[1][2] < nextid'[q[1][1]]
    <3>1. q[1][1] \in Scopes /\ q[1][2] \in Nat /\ q[1][2] < nextid[q[1][1]]
      BY <2>2 DEF ObjectsInv, Fresh, Keys, Ids
    <3> QED BY <3>1, <2>1
  <2>3. Fresh'
    BY <1>3, <2>1, <2>2 DEF Fresh
  <2> QED BY <1>1, <1>3, <2>3 DEF ObjectsInv, Meant
<1>4. ASSUME NEW id \in Ids, NEW o, Made(r, id, o) PROVE ObjectsInv'
  BY <1>1, <1>4, MadeObjects
<1> QED BY <1>2, <1>3, <1>4, RequestedMakes

LEMMA CreatedObjects ==
  ASSUME ObjectsInv, NEW k \in DOMAIN objs, Created(k)
  PROVE  /\ ObjectsInv' /\ Creating(objs[k]) /\ Only(objs[k].by)
         /\ \A q \in DOMAIN objs \ {k} : q \in DOMAIN objs' /\ objs'[q] = objs[q]
         /\ (objs[k].by \in DOMAIN http => http'[objs[k].by].stage = "done")
<1>0. Object(k, objs[k]) /\ k \in Keys
  BY DEF ObjectsInv
<1>1. Creating(objs[k]) /\ objs[k].tasks # <<>> /\ k[2] = "made"
  BY <1>0 DEF Created, Starts, Creating, Front, Object
<1>2. Only(objs[k].by) /\ (objs[k].by \in DOMAIN http => http'[objs[k].by].stage = "done")
  BY DEF Created, CreateAnswer, Answer, Only
<1>3. CASE Set(k, Enqueue(Started(k), <<"zones">>)) /\ instns' = Updated(instns, k[1], "made")
  <2> DEFINE o == Enqueue(Started(k), <<"zones">>)
  <2>1. Object(k, Started(k)) /\ ~Creating(Started(k)) /\ Started(k).blind = objs[k].blind
    <3>1. Queue(Tail(objs[k].tasks)) /\ ~Front(Tail(objs[k].tasks))
      BY <1>0, <1>1, Removed DEF Object
    <3> QED BY <1>0, <1>1, <3>1 DEF Object, Entire, Started, Creating
  <2>2. Object(k, o) /\ ~Creating(o)
    BY <2>1, EnqueueWorked, Mores DEF Worked, Alike
  <2>3. /\ DOMAIN objs' = DOMAIN objs /\ objs'[k] = o
        /\ \A q \in DOMAIN objs \ {k} : objs'[q] = objs[q]
    BY <1>3 DEF Set
  <2>4. /\ DOMAIN instns' = DOMAIN instns \cup {k[1]} /\ instns'[k[1]] = "made"
        /\ \A id \in DOMAIN instns \ {k[1]} : instns'[id] = instns[id]
    BY <1>3 DEF Updated, Merged, Single, Has
  <2>5. k = <<k[1], "made">>
    BY <1>0, <1>1 DEF Keys
  <2> HIDE DEF o
  <2>6. Meant'
    <3> SUFFICES ASSUME NEW id \in DOMAIN instns'
                 PROVE  /\ <<id, instns'[id]>> \in DOMAIN objs'
                        /\ ~Creating(objs'[<<id, instns'[id]>>])
      BY DEF Meant
    <3>1. CASE id = k[1]
      BY <3>1, <2>2, <2>3, <2>4, <2>5
    <3>2. CASE id # k[1]
      <4>1. /\ id \in DOMAIN instns /\ <<id, instns[id]>> \in DOMAIN objs
            /\ ~Creating(objs[<<id, instns[id]>>])
        BY <3>2, <2>4 DEF ObjectsInv, Meant
      <4>2. <<id, instns[id]>> # k
        BY <4>1, <1>1
      <4> QED BY <3>2, <4>1, <4>2, <2>3, <2>4
    <3> QED BY <3>1, <3>2
  <2>7. UNCHANGED nextid
    BY DEF Created
  <2>8. ObjectsInv'
    BY <2>2, <2>3, <2>6, <2>7 DEF ObjectsInv, Fresh
  <2> QED BY <1>1, <1>2, <2>3, <2>8
<1>4. CASE objs' = [q \in DOMAIN objs \ {k} |-> objs[q]] /\ UNCHANGED instns
  <2>1. Meant'
    <3> SUFFICES ASSUME NEW id \in DOMAIN instns
                 PROVE  /\ <<id, instns[id]>> \in DOMAIN objs'
                        /\ ~Creating(objs'[<<id, instns[id]>>])
      BY <1>4 DEF Meant
    <3>1. <<id, instns[id]>> \in DOMAIN objs /\ ~Creating(objs[<<id, instns[id]>>])
      BY DEF ObjectsInv, Meant
    <3> QED BY <3>1, <1>1, <1>4
  <2>2. UNCHANGED nextid
    BY DEF Created
  <2>3. ObjectsInv'
    BY <1>4, <2>1, <2>2 DEF ObjectsInv, Fresh
  <2> QED BY <1>1, <1>2, <1>4, <2>3
<1> QED BY <1>3, <1>4 DEF Created

\* The objects after loading.
LEMMA FetchObjects ==
  ASSUME ObjectsInv, NEW some, some \subseteq Ids,
         objs' = Merged([k \in {<<id, "loaded">> : id \in some} |-> Loaded(k[1], buckets[k[1]])], objs),
         instns' = Merged([id \in some |-> "loaded"], instns),
         nextid' = IdsAfter(some)
  PROVE  /\ ObjectsInv'
         /\ \A k \in DOMAIN objs : k[2] = "made" => k \in DOMAIN objs' /\ objs'[k] = objs[k]
<1> DEFINE new == {<<id, "loaded">> : id \in some}
<1>1. /\ DOMAIN objs' = new \cup DOMAIN objs
      /\ \A k \in new : objs'[k] = Loaded(k[1], buckets[k[1]])
      /\ \A k \in DOMAIN objs \ new : objs'[k] = objs[k]
  BY DEF Merged, Has
<1>2. new \subseteq Keys
  BY DEF Keys
<1>3. \A k : Object(k, Loaded(k[1], buckets[k[1]])) /\ ~Creating(Loaded(k[1], buckets[k[1]]))
  BY InstnObject, LoadTasksLater DEF Loaded
<1>4. \A k \in new : k[2] = "loaded"
  OBVIOUS
<1>5. DOMAIN objs' \subseteq Keys /\ \A k \in DOMAIN objs' : Object(k, objs'[k])
  <2> HIDE DEF new
  <2> QED BY <1>1, <1>2, <1>3 DEF ObjectsInv
<1>6. /\ nextid' \in [Scopes -> Nat]
      /\ \A s \in Scopes : nextid[s] <= nextid'[s] /\ nextid[s] \in Nat /\ nextid'[s] \in Nat
  BY IdsAfterIs DEF ObjectsInv, Fresh
<1>7. Fresh'
  <2> SUFFICES ASSUME NEW k \in DOMAIN objs', k[2] = "made" PROVE k[1][2] < nextid'[k[1][1]]
    BY <1>6 DEF Fresh
  <2>1. k \in DOMAIN objs
    BY <1>1, <1>4
  <2>2. k[1][1] \in Scopes /\ k[1][2] \in Nat /\ k[1][2] < nextid[k[1][1]]
    BY <2>1 DEF ObjectsInv, Fresh, Keys, Ids
  <2> QED BY <2>2, <1>6
<1>8. Meant'
  <2> SUFFICES ASSUME NEW id \in DOMAIN instns'
               PROVE  /\ <<id, instns'[id]>> \in DOMAIN objs'
                      /\ ~Creating(objs'[<<id, instns'[id]>>])
    BY DEF Meant
  <2>1. CASE id \in some
    <3>1. instns'[id] = "loaded" /\ <<id, "loaded">> \in new
      BY <2>1 DEF Merged, Has
    <3> HIDE DEF new
    <3> QED BY <3>1, <1>1, <1>3
  <2>2. CASE id \notin some
    <3>1. id \in DOMAIN instns /\ instns'[id] = instns[id]
      BY <2>2 DEF Merged, Has
    <3>2. <<id, instns[id]>> \notin new
      BY <2>2
    <3> HIDE DEF new
    <3> QED BY <3>1, <3>2, <1>1 DEF ObjectsInv, Meant
  <2> QED BY <2>1, <2>2
<1> HIDE DEF new
<1> QED BY <1>1, <1>4, <1>5, <1>7, <1>8 DEF ObjectsInv

-----------------------------------------------------------------------------
(* The steps: those that make no object and save nothing are alike.        *)

SdcInv == asked \subseteq registered
BaseInv == PartsInv /\ SdcInv

HttpCalm ==
    /\ DOMAIN http' = DOMAIN http
    /\ \A r \in DOMAIN http :
           /\ http'[r].stage = "saving" => http[r].stage = "saving"
           /\ http'[r].stage = "asking" => http'[r] = http[r] \/ http'[r].wait # {}
Calm ==
    /\ Steady /\ Settled /\ HttpCalm
    /\ UNCHANGED phase \/ (phase = "down" /\ phase' \in {"list", "dead"})
Falls == Gone /\ DOMAIN http' = DOMAIN http /\ UNCHANGED <<asked, registered>>

LEMMA AnswerCalm ==
  ASSUME NEW r \in DOMAIN http, NEW code, Answer(r, code)
  PROVE  HttpCalm
BY DEF Answer, HttpCalm

LEMMA AwaitsCalm ==
  ASSUME NEW r \in DOMAIN http, NEW stage, NEW wait, Awaits(r, stage, wait),
         stage # "saving", stage = "asking" => wait # {}
  PROVE  HttpCalm
BY DEF Awaits, HttpCalm

LEMMA HttpOnlyCalm ==
  ASSUME ObjectsInv, OnlyHttp, HttpCalm
  PROVE  Calm
<1>1. Steady
  BY Untouched DEF OnlyHttp, memory
<1> QED BY <1>1 DEF OnlyHttp, memory, Calm, Settled

LEMMA DiesFalls == ASSUME Dies PROVE Falls
BY DiesGone DEF Falls, Dies

LEMMA OthersCalm ==
  ASSUME BaseInv,
         \/ Start \/ AggOnline \/ CnapiReplies
         \/ \E h \in DOMAIN doc : InstrOnline(h) \/ \E d : Restart(h, d)
         \/ \E s \in DOMAIN Servers : Register(s)
  PROVE  Calm
<1>0. ObjectsInv /\ asked \subseteq registered
  BY DEF BaseInv, PartsInv, SdcInv
<1>1. CASE Start
  BY <1>0, <1>1, Untouched DEF Start, Calm, Settled, HttpCalm, memory
<1>2. CASE AggOnline
  BY <1>0, <1>2, Untouched DEF AggOnline, Calm, Settled, HttpCalm
<1>3. CASE CnapiReplies
  BY <1>0, <1>3, CnapiRepliesSteady DEF CnapiReplies, Calm, Settled, HttpCalm
<1>4. ASSUME NEW h \in DOMAIN doc, InstrOnline(h) PROVE Calm
  <2>1. Steady
    BY <1>0, <1>4, InstrOnlineSteady
  <2> QED BY <2>1, <1>4 DEF InstrOnline, Calm, Settled, HttpCalm
<1>5. ASSUME NEW h, NEW d, Restart(h, d) PROVE Calm
  BY <1>0, <1>5, Untouched DEF Restart, Calm, Settled, HttpCalm, memory
<1>6. ASSUME NEW s, Register(s) PROVE Calm
  BY <1>0, <1>6, Untouched DEF Register, Calm, Settled, HttpCalm, memory
<1> QED BY <1>1, <1>2, <1>3, <1>4, <1>5, <1>6

LEMMA TaskSteps ==
  ASSUME BaseInv, NEW k \in DOMAIN objs, Task(k)
  PROVE  Calm \/ (Falls /\ UNCHANGED stash) \/ Save(k) \/ Created(k)
<1>0. ObjectsInv
  BY DEF BaseInv, PartsInv
<1>1. CASE ZonesGlobal(k)
  BY <1>0, <1>1, ZonesGlobalSteady DEF ZonesGlobal, Calm, Settled, HttpCalm
<1>2. CASE ZonesCustomer(k)
  BY <1>0, <1>2, ZonesCustomerSteady DEF ZonesCustomer, Calm, Settled, HttpCalm
<1>3. CASE Listed(k)
  BY <1>0, <1>3, ListedSteady DEF Listed, Calm, Settled, HttpCalm
<1>4. CASE NotListed(k)
  BY <1>0, <1>4, NotListedSteady DEF NotListed, Calm, Settled, HttpCalm
<1>5. CASE InstrsUpdate(k)
  <2>1. Steady
    BY <1>0, <1>5, InstrsUpdateSteady
  <2>2. UNCHANGED <<phase, plan, instns, nextid, unread, stash, http>>
    BY <1>5 DEF InstrsUpdate
  <2> QED BY <2>1, <2>2 DEF Calm, Settled, HttpCalm
<1>6. CASE InstrsThrow(k)
  BY <1>6, DiesFalls DEF InstrsThrow
<1> QED BY <1>1, <1>2, <1>3, <1>4, <1>5, <1>6 DEF Task

LEMMA RequestSteps ==
  ASSUME BaseInv, NEW r \in DOMAIN http, Request(r)
  PROVE  Calm \/ \E c : Requested(r, c)
<1>0. ObjectsInv
  BY DEF BaseInv, PartsInv
<1>1. ASSUME NEW w, Arrive(r, w) PROVE Calm
  <2>1. OnlyHttp /\ (Awaits(r, "routed", {}) \/ Answer(r, Decoded(w)))
    BY <1>1 DEF Arrive
  <2>2. HttpCalm
    BY <2>1, AnswerCalm, AwaitsCalm
  <2> QED BY <1>0, <2>1, <2>2, HttpOnlyCalm
<1>2. ASSUME \/ HttpConfigList(r) \/ HttpLegacyMetricsList(r) \/ HttpStatic(r) \/ HttpInstnsList(r)
             \/ \E id \in Ids : HttpGetProps(r, id)
      PROVE  Calm
  <2>1. OnlyHttp /\ \E code : Answer(r, code)
    BY <1>2 DEF HttpConfigList, HttpLegacyMetricsList, HttpList, HttpStatic, HttpInstnsList,
                HttpGetProps
  <2> QED BY <1>0, <2>1, AnswerCalm, HttpOnlyCalm
<1>3. ASSUME NEW id, HttpValue(r, id) PROVE Calm
  <2>1. OnlyHttp /\ ((\E code : Answer(r, code)) \/ Awaits(r, "forwarded", {"aggregator"}))
    BY <1>3 DEF HttpValue
  <2>2. HttpCalm
    BY <2>1, AnswerCalm, AwaitsCalm
  <2> QED BY <1>0, <2>1, <2>2, HttpOnlyCalm
<1>4. CASE Forwarded(r)
  <2>1. OnlyHttp /\ ((\E code : Answer(r, code)) \/ Awaits(r, "cut", {}))
    BY <1>4 DEF Forwarded
  <2>2. HttpCalm
    BY <2>1, AnswerCalm, AwaitsCalm
  <2> QED BY <1>0, <2>1, <2>2, HttpOnlyCalm
<1>5. ASSUME HttpStatus(r) \/ \E who \in http[r].wait : StatusReply(r, who) PROVE Calm
  <2>1. OnlyHttp /\ \E wait : AnswerIfAll(r, wait)
    BY <1>5 DEF HttpStatus, StatusReply
  <2>2. PICK wait : AnswerIfAll(r, wait)
    BY <2>1
  <2>3. HttpCalm
    <3>1. CASE wait = {}
      BY <3>1, <2>2, AnswerCalm DEF AnswerIfAll
    <3>2. CASE wait # {}
      BY <3>2, <2>2, AwaitsCalm DEF AnswerIfAll
    <3> QED BY <3>1, <3>2
  <2> QED BY <1>0, <2>1, <2>3, HttpOnlyCalm
<1>6. ASSUME HttpCreate(r) \/ HttpClone(r) PROVE \E c : Requested(r, c)
  BY <1>6 DEF HttpCreate, HttpClone
<1> QED BY <1>1, <1>2, <1>3, <1>4, <1>5, <1>6 DEF Request

LEMMA Steps ==
  ASSUME BaseInv, Next
  PROVE  \/ Calm \/ (Falls /\ UNCHANGED stash) \/ List \/ Put \/ DeleteLegacy \/ Fetch
         \/ \E k \in DOMAIN objs : Save(k) \/ Created(k)
         \/ \E r \in DOMAIN http : \E c : Requested(r, c)
<1>1. CASE Crash \/ LoadFails
  BY <1>1, DiesFalls DEF Crash, LoadFails
<1>2. CASE \E k \in DOMAIN objs : Task(k)
  BY <1>2, TaskSteps
<1>3. CASE \E r \in DOMAIN http : Request(r)
  BY <1>3, RequestSteps
<1> QED BY <1>1, <1>2, <1>3, OthersCalm DEF Next, Load


-----------------------------------------------------------------------------
(* Objects, ids and what CNAPI was asked, as they are after any steps.     *)

LEMMA SdcNext ==
  ASSUME SdcInv, [Next]_vars
  PROVE  SdcInv'

<1>1. CASE UNCHANGED vars
  BY <1>1 DEF vars, sdcVars, SdcInv
<1>2. CASE Start
  BY <1>2 DEF Start, StartSdc, SdcInv
<1>3. ASSUME Dies PROVE SdcInv'
  BY <1>3, DiesGone DEF SdcInv
<1>4. CASE Crash \/ Load
  <2>1. Dies \/ UNCHANGED sdcVars
    BY <1>4 DEF Crash, Load, LoadFails, List, Put, DeleteLegacy, Fetch, Loading
  <2> QED BY <2>1, <1>3 DEF sdcVars, SdcInv
<1>5. CASE AggOnline \/ CnapiReplies
  BY <1>5 DEF AggOnline, CnapiReplies, sdcVars, SdcInv
<1>6. ASSUME NEW h, InstrOnline(h) \/ \E d : Restart(h, d) PROVE SdcInv'
  BY <1>6 DEF InstrOnline, Restart, sdcVars, SdcInv
<1>7. ASSUME NEW s, Register(s) PROVE SdcInv'
  BY <1>7 DEF Register, SdcInv
<1>8. ASSUME NEW k, Task(k) PROVE SdcInv'
  <2>1. CASE Listed(k)
    BY <2>1 DEF Listed, kick, Fetching, SdcInv
  <2>2. CASE InstrsThrow(k)
    BY <2>2, <1>3 DEF InstrsThrow
  <2>3. CASE \/ ZonesGlobal(k) \/ ZonesCustomer(k) \/ NotListed(k) \/ InstrsUpdate(k)
             \/ Save(k) \/ Created(k)
    BY <2>3 DEF ZonesGlobal, ZonesCustomer, NotListed, InstrsUpdate, Save, Created, sdcVars, SdcInv
  <2> QED BY <1>8, <2>1, <2>2, <2>3 DEF Task
<1>9. ASSUME NEW r, Request(r) PROVE SdcInv'
  <2>1. ASSUME OnlyHttp PROVE SdcInv'
    BY <2>1 DEF OnlyHttp, sdcVars, SdcInv
  <2>2. ASSUME NEW c, Requested(r, c) PROVE SdcInv'
    BY <2>2 DEF Requested, sdcVars, SdcInv
  <2>3. OnlyHttp \/ \E c : Requested(r, c)
    BY <1>9 DEF Request, Arrive, HttpCreate, HttpClone, HttpConfigList, HttpLegacyMetricsList,
                HttpList, HttpStatic, HttpInstnsList, HttpGetProps, HttpValue, Forwarded,
                HttpStatus, StatusReply
  <2> QED BY <2>1, <2>2, <2>3
<1> QED BY <1>1, <1>2, <1>4, <1>5, <1>6, <1>7, <1>8, <1>9 DEF Next

LEMMA PutsIs ==
  ASSUME NEW k, Puts(k)
  PROVE  /\ DOMAIN buckets' = DOMAIN buckets \cup {k[1]}
         /\ buckets'[k[1]] = Conf(objs[k])
         /\ \A id \in DOMAIN buckets \ {k[1]} : buckets'[id] = buckets[id]
         /\ lost' = IF objs[k].blind /\ Others(k) THEN lost \cup {k[1]} ELSE lost
BY DEF Puts, Updated, Merged, Single, Has

LEMMA PutIs ==
  ASSUME NEW some, some \subseteq DOMAIN plan, buckets' = Migrated(some)
  PROVE  /\ DOMAIN buckets' = DOMAIN buckets \cup some
         /\ \A id \in some : buckets'[id] = plan[id]
         /\ \A id \in DOMAIN buckets \ some : buckets'[id] = buckets[id]
BY DEF Migrated, Merged, Has

LEMMA BaseNext ==
  ASSUME BaseInv, [Next]_vars
  PROVE  BaseInv'
<1> SUFFICES PartsInv'
  BY SdcNext DEF BaseInv
<1>0. ObjectsInv /\ BucketsInv
  BY DEF BaseInv, PartsInv
<1>1. CASE UNCHANGED vars
  <2>1. Steady /\ UNCHANGED <<instns, nextid, legacy, buckets, plan, phase>>
    BY <1>0, <1>1, Untouched DEF vars, memory, stash
  <2> QED BY <1>0, <2>1, SteadyObjects DEF PartsInv, BucketsInv
<1>2. CASE Calm
  BY <1>0, <1>2, SteadyObjects DEF Calm, Settled, stash, PartsInv, BucketsInv
<1>3. CASE Falls /\ UNCHANGED stash
  BY <1>0, <1>3, GoneBase DEF Falls, stash, BucketsInv
<1>4. CASE List
  <2>1. /\ UNCHANGED <<objs, instns, nextid, legacy, buckets>>
        /\ plan' \in {legacy, buckets}
    BY <1>4 DEF List, Loading, stash
  <2> QED BY <1>0, <2>1, Untouched, SteadyObjects DEF PartsInv, BucketsInv
<1>5. CASE Put
  <2>1. PICK some \in SUBSET DOMAIN plan :
          /\ buckets' = Migrated(some) /\ phase = "put" /\ UNCHANGED legacy
          /\ \/ UNCHANGED <<plan, objs, instns, nextid>> /\ phase' = "delete"
             \/ Dies
    BY <1>5 DEF Put, Loading
  <2>2. DOMAIN buckets' \subseteq Ids
    BY <1>0, <2>1, PutIs DEF BucketsInv
  <2>3. CASE Dies
    BY <1>0, <2>1, <2>2, <2>3, DiesGone, GoneBase DEF BucketsInv
  <2>4. CASE UNCHANGED <<plan, objs, instns, nextid>> /\ phase' = "delete"
    BY <1>0, <2>1, <2>2, <2>4, Untouched, SteadyObjects DEF PartsInv, BucketsInv
  <2> QED BY <2>1, <2>3, <2>4
<1>6. CASE DeleteLegacy
  <2>1. /\ legacy' \in {legacy, Nothing} /\ UNCHANGED buckets
        /\ \/ UNCHANGED <<plan, objs, instns, nextid>> /\ phase' = "list"
           \/ Dies
    BY <1>6 DEF DeleteLegacy, Loading
  <2>2. DOMAIN legacy' \subseteq Ids /\ DOMAIN buckets' \subseteq Ids
    BY <1>0, <2>1 DEF BucketsInv, Nothing
  <2>3. CASE Dies
    BY <2>2, <2>3, DiesGone, GoneBase
  <2>4. CASE UNCHANGED <<plan, objs, instns, nextid>> /\ phase' = "list"
    BY <1>0, <2>2, <2>4, Untouched, SteadyObjects DEF PartsInv, BucketsInv
  <2> QED BY <2>1, <2>3, <2>4
<1>7. CASE Fetch
  <2>1. PICK some \in SUBSET DOMAIN plan :
          /\ objs' = Merged([k \in {<<id, "loaded">> : id \in some} |->
                                 Loaded(k[1], buckets[k[1]])], objs)
          /\ instns' = Merged([id \in some |-> "loaded"], instns)
          /\ nextid' = IdsAfter(some)
          /\ phase = "fetch" /\ phase' = "up" /\ UNCHANGED <<legacy, buckets>>
    BY <1>7 DEF Fetch, stash
  <2>2. some \subseteq Ids
    BY <1>0, <2>1 DEF BucketsInv
  <2>3. ObjectsInv'
    BY <1>0, <2>1, <2>2, FetchObjects
  <2> QED BY <1>0, <2>1, <2>3 DEF PartsInv, BucketsInv
<1>8. ASSUME NEW k \in DOMAIN objs, Save(k) \/ Created(k) PROVE PartsInv'
  <2>1. k[1] \in Ids
    BY <1>0 DEF ObjectsInv, Keys
  <2>2. UNCHANGED <<phase, plan, legacy>> /\ (Puts(k) \/ UNCHANGED buckets)
    BY <1>8 DEF Save, Created, PutFails
  <2>3. BucketsInv'
    BY <1>0, <2>1, <2>2, PutsIs DEF BucketsInv
  <2>4. ObjectsInv'
    <3>1. CASE Save(k)
      BY <1>0, <3>1, SaveSteady, SteadyObjects DEF Save
    <3>2. CASE Created(k)
      BY <1>0, <3>2, CreatedObjects
    <3> QED BY <1>8, <3>1, <3>2
  <2> QED BY <2>3, <2>4 DEF PartsInv
<1>9. ASSUME NEW r \in DOMAIN http, NEW c, Requested(r, c) PROVE PartsInv'
  <2>1. ObjectsInv'
    BY <1>0, <1>9, RequestedObjects
  <2>2. UNCHANGED <<phase, plan, legacy, buckets>>
    BY <1>9 DEF Requested, stash
  <2> QED BY <1>0, <2>1, <2>2 DEF PartsInv, BucketsInv
<1> QED BY <1>1, <1>2, <1>3, <1>4, <1>5, <1>6, <1>7, <1>8, <1>9, Steps

LEMMA SavedIs ==
  ASSUME NEW conf, NEW id, NEW servers, Saved(conf, id, servers)
  PROVE  id \in Ids /\ conf.by = 0
BY DEF Saved

LEMMA BaseInit ==
  ASSUME Init
  PROVE  BaseInv
<1>1. PICK s \in Setups : legacy = s.legacy /\ buckets = s.buckets
  BY DEF Init
<1>2. DOMAIN legacy \subseteq Ids /\ DOMAIN buckets \subseteq Ids
  BY <1>1, SetupsAssumption, SavedIs
<1>3. ObjectsInv
  BY DEF Init, ObjectsInv, Fresh, Meant, Nothing
<1>4. phase = "down" /\ SdcInv
  BY DEF Init, SdcInv
<1> QED BY <1>2, <1>3, <1>4 DEF BaseInv, PartsInv, BucketsInv


LEMMA Based == Spec => []BaseInv
BY BaseInit, BaseNext, PTL DEF Spec

\* listContainers answers only once CNAPI has been asked after the request was made or has
\* all names anyway: no customer misses a machine whose server CNAPI knew.
THEOREM MachinesAreFound == Spec => []Zoned
<1>1. BaseInv => Zoned
  BY DEF BaseInv, PartsInv, ObjectsInv, Object, Zoned
<1> QED BY <1>1, Based, PTL

-----------------------------------------------------------------------------
(* Requests.  What is being saved for one is an object that it made.       *)

HttpInv ==
    \A r \in DOMAIN http :
        /\ http[r].stage = "saving" => \E k \in DOMAIN objs : objs[k].by = r /\ Creating(objs[k])
        /\ http[r].stage = "asking" => http[r].wait # {}

\* What is being created goes on being created.
Kept == \A k \in DOMAIN objs :
    Creating(objs[k]) => k \in DOMAIN objs' /\ objs'[k].by = objs[k].by /\ Creating(objs'[k])

LEMMA KeptHttp ==
  ASSUME HttpInv, Kept, HttpCalm
  PROVE  HttpInv'
<1> SUFFICES ASSUME NEW r \in DOMAIN http'
             PROVE  /\ http'[r].stage = "saving" =>
                           \E k \in DOMAIN objs' : objs'[k].by = r /\ Creating(objs'[k])
                    /\ http'[r].stage = "asking" => http'[r].wait # {}
  BY DEF HttpInv
<1>1. r \in DOMAIN http
  BY DEF HttpCalm
<1>2. ASSUME http'[r].stage = "saving"
      PROVE  \E k \in DOMAIN objs' : objs'[k].by = r /\ Creating(objs'[k])
  <2>1. PICK k \in DOMAIN objs : objs[k].by = r /\ Creating(objs[k])
    BY <1>1, <1>2 DEF HttpInv, HttpCalm
  <2> QED BY <2>1 DEF Kept
<1>3. http'[r].stage = "asking" => http'[r].wait # {}
  BY <1>1 DEF HttpInv, HttpCalm
<1> QED BY <1>2, <1>3

LEMMA HttpNext ==
  ASSUME BaseInv, HttpInv, [Next]_vars
  PROVE  HttpInv'
<1>0. ObjectsInv
  BY DEF BaseInv, PartsInv
<1>1. CASE UNCHANGED vars
  <2>1. UNCHANGED <<objs, http>>
    BY <1>1 DEF vars, memory
  <2> QED BY <2>1 DEF HttpInv
<1>2. CASE Steady /\ HttpCalm
  <2>1. Kept
    BY <1>2 DEF Steady, Worked, Alike, Kept
  <2> QED BY <1>2, <2>1, KeptHttp
<1>3. CASE Falls
  BY <1>3 DEF Falls, Gone, HttpInv
<1>4. ASSUME List \/ Put \/ DeleteLegacy PROVE HttpInv'
  <2>1. UNCHANGED <<objs, http>> \/ Dies
    BY <1>4 DEF List, Put, DeleteLegacy, Loading
  <2>2. CASE UNCHANGED <<objs, http>>
    BY <2>2 DEF HttpInv
  <2> QED BY <2>1, <2>2, <1>3, DiesFalls
<1>5. CASE Fetch
  <2>1. PICK some \in SUBSET DOMAIN plan :
          /\ objs' = Merged([k \in {<<id, "loaded">> : id \in some} |->
                                 Loaded(k[1], buckets[k[1]])], objs)
          /\ instns' = Merged([id \in some |-> "loaded"], instns)
          /\ nextid' = IdsAfter(some)
          /\ phase = "fetch" /\ UNCHANGED http
    BY <1>5 DEF Fetch
  <2>2. some \subseteq Ids
    BY <2>1 DEF BaseInv, PartsInv, BucketsInv
  <2>3. \A k \in DOMAIN objs : k[2] = "made" => k \in DOMAIN objs' /\ objs'[k] = objs[k]
    BY <1>0, <2>1, <2>2, FetchObjects
  <2>4. Kept
    BY <1>0, <2>3 DEF Kept, ObjectsInv, Object
  <2> QED BY <2>1, <2>4, KeptHttp DEF HttpCalm
<1>6. ASSUME NEW k \in DOMAIN objs, Save(k) PROVE HttpInv'
  <2>1. Steady /\ UNCHANGED http
    BY <1>0, <1>6, SaveSteady DEF Save
  <2> QED BY <1>2, <2>1 DEF HttpCalm
<1>7. ASSUME NEW k \in DOMAIN objs, Created(k) PROVE HttpInv'
  <2>1. /\ Only(objs[k].by)
        /\ \A q \in DOMAIN objs \ {k} : q \in DOMAIN objs' /\ objs'[q] = objs[q]
        /\ (objs[k].by \in DOMAIN http => http'[objs[k].by].stage = "done")
    BY <1>0, <1>7, CreatedObjects
  <2> SUFFICES ASSUME NEW r \in DOMAIN http, r # objs[k].by, http'[r] = http[r]
               PROVE  http'[r].stage = "saving" =>
                           \E q \in DOMAIN objs' : objs'[q].by = r /\ Creating(objs'[q])
    BY <2>1 DEF Only, HttpInv
  <2>2. ASSUME http[r].stage = "saving"
        PROVE  \E q \in DOMAIN objs' : objs'[q].by = r /\ Creating(objs'[q])
    <3>1. PICK q \in DOMAIN objs : objs[q].by = r /\ Creating(objs[q])
      BY <2>2 DEF HttpInv
    <3> QED BY <2>1, <3>1
  <2> QED BY <2>2
<1>8. ASSUME NEW r \in DOMAIN http, NEW c, Requested(r, c) PROVE HttpInv'
  <2>1. Only(r)
    BY <1>8, RequestedMakes
  <2>2. \A q \in DOMAIN http \ {r} : http'[q] = http[q] /\ q \in DOMAIN http'
    BY <2>1 DEF Only
  <2>3. CASE UNCHANGED objs /\ http'[r].stage = "done"
    BY <2>1, <2>2, <2>3 DEF HttpInv, Only
  <2>4. ASSUME NEW id \in Ids, NEW o, Made(r, id, o) PROVE HttpInv'
    <3>1. <<id, "made">> \notin DOMAIN objs
      BY <1>0, <2>4, TakesIdFresh DEF Made, ObjectsInv
    <3>2. /\ DOMAIN objs' = DOMAIN objs \cup {<<id, "made">>} /\ objs'[<<id, "made">>] = o
          /\ \A q \in DOMAIN objs : objs'[q] = objs[q]
      BY <2>4, <3>1 DEF Made, Updated, Merged, Single, Has
    <3>3. o.by = r /\ Creating(o) /\ http'[r].stage = "saving"
      BY <2>4 DEF Made
    <3>4. ASSUME NEW q \in DOMAIN http, q # r, http[q].stage = "saving"
          PROVE  \E k \in DOMAIN objs' : objs'[k].by = q /\ Creating(objs'[k])
      <4>1. PICK k \in DOMAIN objs : objs[k].by = q /\ Creating(objs[k])
        BY <3>4 DEF HttpInv
      <4> QED BY <3>2, <4>1
    <3>5. \E k \in DOMAIN objs' : objs'[k].by = r /\ Creating(objs'[k])
      BY <3>2, <3>3
    <3> QED BY <2>1, <2>2, <3>3, <3>4, <3>5 DEF HttpInv, Only
  <2> QED BY <1>8, <2>3, <2>4, RequestedMakes
<1> QED BY <1>1, <1>2, <1>3, <1>4, <1>5, <1>6, <1>7, <1>8, Steps DEF Calm

\* A request that waits for the stash is that of an object whose creation is under way,
\* whatever is loaded meanwhile and whatever other requests do; one that waits for the
\* status of others waits for at least one of them.
THEOREM RequestsAreAttended == Spec => []Attended
<1>1. Init => HttpInv
  BY DEF Init, HttpInv
<1>2. Spec => []HttpInv
  BY <1>1, HttpNext, Based, PTL DEF Spec
<1>3. HttpInv => Attended
  BY DEF HttpInv, Attended, Creating, Front
<1> QED BY <1>2, <1>3, PTL


-----------------------------------------------------------------------------
(* What has been saved.                                                    *)

\* What is still in the legacy bucket has been saved before, and is not yet changed.
LegacyOK == \A id \in DOMAIN legacy :
    id \in DOMAIN saved /\ legacy[id].by = 0 /\ (id \notin lost => saved[id] = 0)

\* What has been saved is among S or meant by its id, and the ids of all other buckets are
\* behind those that are handed out.
Accounted(S) ==
    /\ DOMAIN saved \subseteq S \cup DOMAIN instns
    /\ \A id \in DOMAIN buckets : id \in S \/ id[2] < nextid[id[1]]
PhaseOK ==
    /\ phase = "put" => plan = legacy
    /\ phase = "delete" => DOMAIN legacy \subseteq DOMAIN buckets
    /\ phase \in {"fetch", "up"} => DOMAIN legacy = {}
    /\ phase = "fetch" => DOMAIN plan \subseteq DOMAIN buckets /\ Accounted(DOMAIN plan)
    /\ phase = "up" => Accounted(unread)

SavedOK ==
    /\ DOMAIN saved \subseteq DOMAIN buckets \cup DOMAIN legacy
    /\ \A id \in DOMAIN saved \ lost : Intact(id)

\* An object that was not made too early is the only one of its id that counts: what is
\* saved of that id was made by the same request.
Own(k) ==
    /\ phase = "up"
    /\ k[1] \in DOMAIN saved \ lost => saved[k[1]] = objs[k].by
    /\ k[1] \in DOMAIN buckets \ lost => buckets[k[1]].by = objs[k].by
    /\ k[2] = "made" => <<k[1], "loaded">> \notin DOMAIN objs
Backed(k) == k[1] \in DOMAIN buckets /\ k[1][2] < nextid[k[1][1]]
OwnOK == \A k \in DOMAIN objs :
    (~objs[k].blind => Own(k)) /\ (k[2] = "loaded" => Backed(k))

SavedInv == LegacyOK /\ PhaseOK /\ SavedOK /\ OwnOK

LEMMA SavedCalm ==
  ASSUME SavedInv, Steady, Settled,
         UNCHANGED phase \/ (phase = "down" /\ phase' \in {"list", "dead"})
  PROVE  SavedInv'
<1>1. LegacyOK' /\ SavedOK' /\ PhaseOK'
  BY DEF SavedInv, Settled, stash, LegacyOK, SavedOK, Intact, PhaseOK, Accounted
<1>2. OwnOK'
  <2> SUFFICES ASSUME NEW k \in DOMAIN objs'
               PROVE  /\ ~objs'[k].blind => Own(k)'
                      /\ k[2] = "loaded" => Backed(k)'
    BY DEF OwnOK
  <2>1. k \in DOMAIN objs /\ objs'[k].by = objs[k].by /\ objs'[k].blind = objs[k].blind
    BY DEF Steady, Worked, Alike
  <2>2. DOMAIN objs' = DOMAIN objs
    BY DEF Steady
  <2>3. UNCHANGED <<saved, lost, buckets, nextid>>
    BY DEF Settled, stash
  <2>4. ~objs[k].blind => Own(k) /\ UNCHANGED phase
    BY <2>1 DEF SavedInv, OwnOK, Own
  <2>5. k[2] = "loaded" => Backed(k)
    BY <2>1 DEF SavedInv, OwnOK
  <2>6. k[2] = "loaded" => Backed(k)'
    BY <2>3, <2>5 DEF Backed
  <2>7. ASSUME ~objs'[k].blind PROVE Own(k)'
    BY <2>1, <2>2, <2>3, <2>4, <2>7 DEF Own
  <2> QED BY <2>6, <2>7
<1> QED BY <1>1, <1>2 DEF SavedInv

\* The process ends: only what is in the stash counts.
LEMMA SavedGone ==
  ASSUME Gone, LegacyOK', SavedOK'
  PROVE  SavedInv'
BY DEF Gone, SavedInv, PhaseOK, OwnOK, Nothing

LEMMA SavedList ==
  ASSUME BaseInv, SavedInv, List
  PROVE  SavedInv'
<1>0. ObjectsInv
  BY DEF BaseInv, PartsInv
<1>1. UNCHANGED <<objs, instns, nextid, stash, unread>> /\ phase = "list"
  BY DEF List, Loading
<1>2. LegacyOK' /\ SavedOK'
  BY <1>1 DEF SavedInv, LegacyOK, SavedOK, Intact, stash
<1>3. OwnOK'
  BY <1>1 DEF SavedInv, OwnOK, Own, Backed, stash
<1>4. PhaseOK'
  <2>1. CASE legacy # Nothing
    BY <1>1, <2>1 DEF List, Loading, PhaseOK, stash
  <2>2. CASE legacy = Nothing
    <3>1. phase' = "fetch" /\ plan' = buckets /\ UNCHANGED <<legacy, buckets, saved>>
      BY <2>2 DEF List, Loading, stash
    <3>2. DOMAIN legacy = {}
      BY <2>2 DEF Nothing
    <3>3. Accounted(DOMAIN plan)'
      BY <1>1, <3>1, <3>2 DEF Accounted, SavedInv, SavedOK
    <3> QED BY <3>1, <3>2, <3>3 DEF PhaseOK
  <2> QED BY <2>1, <2>2
<1> QED BY <1>2, <1>3, <1>4 DEF SavedInv

LEMMA SavedPut ==
  ASSUME BaseInv, SavedInv, Put
  PROVE  SavedInv'
<1>1. PICK some \in SUBSET DOMAIN plan :
        /\ buckets' = Migrated(some) /\ phase = "put" /\ UNCHANGED <<legacy, saved, lost>>
        /\ \/ UNCHANGED <<plan, objs, instns, nextid>> /\ phase' = "delete" /\ some = DOMAIN plan
           \/ Dies
  BY DEF Put, Loading, AllPut
<1>2. plan = legacy
  BY <1>1 DEF SavedInv, PhaseOK
<1>3. /\ DOMAIN buckets' = DOMAIN buckets \cup some
      /\ \A id \in some : buckets'[id] = legacy[id] /\ id \in DOMAIN legacy
      /\ \A id \in DOMAIN buckets \ some : buckets'[id] = buckets[id]
  BY <1>1, <1>2, PutIs
<1>4. LegacyOK'
  BY <1>1 DEF SavedInv, LegacyOK
<1>5. SavedOK'
  <2>1. DOMAIN saved' \subseteq DOMAIN buckets' \cup DOMAIN legacy'
    BY <1>1, <1>3 DEF SavedInv, SavedOK
  <2>2. ASSUME NEW id \in DOMAIN saved \ lost PROVE Intact(id)'
    <3>1. CASE id \in some
      <4>1. buckets'[id].by = 0 /\ saved[id] = 0 /\ id \in DOMAIN buckets'
        BY <1>3, <2>2, <3>1 DEF SavedInv, LegacyOK
      <4> QED BY <1>1, <4>1 DEF Intact, Has
    <3>2. CASE id \notin some
      <4>1. Intact(id)
        BY DEF SavedInv, SavedOK
      <4>2. (id \in DOMAIN buckets' <=> id \in DOMAIN buckets)
            /\ (id \in DOMAIN buckets => buckets'[id] = buckets[id])
        BY <1>3, <3>2
      <4> QED BY <1>1, <4>1, <4>2 DEF Intact, Has
    <3> QED BY <3>1, <3>2
  <2> QED BY <1>1, <2>1, <2>2 DEF SavedOK
<1>6. CASE Dies
  BY <1>4, <1>5, <1>6, DiesGone, SavedGone
<1>7. CASE UNCHANGED <<plan, objs, instns, nextid>> /\ phase' = "delete" /\ some = DOMAIN plan
  <2>1. PhaseOK'
    BY <1>1, <1>2, <1>3, <1>7 DEF PhaseOK
  <2>2. OwnOK'
    <3>1. \A k \in DOMAIN objs : objs[k].blind
      BY <1>1 DEF SavedInv, OwnOK, Own
    <3>2. \A k \in DOMAIN objs : k[2] = "loaded" => Backed(k)'
      BY <1>3, <1>7 DEF SavedInv, OwnOK, Backed
    <3> QED BY <1>7, <3>1, <3>2 DEF OwnOK
  <2> QED BY <1>4, <1>5, <2>1, <2>2 DEF SavedInv
<1> QED BY <1>1, <1>6, <1>7

LEMMA SavedDelete ==
  ASSUME BaseInv, SavedInv, DeleteLegacy
  PROVE  SavedInv'
<1>1. /\ legacy' \in {legacy, Nothing} /\ UNCHANGED <<buckets, saved, lost>> /\ phase = "delete"
      /\ \/ UNCHANGED <<plan, objs, instns, nextid>> /\ phase' = "list"
         \/ Dies
  BY DEF DeleteLegacy, Loading
<1>2. DOMAIN legacy \subseteq DOMAIN buckets
  BY <1>1 DEF SavedInv, PhaseOK
<1>3. LegacyOK'
  BY <1>1 DEF SavedInv, LegacyOK, Nothing
<1>4. SavedOK'
  <2>1. DOMAIN saved' \subseteq DOMAIN buckets' \cup DOMAIN legacy'
    BY <1>1, <1>2 DEF SavedInv, SavedOK
  <2>2. ASSUME NEW id \in DOMAIN saved \ lost PROVE Intact(id)'
    <3>1. id \in DOMAIN buckets /\ buckets[id].by = saved[id]
      BY <1>2 DEF SavedInv, SavedOK, Intact, Has
    <3> QED BY <1>1, <3>1 DEF Intact, Has
  <2> QED BY <1>1, <2>1, <2>2 DEF SavedOK
<1>5. CASE Dies
  BY <1>3, <1>4, <1>5, DiesGone, SavedGone
<1>6. CASE UNCHANGED <<plan, objs, instns, nextid>> /\ phase' = "list"
  <2>1. OwnOK'
    BY <1>1, <1>6 DEF SavedInv, OwnOK, Own, Backed
  <2> QED BY <1>3, <1>4, <1>6, <2>1 DEF SavedInv, PhaseOK
<1> QED BY <1>1, <1>5, <1>6


LEMMA SavedFetch ==
  ASSUME BaseInv, SavedInv, Fetch
  PROVE  SavedInv'
<1>0. ObjectsInv /\ DOMAIN buckets \subseteq Ids
  BY DEF BaseInv, PartsInv, BucketsInv
<1>1. PICK some \in SUBSET DOMAIN plan :
        /\ objs' = Merged([k \in {<<id, "loaded">> : id \in some} |->
                               Loaded(k[1], buckets[k[1]])], objs)
        /\ instns' = Merged([id \in some |-> "loaded"], instns)
        /\ nextid' = IdsAfter(some) /\ unread' = DOMAIN plan \ some
        /\ phase = "fetch" /\ phase' = "up" /\ UNCHANGED stash
  BY DEF Fetch
<1>2. /\ DOMAIN plan \subseteq DOMAIN buckets /\ Accounted(DOMAIN plan) /\ DOMAIN legacy = {}
      /\ some \subseteq DOMAIN buckets
  BY <1>1 DEF SavedInv, PhaseOK
<1>3. some \subseteq Ids
  BY <1>0, <1>2
<1>4. /\ \A s \in Scopes : nextid[s] <= nextid'[s] /\ nextid[s] \in Nat /\ nextid'[s] \in Nat
      /\ \A id \in some : id[2] < nextid'[id[1]]
  BY <1>0, <1>1, <1>3, IdsAfterIs DEF ObjectsInv, Fresh
<1>5. ASSUME NEW id \in Ids, id[2] < nextid[id[1]] PROVE id[2] < nextid'[id[1]]
  <2>1. id[1] \in Scopes /\ id[2] \in Nat
    BY DEF Ids
  <2> QED BY <1>4, <1>5, <2>1
<1>6. DOMAIN instns' = DOMAIN instns \cup some
  BY <1>1 DEF Merged, Has
<1>7. Accounted(unread)'
  <2>1. DOMAIN saved' \subseteq unread' \cup DOMAIN instns'
    BY <1>1, <1>2, <1>6 DEF Accounted, stash
  <2>2. ASSUME NEW id \in DOMAIN buckets PROVE id \in unread' \/ id[2] < nextid'[id[1]]
    <3>1. id \in Ids /\ (id \in DOMAIN plan \/ id[2] < nextid[id[1]])
      BY <1>0, <1>2 DEF Accounted
    <3> QED BY <1>1, <1>4, <1>5, <3>1
  <2> QED BY <1>1, <2>1, <2>2 DEF Accounted, stash
<1>8. LegacyOK' /\ SavedOK' /\ PhaseOK'
  BY <1>1, <1>2, <1>7 DEF SavedInv, LegacyOK, SavedOK, PhaseOK, Intact, stash
<1>9. OwnOK'
  <2> DEFINE new == {<<id, "loaded">> : id \in some}
  <2>1. /\ DOMAIN objs' = new \cup DOMAIN objs
        /\ \A k \in new : objs'[k] = Loaded(k[1], buckets[k[1]])
        /\ \A k \in DOMAIN objs \ new : objs'[k] = objs[k]
    BY <1>1 DEF Merged, Has
  <2>2. \A k \in new : k[2] = "loaded" /\ k[1] \in some
    OBVIOUS
  <2> HIDE DEF new
  <2>3. ASSUME NEW k \in new PROVE (~objs'[k].blind => Own(k)') /\ Backed(k)'
    <3>1. objs'[k].by = buckets[k[1]].by
      BY <2>1 DEF Loaded, Instn
    <3>2. k[1] \in DOMAIN saved \ lost => saved[k[1]] = buckets[k[1]].by
      BY <1>2 DEF SavedInv, SavedOK, Intact, Has
    <3>3. Backed(k)'
      BY <1>1, <1>2, <1>4, <2>2 DEF Backed, stash
    <3> QED BY <1>1, <2>2, <3>1, <3>2, <3>3 DEF Own, stash
  <2>4. ASSUME NEW k \in DOMAIN objs \ new
        PROVE  objs'[k].blind /\ (k[2] = "loaded" => Backed(k)')
    <3>1. objs[k].blind
      BY <1>1 DEF SavedInv, OwnOK, Own
    <3>2. k[2] = "loaded" => Backed(k)
      BY DEF SavedInv, OwnOK
    <3>3. k[1] \in Ids
      BY <1>0 DEF ObjectsInv, Keys
    <3>4. k[2] = "loaded" => Backed(k)'
      BY <1>1, <1>5, <3>2, <3>3 DEF Backed, stash
    <3> QED BY <2>1, <3>1, <3>4
  <2> QED BY <2>1, <2>3, <2>4 DEF OwnOK
<1> QED BY <1>8, <1>9 DEF SavedInv

\* A bucket is put for an object, and it may be that its creation is thereby complete.
LEMMA SavedPuts ==
  ASSUME BaseInv, SavedInv, NEW k \in DOMAIN objs, Puts(k),
         DOMAIN objs' \subseteq DOMAIN objs, k[2] = "loaded" => k \in DOMAIN objs',
         \A q \in DOMAIN objs' : objs'[q].by = objs[q].by /\ objs'[q].blind = objs[q].blind,
         \/ UNCHANGED <<saved, instns>>
         \/ saved' = Merged(saved, Single(k[1], objs[k].by))
            /\ instns' = Updated(instns, k[1], "made") /\ k[2] = "made",
         UNCHANGED <<phase, plan, nextid, unread, legacy>>
  PROVE  SavedInv'
<1> DEFINE i == k[1]
           by == objs[k].by
<1>0. ObjectsInv /\ k \in Keys /\ Object(k, objs[k])
  BY DEF BaseInv, PartsInv, ObjectsInv
<1>1. /\ DOMAIN buckets' = DOMAIN buckets \cup {i} /\ buckets'[i].by = by
      /\ \A id \in DOMAIN buckets \ {i} : buckets'[id] = buckets[id]
      /\ lost' = IF objs[k].blind /\ Others(k) THEN lost \cup {i} ELSE lost
  <2>1. Conf(objs[k]).by = objs[k].by
    BY DEF Conf
  <2> QED BY <2>1, PutsIs
<1>2. /\ DOMAIN saved \subseteq DOMAIN saved' /\ DOMAIN saved' \subseteq DOMAIN saved \cup {i}
      /\ \A id \in DOMAIN saved : saved'[id] = saved[id]
      /\ i \in DOMAIN saved' /\ i \notin DOMAIN saved => saved'[i] = by
  BY DEF Merged, Single, Has
<1>3. /\ DOMAIN instns \subseteq DOMAIN instns'
      /\ i \in DOMAIN saved' => i \in DOMAIN saved \/ i \in DOMAIN instns'
  BY DEF Updated, Merged, Single, Has
<1>4. lost \subseteq lost' /\ lost' \subseteq lost \cup {i}
  BY <1>1
<1>5. i \in Ids /\ i[2] < nextid[i[1]]
  <2>1. i \in Ids /\ (k[2] = "made" \/ k[2] = "loaded")
    BY <1>0 DEF Keys
  <2>2. k[2] = "loaded" => Backed(k)
    BY DEF SavedInv, OwnOK
  <2> QED BY <2>1, <2>2, <1>0 DEF Backed, ObjectsInv, Fresh
<1>6. i \notin lost' => /\ i \in DOMAIN saved => saved[i] = by
                        /\ i \in DOMAIN buckets => buckets[i].by = by
  <2>1. CASE objs[k].blind
    BY <1>1, <2>1 DEF Others, Has
  <2>2. CASE ~objs[k].blind
    BY <1>4, <2>2 DEF SavedInv, OwnOK, Own
  <2> QED BY <2>1, <2>2
<1>7. ASSUME NEW q \in DOMAIN objs, ~objs[q].blind, q[1] = i, i \notin lost'
      PROVE  objs[q].by = by
  <2>1. CASE q = k
    BY <2>1
  <2>2. CASE q # k
    <3>1. Own(q)
      BY <1>7 DEF SavedInv, OwnOK
    <3>2. q = <<i, q[2]>> /\ k = <<i, k[2]>>
          /\ q[2] \in {"made", "loaded"} /\ k[2] \in {"made", "loaded"}
      BY <1>0, <1>7 DEF ObjectsInv, Keys
    <3>3. q[2] = "loaded"
      <4>1. q[2] = "made" => k[2] = "loaded"
        BY <2>2, <3>2
      <4>2. q[2] = "made" => <<i, "loaded">> \notin DOMAIN objs
        BY <1>7, <3>1 DEF Own
      <4> QED BY <3>2, <4>1, <4>2
    <3>4. i \in DOMAIN buckets
      BY <1>7, <3>3 DEF SavedInv, OwnOK, Backed
    <3> QED BY <1>4, <1>6, <1>7, <3>1, <3>4 DEF Own
  <2> QED BY <2>1, <2>2
<1> HIDE DEF i, by
<1>8. LegacyOK'
  BY <1>2, <1>4 DEF SavedInv, LegacyOK
<1>9. PhaseOK'
  <2>1. ASSUME NEW S, Accounted(S)
        PROVE  /\ DOMAIN saved' \subseteq S \cup DOMAIN instns'
               /\ \A id \in DOMAIN buckets' : id \in S \/ id[2] < nextid[id[1]]
    BY <1>1, <1>2, <1>3, <1>5, <2>1 DEF Accounted
  <2> QED BY <1>1, <2>1 DEF SavedInv, PhaseOK, Accounted
<1>10. SavedOK'
  <2>1. DOMAIN saved' \subseteq DOMAIN buckets' \cup DOMAIN legacy'
    BY <1>1, <1>2 DEF SavedInv, SavedOK
  <2>2. ASSUME NEW id \in DOMAIN saved' \ lost' PROVE Intact(id)'
    <3>1. CASE id = i
      BY <1>1, <1>2, <1>6, <2>2, <3>1 DEF Intact, Has
    <3>2. CASE id # i
      <4>1. id \in DOMAIN saved \ lost /\ saved'[id] = saved[id]
        BY <1>2, <1>4, <2>2, <3>2
      <4>2. Intact(id)
        BY <4>1 DEF SavedInv, SavedOK
      <4>3. (id \in DOMAIN buckets' <=> id \in DOMAIN buckets)
            /\ (id \in DOMAIN buckets => buckets'[id] = buckets[id])
        BY <1>1, <3>2
      <4> QED BY <4>1, <4>2, <4>3 DEF Intact, Has
    <3> QED BY <3>1, <3>2
  <2> QED BY <2>1, <2>2 DEF SavedOK
<1>11. OwnOK'
  <2> SUFFICES ASSUME NEW q \in DOMAIN objs'
               PROVE  /\ ~objs'[q].blind => Own(q)'
                      /\ q[2] = "loaded" => Backed(q)'
    BY DEF OwnOK
  <2>1. q \in DOMAIN objs /\ objs'[q].by = objs[q].by /\ objs'[q].blind = objs[q].blind
    OBVIOUS
  <2>2. q[2] = "loaded" => Backed(q)'
    BY <1>1, <2>1 DEF SavedInv, OwnOK, Backed
  <2>3. ASSUME ~objs'[q].blind PROVE Own(q)'
    <3>1. Own(q) /\ ~objs[q].blind
      BY <2>1, <2>3 DEF SavedInv, OwnOK
    <3>2. CASE q[1] = i
      <4>1. i \notin lost' => objs[q].by = by
        BY <1>7, <2>1, <3>1, <3>2
      <4>2. i \in DOMAIN saved' \ lost' => saved'[i] = by
        BY <1>2, <1>6
      <4> QED BY <1>1, <2>1, <3>1, <3>2, <4>1, <4>2 DEF Own
    <3>3. CASE q[1] # i
      BY <1>1, <1>2, <1>4, <2>1, <3>1, <3>3 DEF Own
    <3> QED BY <3>2, <3>3
  <2> QED BY <2>2, <2>3
<1> QED BY <1>8, <1>9, <1>10, <1>11 DEF SavedInv

LEMMA SavedSave ==
  ASSUME BaseInv, SavedInv, NEW k \in DOMAIN objs, Save(k)
  PROVE  SavedInv'
<1>1. Steady
  BY SaveSteady DEF Save, BaseInv, PartsInv
<1>2. UNCHANGED <<phase, plan, nextid, unread, legacy, saved, instns>>
  BY DEF Save
<1>3. CASE Puts(k)
  <2>1. /\ DOMAIN objs' = DOMAIN objs
        /\ \A q \in DOMAIN objs' : objs'[q].by = objs[q].by /\ objs'[q].blind = objs[q].blind
    BY <1>1 DEF Steady, Worked, Alike
  <2> QED BY <1>2, <1>3, <2>1, SavedPuts
<1>4. CASE UNCHANGED <<buckets, lost>>
  BY <1>1, <1>2, <1>4, SavedCalm DEF Settled, stash
<1> QED BY <1>3, <1>4 DEF Save, PutFails

LEMMA SavedCreated ==
  ASSUME BaseInv, SavedInv, NEW k \in DOMAIN objs, Created(k)
  PROVE  SavedInv'
<1>0. ObjectsInv /\ Object(k, objs[k])
  BY DEF BaseInv, PartsInv, ObjectsInv
<1>1. k[2] = "made"
  BY <1>0 DEF Created, Starts, Object, Creating, Front
<1>2. UNCHANGED <<phase, plan, nextid, unread, legacy>>
  BY DEF Created
<1>3. CASE /\ Puts(k) /\ instns' = Updated(instns, k[1], "made")
           /\ Set(k, Enqueue(Started(k), <<"zones">>))
           /\ saved' = Merged(saved, Single(k[1], objs[k].by))
  <2>1. Object(k, objs[k]) => /\ Enqueue(Started(k), <<"zones">>).by = objs[k].by
                              /\ Enqueue(Started(k), <<"zones">>).blind = objs[k].blind
    BY DEF Enqueue, Started, Object, Entire
  <2>2. /\ DOMAIN objs' = DOMAIN objs
        /\ \A q \in DOMAIN objs' : objs'[q].by = objs[q].by /\ objs'[q].blind = objs[q].blind
    BY <1>0, <1>3, <2>1 DEF Set
  <2> QED BY <1>1, <1>2, <1>3, <2>2, SavedPuts
<1>4. CASE PutFails(k) /\ objs' = [q \in DOMAIN objs \ {k} |-> objs[q]] /\ UNCHANGED <<instns, saved>>
  <2>1. DOMAIN objs' = DOMAIN objs \ {k} /\ \A q \in DOMAIN objs' : objs'[q] = objs[q]
    BY <1>4
  <2>2. CASE Puts(k)
    BY <1>1, <1>2, <1>4, <2>1, <2>2, SavedPuts
  <2>3. CASE UNCHANGED <<buckets, lost>>
    <3>1. OwnOK'
      BY <1>2, <1>4, <2>1, <2>3 DEF SavedInv, OwnOK, Own, Backed
    <3>2. LegacyOK' /\ PhaseOK' /\ SavedOK'
      BY <1>2, <1>4, <2>3 DEF SavedInv, LegacyOK, PhaseOK, Accounted, SavedOK, Intact
    <3> QED BY <3>1, <3>2 DEF SavedInv
  <2> QED BY <1>4, <2>2, <2>3 DEF PutFails
<1> QED BY <1>3, <1>4 DEF Created

\* An id that is handed out once all buckets are read is that of no bucket.
LEMMA SavedRequested ==
  ASSUME BaseInv, SavedInv, NEW r \in DOMAIN http, NEW c, Requested(r, c)
  PROVE  SavedInv'
<1>0. ObjectsInv /\ DOMAIN buckets \subseteq Ids
  BY DEF BaseInv, PartsInv, BucketsInv
<1>1. UNCHANGED <<phase, plan, instns, unread, legacy, buckets, saved, lost>>
  BY DEF Requested, stash
<1>2. \A s \in Scopes : nextid[s] <= nextid'[s] /\ nextid[s] \in Nat /\ nextid'[s] \in Nat
  <2>1. UNCHANGED nextid \/ \E id \in Ids : TakesId(id)
    BY RequestedMakes DEF Made
  <2>2. Fresh
    BY <1>0 DEF ObjectsInv
  <2>3. CASE UNCHANGED nextid
    BY <2>2, <2>3 DEF Fresh
  <2>4. CASE \E id \in Ids : TakesId(id)
    <3>1. nextid' \in [Scopes -> Nat] /\ \A s \in Scopes : nextid[s] <= nextid'[s]
      BY <2>2, <2>4, TakesIdFresh
    <3> QED BY <2>2, <3>1 DEF Fresh
  <2> QED BY <2>1, <2>3, <2>4
<1>3. ASSUME NEW id \in Ids, id[2] < nextid[id[1]] PROVE id[2] < nextid'[id[1]]
  <2>1. id[1] \in Scopes /\ id[2] \in Nat
    BY DEF Ids
  <2> QED BY <1>2, <1>3, <2>1
<1>4. LegacyOK' /\ SavedOK'
  BY <1>1 DEF SavedInv, LegacyOK, SavedOK, Intact
<1>5. PhaseOK'
  <2>1. \A S : Accounted(S) => \A id \in DOMAIN buckets : id \in S \/ id[2] < nextid'[id[1]]
    BY <1>0, <1>3 DEF Accounted
  <2> QED BY <1>1, <2>1 DEF SavedInv, PhaseOK, Accounted
<1>6. ASSUME NEW k \in DOMAIN objs
      PROVE  /\ k[2] = "loaded" => Backed(k)' /\ <<k[1], "loaded">> \in DOMAIN objs
             /\ ~objs[k].blind => Own(k)
  <2>1. k[1] \in Ids /\ k = <<k[1], k[2]>>
    BY <1>0 DEF ObjectsInv, Keys
  <2>2. k[2] = "loaded" => Backed(k)
    BY DEF SavedInv, OwnOK
  <2> QED BY <1>1, <1>3, <2>1, <2>2 DEF SavedInv, OwnOK, Backed
<1>7. CASE UNCHANGED objs
  <2>1. OwnOK'
    BY <1>1, <1>6, <1>7 DEF OwnOK, Own
  <2> QED BY <1>4, <1>5, <2>1 DEF SavedInv
<1>8. ASSUME NEW id \in Ids, NEW o, Made(r, id, o) PROVE SavedInv'
  <2> DEFINE k == <<id, "made">>
  <2>1. k \notin DOMAIN objs /\ id[2] = nextid[id[1]]
    BY <1>0, <1>8, TakesIdFresh DEF Made, TakesId, ObjectsInv
  <2>2. /\ DOMAIN objs' = DOMAIN objs \cup {k} /\ objs'[k] = o
        /\ \A q \in DOMAIN objs : objs'[q] = objs[q]
    BY <1>8, <2>1 DEF Made, Updated, Merged, Single, Has
  <2>3. o.by = r /\ o.blind = (phase # "up" \/ id \in unread)
    BY <1>8 DEF Made
  <2>4. ~(id[2] < nextid[id[1]])
    <3>1. id[1] \in Scopes
      BY DEF Ids
    <3> QED BY <1>2, <2>1, <3>1
  <2>5. ~o.blind => /\ phase = "up" /\ id \notin DOMAIN buckets /\ id \notin DOMAIN saved
                    /\ <<id, "loaded">> \notin DOMAIN objs
    <3> SUFFICES ASSUME ~o.blind
                 PROVE  /\ phase = "up" /\ id \notin DOMAIN buckets /\ id \notin DOMAIN saved
                        /\ <<id, "loaded">> \notin DOMAIN objs
      OBVIOUS
    <3>1. phase = "up" /\ id \notin unread
      BY <2>3
    <3>2. Accounted(unread) /\ DOMAIN legacy = {}
      BY <3>1 DEF SavedInv, PhaseOK
    <3>3. id \notin DOMAIN buckets
      BY <2>4, <3>1, <3>2 DEF Accounted
    <3>4. id \notin DOMAIN saved
      BY <3>2, <3>3 DEF SavedInv, SavedOK
    <3>5. <<id, "loaded">> \notin DOMAIN objs
      BY <3>3 DEF SavedInv, OwnOK, Backed
    <3> QED BY <3>1, <3>3, <3>4, <3>5
  <2>6. ASSUME NEW q \in DOMAIN objs
        PROVE  (~objs'[q].blind => Own(q)') /\ (q[2] = "loaded" => Backed(q)')
    <3>1. <<q[1], "loaded">> # k
      OBVIOUS
    <3> HIDE DEF k
    <3> QED BY <1>1, <1>6, <2>2, <3>1 DEF Own
  <2>7. ~objs'[k].blind => Own(k)'
    <3>1. k[1] = id /\ <<k[1], "loaded">> # k
      OBVIOUS
    <3> HIDE DEF k
    <3> QED BY <1>1, <2>2, <2>5, <3>1 DEF Own
  <2>8. k[2] # "loaded"
    OBVIOUS
  <2> HIDE DEF k
  <2>9. OwnOK'
    BY <2>2, <2>6, <2>7, <2>8 DEF OwnOK
  <2> QED BY <1>4, <1>5, <2>9 DEF SavedInv
<1> QED BY <1>7, <1>8, RequestedMakes

LEMMA SavedNext ==
  ASSUME BaseInv, SavedInv, [Next]_vars
  PROVE  SavedInv'
<1>1. CASE UNCHANGED vars
  <2>1. Steady /\ Settled /\ UNCHANGED phase
    BY <1>1, Untouched DEF vars, memory, stash, Settled, BaseInv, PartsInv
  <2> QED BY <2>1, SavedCalm
<1>2. CASE Calm
  BY <1>2, SavedCalm DEF Calm
<1>3. CASE Falls /\ UNCHANGED stash
  BY <1>3, SavedGone DEF Falls, stash, SavedInv, LegacyOK, SavedOK, Intact
<1> QED BY <1>1, <1>2, <1>3, Steps, SavedList, SavedPut, SavedDelete, SavedFetch, SavedSave,
           SavedCreated, SavedRequested

LEMMA SavedInit ==
  ASSUME Init
  PROVE  SavedInv
<1>1. PICK s \in Setups : legacy = s.legacy /\ buckets = s.buckets
  BY DEF Init
<1>2. /\ DOMAIN legacy \cap DOMAIN buckets = {}
      /\ \A id \in DOMAIN legacy : legacy[id].by = 0
      /\ \A id \in DOMAIN buckets : buckets[id].by = 0
  BY <1>1, SetupsAssumption, SavedIs
<1>3. /\ saved = [id \in DOMAIN legacy \cup DOMAIN buckets |-> 0] /\ lost = {}
      /\ phase = "down" /\ DOMAIN objs = {}
  BY DEF Init, Nothing
<1>4. LegacyOK
  BY <1>2, <1>3 DEF LegacyOK
<1>5. SavedOK
  BY <1>2, <1>3 DEF SavedOK, Intact, Has
<1> QED BY <1>3, <1>4, <1>5 DEF SavedInv, PhaseOK, OwnOK

\* Whatever fails while what has been saved is migrated and loaded, and however often the
\* service starts anew, it is there, unchanged and in the end loaded; but for what a user's
\* early request has taken, and the buckets that could not be read.
THEOREM SavedSurvives == Spec => []Survives
<1>1. SavedInv => Survives
  BY DEF SavedInv, SavedOK, PhaseOK, Accounted, Survives, Has
<1> QED BY <1>1, SavedInit, SavedNext, Based, PTL DEF Spec



-----------------------------------------------------------------------------
(* Metrics and metadata.  What is defined by recursion on a sequence is a   *)
(* sequence of steps.                                                       *)

WithUpto(metrics, xs, n, f) ==
    f = [i \in 0..n |-> IF i = 0 THEN metrics
                        ELSE addMetric(f[i - 1], Base(xs[i]), xs[i].fields)]

LEMMA WithExists ==
  ASSUME NEW metrics, NEW xs, NEW n \in Nat
  PROVE  \E f : WithUpto(metrics, xs, n, f)
<1> DEFINE Fun(m, f) == WithUpto(metrics, xs, m, f)
           T == {m \in Nat : \A f : ~Fun(m, f)}
<1>1. SUFFICES ASSUME n \in T PROVE FALSE
  OBVIOUS
<1>2. PICK m \in T : \A k \in T : m <= k
  <2>1. T \in SUBSET Nat /\ T # {}
    BY <1>1
  <2> HIDE DEF T
  <2> QED BY <2>1, Least
<1>3. m \in Nat /\ \A f : ~Fun(m, f)
  OBVIOUS
<1>4. CASE m = 0
  <2>1. Fun(m, [i \in 0..0 |-> metrics])
    BY <1>4 DEF WithUpto
  <2> QED BY <1>3, <2>1
<1>5. CASE m # 0
  <2>1. m - 1 \in Nat /\ m - 1 \notin T
    <3> HIDE DEF T
    <3> QED BY <1>2, <1>3, <1>5
  <2>2. PICK f : Fun(m - 1, f)
    BY <2>1
  <2> DEFINE x == addMetric(f[m - 1], Base(xs[m]), xs[m].fields)
             g == [i \in 0..m |-> IF i = m THEN x ELSE f[i]]
  <2>3. ASSUME NEW i \in 0..m
        PROVE  g[i] = IF i = 0 THEN metrics ELSE addMetric(g[i - 1], Base(xs[i]), xs[i].fields)
    <3>1. CASE i = m
      <4>1. g[i] = x /\ g[m - 1] = f[m - 1]
        BY <1>3, <1>5, <3>1
      <4> QED BY <1>5, <3>1, <4>1
    <3>2. CASE i # m
      <4>1. g[i] = f[i] /\ i \in 0..(m - 1) /\ (i # 0 => g[i - 1] = f[i - 1])
        BY <1>3, <3>2
      <4> QED BY <2>2, <4>1 DEF WithUpto
    <3> QED BY <3>1, <3>2
  <2>4. g = [i \in 0..m |-> g[i]]
    OBVIOUS
  <2> HIDE DEF g
  <2>5. Fun(m, g)
    BY <2>3, <2>4 DEF WithUpto
  <2> QED BY <1>3, <2>5
<1> QED BY <1>4, <1>5

LEMMA WithSteps ==
  ASSUME NEW metrics, NEW xs, Len(xs) \in Nat
  PROVE  \E f : /\ f[0] = metrics /\ f[Len(xs)] = With(metrics, xs)
                /\ \A i \in 1..Len(xs) : f[i] = addMetric(f[i - 1], Base(xs[i]), xs[i].fields)
<1> DEFINE f == CHOOSE g : WithUpto(metrics, xs, Len(xs), g)
<1>1. WithUpto(metrics, xs, Len(xs), f)
  BY WithExists
<1>2. With(metrics, xs) = f[Len(xs)]
  BY DEF With, WithUpto
<1> HIDE DEF f
<1>3. f[0] = metrics /\ \A i \in 1..Len(xs) : f[i] = addMetric(f[i - 1], Base(xs[i]), xs[i].fields)
  BY <1>1 DEF WithUpto
<1> QED BY <1>2, <1>3

\* The metrics of a set, and their fields, are those it had before and those added.
LEMMA WithIs ==
  ASSUME NEW metrics, NEW xs, Len(xs) \in Nat
  PROVE  /\ DOMAIN With(metrics, xs) \subseteq DOMAIN metrics \cup {Base(xs[i]) : i \in 1..Len(xs)}
         /\ \A base \in DOMAIN With(metrics, xs) : \A f \in With(metrics, xs)[base] :
                \/ base \in DOMAIN metrics /\ f \in metrics[base]
                \/ \E i \in 1..Len(xs) : base = Base(xs[i]) /\ f \in xs[i].fields
<1>1. PICK up : /\ up[0] = metrics /\ up[Len(xs)] = With(metrics, xs)
                /\ \A i \in 1..Len(xs) : up[i] = addMetric(up[i - 1], Base(xs[i]), xs[i].fields)
  BY WithSteps
<1> DEFINE From(base, f, n) == \/ base \in DOMAIN metrics /\ f \in metrics[base]
                               \/ \E i \in 1..n : base = Base(xs[i]) /\ f \in xs[i].fields
           Good(n) == /\ DOMAIN up[n] \subseteq DOMAIN metrics \cup {Base(xs[i]) : i \in 1..n}
                      /\ \A base \in DOMAIN up[n] : \A f \in up[n][base] : From(base, f, n)
           T == {n \in 0..Len(xs) : ~Good(n)}
<1>2. T = {}
  <2> SUFFICES ASSUME T # {} PROVE FALSE
    OBVIOUS
  <2>1. PICK n \in T : \A k \in T : n <= k
    <3>1. T \in SUBSET Nat
      OBVIOUS
    <3> HIDE DEF T
    <3> QED BY <3>1, Least
  <2>2. n \in 0..Len(xs) /\ ~Good(n)
    OBVIOUS
  <2>3. CASE n = 0
    BY <1>1, <2>2, <2>3
  <2>4. CASE n # 0
    <3>1. n - 1 \in 0..Len(xs) /\ n - 1 \notin T /\ n \in 1..Len(xs)
      <4>1. n - 1 \in 0..Len(xs) /\ n \in 1..Len(xs)
        BY <2>2, <2>4
      <4> HIDE DEF T
      <4> QED BY <2>1, <2>2, <4>1
    <3>2. Good(n - 1)
      BY <3>1
    <3> HIDE DEF T
    <3> DEFINE key == Base(xs[n])
    <3>3. /\ DOMAIN up[n] = DOMAIN up[n - 1] \cup {key}
          /\ \A base \in DOMAIN up[n] : base # key => up[n][base] = up[n - 1][base]
          /\ up[n][key] = xs[n].fields \cup IF key \in DOMAIN up[n - 1] THEN up[n - 1][key] ELSE {}
      <4>1. up[n] = addMetric(up[n - 1], key, xs[n].fields)
        BY <1>1, <3>1
      <4> DEFINE old == up[n - 1]
                 fields == xs[n].fields
                 new == up[n]
      <4>2. new = addMetric(old, key, fields)
        BY <4>1
      <4> HIDE DEF key, old, fields, new
      <4>3. /\ DOMAIN new = DOMAIN old \cup {key}
            /\ \A base \in DOMAIN new : base # key => new[base] = old[base]
            /\ new[key] = fields \cup IF key \in DOMAIN old THEN old[key] ELSE {}
        BY <4>2 DEF addMetric, Updated, Merged, Single, Has
      <4> QED BY <4>3 DEF old, fields, new
    <3> HIDE DEF key
    <3>4. \A i \in 1..(n - 1) : i \in 1..n
      BY <3>1
    <3>5. \A base, f : From(base, f, n - 1) => From(base, f, n)
      BY <3>4
    <3>6. \A f \in xs[n].fields : From(key, f, n)
      BY <3>1 DEF key
    <3>7. ASSUME NEW base \in DOMAIN up[n], NEW f \in up[n][base] PROVE From(base, f, n)
      <4>1. CASE base \in DOMAIN up[n - 1] /\ f \in up[n - 1][base]
        BY <3>2, <3>5, <4>1
      <4>2. CASE base = key /\ f \in xs[n].fields
        BY <3>6, <4>2
      <4> HIDE DEF From, Good
      <4> QED BY <3>3, <3>7, <4>1, <4>2
    <3>8. DOMAIN up[n] \subseteq DOMAIN metrics \cup {Base(xs[i]) : i \in 1..n}
      <4>1. key \in {Base(xs[i]) : i \in 1..n}
        BY <3>1 DEF key
      <4>2. DOMAIN up[n - 1] \subseteq DOMAIN metrics \cup {Base(xs[i]) : i \in 1..n}
        BY <3>2, <3>4
      <4> QED BY <3>3, <4>1, <4>2
    <3> QED BY <2>2, <3>7, <3>8
  <2> QED BY <2>3, <2>4
<1>3. Good(Len(xs))
  BY <1>2
<1> QED BY <1>1, <1>3


\* What is known of metrics grows: names are not forgotten, what they mean does not change,
\* and a problem stays one.
Md(m) == m \in [types : {m.types}, fields : {m.fields}, modules : {m.modules},
                metrics : {m.metrics}, ok : BOOLEAN]
Akin(old, new) ==
    DOMAIN new = DOMAIN old /\ \A key \in {"type", "unit"} : Has(old, key) => new[key] = old[key]
Grows(m, n) ==
    /\ Md(n) /\ (n.ok => m.ok)
    /\ DOMAIN m.types \subseteq DOMAIN n.types
    /\ DOMAIN m.fields \subseteq DOMAIN n.fields
    /\ \A f \in DOMAIN m.fields : n.fields[f] = m.fields[f]
    /\ DOMAIN m.modules \subseteq DOMAIN n.modules
    /\ DOMAIN m.metrics \subseteq DOMAIN n.metrics
    /\ \A base \in DOMAIN m.metrics : Akin(m.metrics[base], n.metrics[base])

\* A metric has a module, and a unit or a known type.
Measured(m, x) ==
    /\ Has(x, "fields")
    /\ Has(m.metrics, Base(x)) /\ Has(m.modules, x.module)
    /\ Measurable(m, m.metrics[Base(x)])

LEMMA GrowsStays ==
  ASSUME NEW m, Md(m) PROVE Grows(m, m)
BY DEF Grows, Akin, Has

LEMMA GrowsOn ==
  ASSUME NEW m, NEW n, NEW o, Grows(m, n), Grows(n, o)
  PROVE  Grows(m, o)
<1>1. ASSUME NEW base \in DOMAIN m.metrics
      PROVE  Akin(m.metrics[base], o.metrics[base])
  <2>1. Akin(m.metrics[base], n.metrics[base]) /\ Akin(n.metrics[base], o.metrics[base])
    BY DEF Grows
  <2> QED BY <2>1 DEF Akin, Has
<1> QED BY <1>1 DEF Grows

LEMMA MeasuredStays ==
  ASSUME NEW m, NEW n, Grows(m, n), NEW x, Measured(m, x)
  PROVE  Measured(n, x)
<1> DEFINE key == Base(x)
<1>1. Akin(m.metrics[key], n.metrics[key]) /\ key \in DOMAIN n.metrics
  BY DEF Grows, Measured, Has
<1> HIDE DEF key
<1>2. DOMAIN m.types \subseteq DOMAIN n.types /\ DOMAIN m.modules \subseteq DOMAIN n.modules
  BY DEF Grows
<1> QED BY <1>1, <1>2 DEF Measured, Measurable, Akin, Has, key

LEMMA AddMetricGrows ==
  ASSUME NEW m, Md(m), NEW x
  PROVE  LET n == caAddMetric(m, x) IN Grows(m, n) /\ (n.ok => Measured(n, x))
<1> DEFINE new == Merged(x, [interval |-> "interval"])
           key == Base(x)
           sound == SoundMetric(m, x) /\ new.interval \in {"interval", "point"}
           old == Upgrade(m.metrics[key], new)
           n == caAddMetric(m, x)
<1> SUFFICES Grows(m, n) /\ (n.ok => Measured(n, x))
  OBVIOUS
<1>0. m \in [types : {m.types}, fields : {m.fields}, modules : {m.modules},
             metrics : {m.metrics}, ok : BOOLEAN] /\ sound \in BOOLEAN
  BY DEF Md
<1>1. CASE ~({"module", "stat", "label", "fields"} \subseteq DOMAIN x)
  <2>1. n = [m EXCEPT !.ok = FALSE]
    BY <1>1 DEF caAddMetric
  <2> HIDE DEF n
  <2> QED BY <1>0, <2>1 DEF Grows, Akin, Md, Has
<1>2. CASE {"module", "stat", "label", "fields"} \subseteq DOMAIN x /\ ~Has(m.metrics, key)
  <2>1. n = [m EXCEPT !.metrics = Updated(m.metrics, key, new), !.ok = m.ok /\ sound]
    BY <1>2 DEF caAddMetric
  <2>2. /\ "type" \in DOMAIN x <=> "type" \in DOMAIN new
        /\ "type" \in DOMAIN x => new.type = x.type
        /\ "unit" \in DOMAIN x <=> "unit" \in DOMAIN new
    BY DEF Merged, Has
  <2>3. sound => /\ "unit" \in DOMAIN x \/ "type" \in DOMAIN x
                 /\ x.module \in DOMAIN m.modules
                 /\ "type" \in DOMAIN x => x.type \in DOMAIN m.types
    BY DEF SoundMetric, Measurable, Has
  <2> HIDE DEF n, new, key, sound
  <2>4. /\ DOMAIN Updated(m.metrics, key, new) = DOMAIN m.metrics \cup {key}
        /\ Updated(m.metrics, key, new)[key] = new
        /\ \A base \in DOMAIN m.metrics : Updated(m.metrics, key, new)[base] = m.metrics[base]
    BY <1>2 DEF Updated, Merged, Single, Has
  <2>5. Grows(m, n)
    BY <1>0, <2>1, <2>4 DEF Grows, Akin, Md, Has
  <2>6. n.ok => Measured(n, x)
    <3>1. n.metrics[key] = new /\ key \in DOMAIN n.metrics /\ (n.ok => sound)
          /\ n.modules = m.modules /\ n.types = m.types
      BY <1>0, <2>1, <2>4
    <3>2. "fields" \in DOMAIN x
      BY <1>2
    <3> QED BY <2>2, <2>3, <3>1, <3>2 DEF Measured, Measurable, Has, key
  <2> QED BY <2>5, <2>6
<1>3. Has(m.metrics, key) => Akin(m.metrics[key], old)
  BY DEF Upgrade, Akin, Has
<1>4. CASE /\ {"module", "stat", "label", "fields"} \subseteq DOMAIN x /\ Has(m.metrics, key)
           /\ ~Same(old, new)
  <2>1. n = [m EXCEPT !.metrics[key] = old, !.ok = FALSE]
    BY <1>4 DEF caAddMetric
  <2>2. \A f : Akin(f, f)
    BY DEF Akin
  <2> HIDE DEF n, new, key, old
  <2> QED BY <1>0, <1>3, <1>4, <2>1, <2>2 DEF Grows, Md, Has
<1>5. CASE /\ {"module", "stat", "label", "fields"} \subseteq DOMAIN x /\ Has(m.metrics, key)
           /\ Same(old, new)
  <2>1. n = [m EXCEPT !.metrics[key] = Merge(old, new), !.ok = m.ok /\ sound]
    BY <1>5 DEF caAddMetric
  <2>2. \A f : Akin(f, f)
    BY DEF Akin
  <2>3. Akin(old, Merge(old, new))
    BY DEF Merge, Akin, Has
  <2>4. Akin(m.metrics[key], Merge(old, new))
    <3> HIDE DEF old, new
    <3> QED BY <1>3, <1>5, <2>3 DEF Akin, Has
  <2>5. /\ "type" \in DOMAIN x <=> "type" \in DOMAIN new
        /\ "type" \in DOMAIN x => new.type = x.type
        /\ "unit" \in DOMAIN x <=> "unit" \in DOMAIN new
    BY DEF Merged, Has
  <2>6. sound => /\ "unit" \in DOMAIN x \/ "type" \in DOMAIN x
                 /\ x.module \in DOMAIN m.modules
                 /\ "type" \in DOMAIN x => x.type \in DOMAIN m.types
    BY DEF SoundMetric, Measurable, Has
  <2>7. \A p \in {"type", "unit"} : /\ p \in DOMAIN new <=> p \in DOMAIN old
                                    /\ p \in DOMAIN new => old[p] = new[p]
    <3> HIDE DEF old, new
    <3>1. \A p \in {"type", "unit"} : Opt(old, p) = Opt(new, p)
      BY <1>5 DEF Same
    <3> QED BY <3>1 DEF Opt, Has
  <2> HIDE DEF n, new, key, old, sound
  <2>8. Grows(m, n)
    BY <1>0, <1>5, <2>1, <2>2, <2>4 DEF Grows, Md, Has
  <2>9. n.ok => Measured(n, x)
    <3>1. n.metrics[key] = Merge(old, new) /\ key \in DOMAIN n.metrics /\ (n.ok => sound)
          /\ n.modules = m.modules /\ n.types = m.types
      BY <1>0, <1>5, <2>1 DEF Has
    <3>2. "fields" \in DOMAIN x
      BY <1>5
    <3>3. \A p \in {"type", "unit"} :
              /\ p \in DOMAIN new <=> p \in DOMAIN Merge(old, new)
              /\ p \in DOMAIN new => Merge(old, new)[p] = new[p]
      BY <2>3, <2>7 DEF Akin, Has
    <3> QED BY <2>5, <2>6, <3>1, <3>2, <3>3 DEF Measured, Measurable, Has, key
  <2> QED BY <2>8, <2>9
<1> QED BY <1>1, <1>2, <1>4, <1>5


MetricsUpto(md0, xs, n, f) ==
    f = [i \in 0..n |-> IF i = 0 THEN md0 ELSE caAddMetric(f[i - 1], xs[i])]

LEMMA MetricsExist ==
  ASSUME NEW md0, NEW xs, NEW n \in Nat
  PROVE  \E f : MetricsUpto(md0, xs, n, f)
<1> DEFINE Fun(m, f) == MetricsUpto(md0, xs, m, f)
           T == {m \in Nat : \A f : ~Fun(m, f)}
<1>1. SUFFICES ASSUME n \in T PROVE FALSE
  OBVIOUS
<1>2. PICK m \in T : \A k \in T : m <= k
  <2>1. T \in SUBSET Nat /\ T # {}
    BY <1>1
  <2> HIDE DEF T
  <2> QED BY <2>1, Least
<1>3. m \in Nat /\ \A f : ~Fun(m, f)
  OBVIOUS
<1>4. CASE m = 0
  <2>1. Fun(m, [i \in 0..0 |-> md0])
    BY <1>4 DEF MetricsUpto
  <2> QED BY <1>3, <2>1
<1>5. CASE m # 0
  <2>1. m - 1 \in Nat /\ m - 1 \notin T
    <3> HIDE DEF T
    <3> QED BY <1>2, <1>3, <1>5
  <2>2. PICK f : Fun(m - 1, f)
    BY <2>1
  <2> DEFINE x == caAddMetric(f[m - 1], xs[m])
             g == [i \in 0..m |-> IF i = m THEN x ELSE f[i]]
  <2>3. ASSUME NEW i \in 0..m
        PROVE  g[i] = IF i = 0 THEN md0 ELSE caAddMetric(g[i - 1], xs[i])
    <3>1. CASE i = m
      <4>1. g[i] = x /\ g[m - 1] = f[m - 1]
        BY <1>3, <1>5, <3>1
      <4> QED BY <1>5, <3>1, <4>1
    <3>2. CASE i # m
      <4>1. g[i] = f[i] /\ i \in 0..(m - 1) /\ (i # 0 => g[i - 1] = f[i - 1])
        BY <1>3, <3>2
      <4> QED BY <2>2, <4>1 DEF MetricsUpto
    <3> QED BY <3>1, <3>2
  <2>4. g = [i \in 0..m |-> g[i]]
    OBVIOUS
  <2> HIDE DEF g
  <2>5. Fun(m, g)
    BY <2>3, <2>4 DEF MetricsUpto
  <2> QED BY <1>3, <2>5
<1> QED BY <1>4, <1>5

Adding(m, xs, f) ==
    /\ f[0] = m /\ f[Len(xs)] = addMetrics(m, xs)
    /\ \A i \in 1..Len(xs) : f[i] = caAddMetric(f[i - 1], xs[i])

LEMMA MetricsSteps ==
  ASSUME NEW m, NEW xs, Len(xs) \in Nat
  PROVE  \E f : Adding(m, xs, f)
<1> DEFINE f == CHOOSE g : MetricsUpto(m, xs, Len(xs), g)
<1>1. MetricsUpto(m, xs, Len(xs), f)
  BY MetricsExist
<1>2. addMetrics(m, xs) = f[Len(xs)]
  BY DEF addMetrics, MetricsUpto
<1> HIDE DEF f
<1>3. f[0] = m /\ \A i \in 1..Len(xs) : f[i] = caAddMetric(f[i - 1], xs[i])
  BY <1>1 DEF MetricsUpto
<1> QED BY <1>2, <1>3 DEF Adding

LEMMA MetricsGrow ==
  ASSUME NEW m, Md(m), NEW xs, Len(xs) \in Nat
  PROVE  LET n == addMetrics(m, xs)
         IN  Grows(m, n) /\ (n.ok => \A i \in 1..Len(xs) : Measured(n, xs[i]))
<1>0. PICK up : Adding(m, xs, up)
  BY MetricsSteps
<1>1. /\ up[0] = m /\ up[Len(xs)] = addMetrics(m, xs)
      /\ \A i \in 1..Len(xs) : up[i] = caAddMetric(up[i - 1], xs[i])
  BY <1>0 DEF Adding
<1> DEFINE Good(n) == Grows(m, up[n]) /\ (up[n].ok => \A i \in 1..n : Measured(up[n], xs[i]))
           T == {n \in 0..Len(xs) : ~Good(n)}
<1>2. T = {}
  <2> SUFFICES ASSUME T # {} PROVE FALSE
    OBVIOUS
  <2>1. PICK n \in T : \A k \in T : n <= k
    <3>1. T \in SUBSET Nat
      OBVIOUS
    <3> HIDE DEF T
    <3> QED BY <3>1, Least
  <2>2. n \in 0..Len(xs) /\ ~Good(n)
    OBVIOUS
  <2>3. CASE n = 0
    BY <1>1, <2>2, <2>3, GrowsStays
  <2>4. CASE n # 0
    <3>1. n - 1 \in 0..Len(xs) /\ n - 1 \notin T /\ n \in 1..Len(xs)
      <4>1. n - 1 \in 0..Len(xs) /\ n \in 1..Len(xs)
        BY <2>2, <2>4
      <4> HIDE DEF T
      <4> QED BY <2>1, <2>2, <4>1
    <3>2. Good(n - 1)
      BY <3>1
    <3> HIDE DEF T
    <3> DEFINE old == up[n - 1]
               x == xs[n]
               new == up[n]
    <3>3. new = caAddMetric(old, x)
      BY <1>1, <3>1
    <3>4. Grows(m, old) /\ Md(old) /\ (old.ok => \A i \in 1..(n - 1) : Measured(old, xs[i]))
      BY <3>2 DEF Grows
    <3> HIDE DEF old, x, new
    <3>5. Grows(old, new) /\ (new.ok => Measured(new, x))
      BY <3>3, <3>4, AddMetricGrows
    <3>6. Grows(m, new)
      BY <3>4, <3>5, GrowsOn
    <3>7. ASSUME new.ok, NEW i \in 1..n PROVE Measured(new, xs[i])
      <4>1. CASE i = n
        BY <3>5, <3>7, <4>1 DEF x
      <4>2. CASE i # n
        <5>1. i \in 1..(n - 1)
          BY <3>1, <4>2
        <5>2. old.ok
          BY <3>5, <3>7 DEF Grows
        <5> QED BY <3>4, <3>5, <5>1, <5>2, MeasuredStays
      <4> QED BY <4>1, <4>2
    <3>8. Good(n)
      BY <3>6, <3>7 DEF new
    <3> QED BY <2>2, <3>8
  <2> QED BY <2>3, <2>4
<1>3. Good(Len(xs))
  BY <1>2
<1> QED BY <1>1, <1>3

\* The groups of a document.
LEMMA TypesGrow ==
  ASSUME NEW m, Md(m), NEW group PROVE Grows(m, addTypes(m, group))
<1> DEFINE new == [n \in DOMAIN Having(group, "arity") |->
                       Merged(Having(group, "arity")[n], [unit |-> ""])]
           n == addTypes(m, group)
<1> SUFFICES Grows(m, n)
  OBVIOUS
<1>1. \E b \in BOOLEAN : n = [m EXCEPT !.types = insert(m.types, new), !.ok = m.ok /\ b]
  BY DEF addTypes
<1>2. DOMAIN m.types \subseteq DOMAIN insert(m.types, new)
  BY DEF insert, Merged
<1> HIDE DEF n, new
<1> QED BY <1>1, <1>2 DEF Md, Grows, Akin, Has

LEMMA ModulesGrow ==
  ASSUME NEW m, Md(m), NEW group PROVE Grows(m, addModules(m, group))
<1> DEFINE new == Having(group, "label")
           n == addModules(m, group)
<1> SUFFICES Grows(m, n)
  OBVIOUS
<1>1. \E b \in BOOLEAN : n = [m EXCEPT !.modules = insert(m.modules, new), !.ok = m.ok /\ b]
  BY DEF addModules
<1>2. DOMAIN m.modules \subseteq DOMAIN insert(m.modules, new)
  BY DEF insert, Merged
<1> HIDE DEF n, new
<1> QED BY <1>1, <1>2 DEF Md, Grows, Akin, Has

\* A field has a type that is known.
Typed(m, f) == Has(m.fields, f) /\ Has(m.types, fieldType(m, f))
LEMMA TypedStays ==
  ASSUME NEW m, NEW n, Grows(m, n), NEW f, Typed(m, f)
  PROVE  Typed(n, f)
BY DEF Grows, Typed, fieldType, Has

LEMMA FieldsGrow ==
  ASSUME NEW m, Md(m), Has(m.types, "string"), NEW group
  PROVE  LET n == addFields(m, group)
         IN  Grows(m, n) /\ (n.ok => \A f \in DOMAIN group : Typed(n, f))
<1> DEFINE n == addFields(m, group)
           new == insert(m.fields, group)
<1> SUFFICES Grows(m, n) /\ (n.ok => \A f \in DOMAIN group : Typed(n, f))
  OBVIOUS
<1>1. \E b \in BOOLEAN : /\ n = [m EXCEPT !.fields = new, !.ok = m.ok /\ b]
                         /\ b => /\ \A f \in DOMAIN group :
                                        Has(group[f], "type") => Has(m.types, group[f].type)
                                 /\ ~Conflicts(m.fields, group)
  BY DEF addFields
<1>2. /\ DOMAIN new = DOMAIN m.fields \cup DOMAIN group
      /\ \A f \in DOMAIN m.fields : new[f] = m.fields[f]
      /\ ~Conflicts(m.fields, group) => \A f \in DOMAIN group : new[f] = group[f]
  BY DEF insert, Merged, Conflicts, Has
<1> HIDE DEF n, new
<1>3. Grows(m, n)
  BY <1>1, <1>2 DEF Md, Grows, Akin, Has
<1>4. ASSUME n.ok, NEW f \in DOMAIN group PROVE Typed(n, f)
  <2>1. /\ n.fields = new /\ n.types = m.types
        /\ Has(group[f], "type") => Has(m.types, group[f].type)
        /\ ~Conflicts(m.fields, group)
    BY <1>1, <1>4 DEF Md
  <2> QED BY <1>2, <2>1 DEF Typed, fieldType, Has
<1> QED BY <1>3, <1>4

LEMMA RefusedGrows ==
  ASSUME NEW m, Md(m) PROVE Grows(m, [m EXCEPT !.ok = FALSE])
BY DEF Md, Grows, Akin, Has

\* A document that is accepted says what its metrics are and of which types their fields are.
LEMMA MetadataGrows ==
  ASSUME NEW m, Md(m), Has(m.types, "string"), NEW d, SelfDescribed(d)
  PROVE  LET n == addMetadata(m, d)
         IN  /\ Grows(m, n)
             /\ n.ok => /\ Len(d.metrics) \in Nat
                        /\ \A i \in 1..Len(d.metrics) :
                               /\ Measured(n, d.metrics[i])
                               /\ \A f \in d.metrics[i].fields : Typed(n, f)
<1> DEFINE Grouped(o, key, added) == IF Has(d, key) THEN added ELSE [o EXCEPT !.ok = FALSE]
           typed == Grouped(m, "types", addTypes(m, d.types))
           fielded == Grouped(typed, "fields", addFields(typed, d.fields))
           moduled == Grouped(fielded, "modules", addModules(fielded, d.modules))
           n == Grouped(moduled, "metrics", addMetrics(moduled, d.metrics))
<1>0. n = addMetadata(m, d)
  BY DEF addMetadata
<1>1. Grows(m, typed)
  BY TypesGrow, RefusedGrows
<1>2. Md(typed) /\ Has(typed.types, "string")
  <2> HIDE DEF typed
  <2> QED BY <1>1 DEF Grows, Has
<1>3. /\ Grows(typed, fielded)
      /\ fielded.ok => Has(d, "fields") /\ \A f \in DOMAIN d.fields : Typed(fielded, f)
  <2> HIDE DEF typed
  <2>1. CASE Has(d, "fields")
    BY <1>2, <2>1, FieldsGrow
  <2>2. CASE ~Has(d, "fields")
    <3>1. fielded = [typed EXCEPT !.ok = FALSE]
      BY <2>2
    <3>2. ~fielded.ok
      BY <1>2, <3>1 DEF Md
    <3> HIDE DEF fielded
    <3> QED BY <1>2, <3>1, <3>2, RefusedGrows
  <2> QED BY <2>1, <2>2
<1>4. Md(fielded)
  <2> HIDE DEF fielded
  <2> QED BY <1>3 DEF Grows
<1>5. Grows(fielded, moduled)
  <2> HIDE DEF fielded
  <2> QED BY <1>4, ModulesGrow, RefusedGrows
<1>6. Md(moduled)
  <2> HIDE DEF moduled
  <2> QED BY <1>5 DEF Grows
<1>7. /\ Grows(moduled, n)
      /\ n.ok => /\ Has(d, "metrics") /\ Len(d.metrics) \in Nat
                 /\ \A i \in 1..Len(d.metrics) : Measured(n, d.metrics[i])
  <2> HIDE DEF moduled
  <2>1. CASE Has(d, "metrics")
    <3>1. Len(d.metrics) \in Nat
      BY <2>1 DEF SelfDescribed
    <3> QED BY <1>6, <2>1, <3>1, MetricsGrow
  <2>2. CASE ~Has(d, "metrics")
    <3>1. n = [moduled EXCEPT !.ok = FALSE]
      BY <2>2
    <3>2. ~n.ok
      BY <1>6, <3>1 DEF Md
    <3> HIDE DEF n
    <3> QED BY <1>6, <3>1, <3>2, RefusedGrows
  <2> QED BY <2>1, <2>2
<1> HIDE DEF typed, fielded, moduled, n
<1>8. Grows(fielded, n)
  BY <1>5, <1>7, GrowsOn
<1>9. Grows(m, n)
  BY <1>1, <1>3, <1>8, GrowsOn
<1>10. ASSUME n.ok, NEW i \in 1..Len(d.metrics), NEW f \in d.metrics[i].fields
       PROVE  Typed(n, f)
  <2>1. fielded.ok /\ Has(d, "metrics") /\ Len(d.metrics) \in Nat
    BY <1>7, <1>8, <1>10 DEF Grows
  <2>2. Has(d.metrics[i], "fields")
    BY <1>7, <1>10 DEF Measured
  <2>3. i \in DOMAIN d.metrics
    BY <2>1 DEF SelfDescribed
  <2>4. f \in DOMAIN d.fields
    BY <1>3, <2>1, <2>2, <2>3 DEF SelfDescribed, Has
  <2> QED BY <1>3, <1>8, <2>1, <2>4, TypedStays
<1> QED BY <1>0, <1>7, <1>9, <1>10


-----------------------------------------------------------------------------
(* What is listed is described.                                             *)

MdInv ==
    /\ Md(md) /\ md.ok /\ Has(md.types, "string")
    /\ Describable(set.all, md)
    /\ \A h \in DOMAIN doc : SelfDescribed(doc[h])

LEMMA DescribableIs ==
  ASSUME NEW metrics, NEW m
  PROVE  Describable(metrics, m) <=>
             \A base \in DOMAIN metrics :
                 /\ Has(m.metrics, base) /\ Has(m.modules, base[1])
                 /\ Measurable(m, m.metrics[base])
                 /\ \A f \in metrics[base] : Typed(m, f)
BY DEF Describable, Labelled, Typed

\* What an accepted document adds is described, and what has been stays so.
LEMMA DescribedMore ==
  ASSUME NEW m, NEW n, Grows(m, n), NEW metrics, Describable(metrics, m),
         NEW xs, Len(xs) \in Nat,
         \A i \in 1..Len(xs) : Measured(n, xs[i]) /\ \A f \in xs[i].fields : Typed(n, f)
  PROVE  Describable(With(metrics, xs), n)
<1> DEFINE new == With(metrics, xs)
<1> SUFFICES ASSUME NEW base \in DOMAIN new
             PROVE  /\ Has(n.metrics, base) /\ Has(n.modules, base[1])
                    /\ Measurable(n, n.metrics[base])
                    /\ \A f \in new[base] : Typed(n, f)
  BY DescribableIs
<1>1. /\ DOMAIN new \subseteq DOMAIN metrics \cup {Base(xs[i]) : i \in 1..Len(xs)}
      /\ \A f \in new[base] : \/ base \in DOMAIN metrics /\ f \in metrics[base]
                              \/ \E i \in 1..Len(xs) : base = Base(xs[i]) /\ f \in xs[i].fields
  BY WithIs
<1>2. base \in DOMAIN metrics =>
          /\ Has(m.metrics, base) /\ Has(m.modules, base[1])
          /\ Measurable(m, m.metrics[base])
          /\ \A f \in metrics[base] : Typed(m, f)
  BY DescribableIs
<1> HIDE DEF new
<1>3. \A f \in new[base] : Typed(n, f)
  <2> TAKE f \in new[base]
  <2>1. CASE base \in DOMAIN metrics /\ f \in metrics[base]
    BY <1>2, <2>1, TypedStays
  <2>2. CASE \E i \in 1..Len(xs) : base = Base(xs[i]) /\ f \in xs[i].fields
    BY <2>2
  <2> QED BY <1>1, <2>1, <2>2
<1>4. CASE base \in DOMAIN metrics
  <2>1. Akin(m.metrics[base], n.metrics[base]) /\ base \in DOMAIN n.metrics
        /\ DOMAIN m.types \subseteq DOMAIN n.types /\ DOMAIN m.modules \subseteq DOMAIN n.modules
    BY <1>2, <1>4 DEF Grows, Has
  <2>2. base[1] \in DOMAIN m.modules /\ Measurable(m, m.metrics[base])
    BY <1>2, <1>4 DEF Has
  <2>3. Measurable(n, n.metrics[base])
    BY <2>1, <2>2 DEF Measurable, Akin, Has
  <2> QED BY <1>3, <2>1, <2>2, <2>3 DEF Has
<1>5. CASE base \notin DOMAIN metrics
  <2>1. PICK i \in 1..Len(xs) : base = Base(xs[i])
    BY <1>1, <1>5
  <2>2. base[1] = xs[i].module
    BY <2>1 DEF Base
  <2> QED BY <1>3, <2>1, <2>2 DEF Measured
<1> QED BY <1>4, <1>5

LEMMA InstrOnlineMd ==
  ASSUME MdInv, NEW h \in DOMAIN doc, InstrOnline(h)
  PROVE  MdInv'
<1> DEFINE m == addMetadata(md, doc[h])
<1>1. /\ md' = [m EXCEPT !.ok = TRUE] /\ UNCHANGED doc
      /\ set' = addFromHost(set, AcceptedMetrics(m, doc[h]), h)
  BY DEF InstrOnline
<1>2. /\ Grows(md, m)
      /\ m.ok => /\ Len(doc[h].metrics) \in Nat
                 /\ \A i \in 1..Len(doc[h].metrics) :
                        /\ Measured(m, doc[h].metrics[i])
                        /\ \A f \in doc[h].metrics[i].fields : Typed(m, f)
  BY MetadataGrows DEF MdInv
<1> HIDE DEF m
<1> DEFINE xs == AcceptedMetrics(m, doc[h])
<1>3. /\ Len(xs) \in Nat
      /\ \A i \in 1..Len(xs) : Measured(m, xs[i]) /\ \A f \in xs[i].fields : Typed(m, f)
  <2>1. CASE m.ok
    BY <1>2, <2>1 DEF AcceptedMetrics
  <2>2. CASE ~m.ok
    <3>1. xs = <<>>
      BY <2>2 DEF AcceptedMetrics
    <3>2. Len(xs) = 0
      BY <3>1
    <3> QED BY <3>2
  <2> QED BY <2>1, <2>2
<1> HIDE DEF xs
<1>4. Describable(With(set.all, xs), m)
  BY <1>2, <1>3, DescribedMore DEF MdInv
<1>5. set'.all = With(set.all, xs)
  BY <1>1 DEF addFromHost, xs
<1>6. /\ Md(md') /\ md'.ok /\ Has(md'.types, "string")
      /\ md'.types = m.types /\ md'.fields = m.fields /\ md'.modules = m.modules
      /\ md'.metrics = m.metrics
  BY <1>1, <1>2 DEF Grows, Md, MdInv, Has
<1>7. Describable(With(set.all, xs), md')
  BY <1>4, <1>6 DEF Describable, Labelled, fieldType, Measurable
<1> QED BY <1>1, <1>5, <1>6, <1>7 DEF MdInv

LEMMA MdStays ==
  ASSUME MdInv, UNCHANGED <<md, set, doc>> PROVE MdInv'
BY DEF MdInv

LEMMA MdForgotten ==
  ASSUME MdInv, Forget, UNCHANGED doc PROVE MdInv'
<1>1. md' = NoMetadata /\ set'.all = Nothing
  BY DEF Forget, NoMetrics
<1>2. Md(md') /\ md'.ok /\ Has(md'.types, "string")
  BY <1>1 DEF Md, NoMetadata, Single, Has
<1>3. Describable(set'.all, md')
  BY <1>1 DEF Describable, Labelled, Nothing
<1> QED BY <1>2, <1>3 DEF MdInv

LEMMA MdNext ==
  ASSUME MdInv, [Next]_vars
  PROVE  MdInv'
<1>0. Dies => MdInv'
  BY MdForgotten DEF Dies
<1>1. CASE UNCHANGED vars
  BY <1>1, MdStays DEF vars, memory, agents
<1>2. CASE Start \/ Crash \/ Load
  <2>1. Dies \/ UNCHANGED <<md, set, doc>>
    BY <1>2 DEF Start, Crash, Load, LoadFails, List, Put, DeleteLegacy, Fetch, Loading, memory,
                agents
  <2> QED BY <2>1, <1>0, MdStays
<1>3. CASE AggOnline \/ CnapiReplies
  BY <1>3, MdStays DEF AggOnline, CnapiReplies, agents
<1>4. ASSUME NEW h \in DOMAIN doc, InstrOnline(h) PROVE MdInv'
  BY <1>4, InstrOnlineMd
<1>5. ASSUME NEW h \in DOMAIN doc, NEW d \in Docs \cup {doc[h]}, Restart(h, d) PROVE MdInv'
  <2>1. doc' = [doc EXCEPT ![h] = d] /\ UNCHANGED <<md, set>>
    BY <1>5 DEF Restart, memory
  <2>2. \A q \in DOMAIN doc' : SelfDescribed(doc'[q])
    BY <2>1, DocsAssumption DEF MdInv
  <2> QED BY <2>1, <2>2 DEF MdInv
<1>6. ASSUME NEW s, Register(s) PROVE MdInv'
  BY <1>6, MdStays DEF Register, memory, agents
<1>7. ASSUME NEW k, Task(k) PROVE MdInv'
  <2>1. CASE InstrsThrow(k)
    BY <2>1, <1>0 DEF InstrsThrow
  <2>2. CASE ~InstrsThrow(k)
    <3>1. UNCHANGED <<md, set, doc>>
      BY <1>7, <2>2 DEF Task, ZonesGlobal, ZonesCustomer, Listed, NotListed, InstrsUpdate, Save,
                        Created, agents
    <3> QED BY <3>1, MdStays
  <2> QED BY <2>1, <2>2
<1>8. ASSUME NEW r, Request(r) PROVE MdInv'
  <2>1. OnlyHttp \/ \E c : Requested(r, c)
    BY <1>8 DEF Request, Arrive, HttpCreate, HttpClone, HttpConfigList, HttpLegacyMetricsList,
                HttpList, HttpStatic, HttpInstnsList, HttpGetProps, HttpValue, Forwarded,
                HttpStatus, StatusReply
  <2>2. UNCHANGED <<md, set, doc>>
    BY <2>1 DEF OnlyHttp, Requested, memory, agents
  <2> QED BY <2>2, MdStays
<1> QED BY <1>1, <1>2, <1>3, <1>4, <1>5, <1>6, <1>7, <1>8 DEF Next

LEMMA MdInit ==
  ASSUME Init PROVE MdInv
<1>1. md = NoMetadata /\ set = NoMetrics /\ \E s \in Setups : doc = s.doc
  BY DEF Init
<1>2. Md(md) /\ md.ok /\ Has(md.types, "string")
  BY <1>1 DEF Md, NoMetadata, Single, Has
<1>3. Describable(set.all, md)
  BY <1>1 DEF Describable, Labelled, NoMetrics, Nothing
<1> QED BY <1>1, <1>2, <1>3, DocsAssumption DEF MdInv

\* What may be listed of the metrics of a profile is what there is of it.
LEMMA ProfilesDescribed ==
  ASSUME MdInv, NEW scope, NEW profile
  PROVE  Describable(httpMetricSet(scope, profile), md)
<1> DEFINE listed == httpMetricSet(scope, profile)
<1>1. DOMAIN listed \subseteq DOMAIN set.all /\ \A base \in DOMAIN listed : listed[base] \subseteq set.all[base]
  BY DEF httpMetricSet, intersection
<1> HIDE DEF listed
<1>2. Describable(listed, md)
  BY <1>1 DEF MdInv, Describable, Labelled
<1> QED BY <1>2 DEF listed

\* Whatever has been announced, refused in parts or contradicted, what users are shown is
\* described, as long as instrumenters describe the fields of the metrics they announce.
THEOREM ListsAreDescribed == Spec => []Listable
<1>1. Spec => []MdInv
  BY MdInit, MdNext, PTL DEF Spec
<1>2. MdInv => Listable
  BY ProfilesDescribed DEF Listable
<1> QED BY <1>1, <1>2, PTL


-----------------------------------------------------------------------------
(* Where instrumentations are wanted.  While the service runs, the names of *)
(* the servers it knew when it started are known or being asked for.        *)

HostsOf(servers) == {Servers[Vms[vm]] : vm \in Resolved(servers)}
Sure == IF ~Running THEN registered ELSE IF cam.cache = {} THEN asked ELSE cam.cache
CacheInv == cam \in [cache : SUBSET registered, pending : {cam.pending}, error : {cam.error}]
AgentsInv == known \subseteq DOMAIN has /\ DOMAIN has = DOMAIN doc /\ due \subseteq DOMAIN doc
HostsInv == CacheInv /\ AgentsInv

LEMMA ByHostIs ==
  ASSUME NEW servers
  PROVE  DOMAIN ByHost(Resolved(servers)) = HostsOf(servers)
BY DEF ByHost, HostsOf

LEMMA HostsMore ==
  ASSUME NEW S, NEW T, S \subseteq T
  PROVE  HostsOf(S) \subseteq HostsOf(T)
BY DEF HostsOf, Resolved

LEMMA DiesSure ==
  ASSUME SdcInv, CacheInv, Dies
  PROVE  CacheInv' /\ Sure \subseteq Sure'
<1>1. registered' = registered /\ cam' = [cache |-> {}, pending |-> FALSE, error |-> FALSE]
      /\ phase' = "down"
  BY DEF Dies, StopSdc
<1>2. Sure' = registered
  BY <1>1 DEF Sure, Running
<1> QED BY <1>1, <1>2 DEF CacheInv, Sure, SdcInv

LEMMA SdcSure ==
  ASSUME SdcInv, CacheInv, UNCHANGED <<cam, asked>>, registered \subseteq registered',
         Running' <=> Running
  PROVE  CacheInv' /\ Sure \subseteq Sure'
BY DEF CacheInv, Sure, SdcInv

LEMMA CnapiSure ==
  ASSUME SdcInv, CacheInv, CnapiReplies
  PROVE  CacheInv' /\ Sure \subseteq Sure'
<1>1. UNCHANGED <<phase, registered, asked>> /\ Running
  BY DEF CnapiReplies
<1>2. ASSUME NEW found \in {asked, registered}, cam' = Fetched(found)
      PROVE  CacheInv' /\ Sure \subseteq Sure'
  <2>1. cam'.cache = cam.cache \cup found /\ CacheInv'
    BY <1>1, <1>2 DEF Fetched, CacheInv, SdcInv
  <2> QED BY <1>1, <1>2, <2>1 DEF Sure, SdcInv, Running
<1>3. CASE cam' = FetchFailed
  <2>1. cam'.cache = cam.cache /\ CacheInv'
    BY <1>1, <1>3 DEF FetchFailed, CacheInv
  <2> QED BY <1>1, <2>1 DEF Sure, Running
<1> QED BY <1>2, <1>3 DEF CnapiReplies

LEMMA KickSure ==
  ASSUME SdcInv, CacheInv, kick, UNCHANGED <<phase, registered>>
  PROVE  CacheInv' /\ Sure \subseteq Sure'
<1>1. CASE cam.pending
  BY <1>1 DEF kick, CacheInv, Sure, Running
<1>2. CASE ~cam.pending
  <2>1. cam' = [cam EXCEPT !.pending = TRUE] /\ asked' = registered
    BY <1>2 DEF kick, Fetching
  <2>2. cam'.cache = cam.cache /\ CacheInv'
    BY <2>1 DEF CacheInv
  <2> QED BY <2>1, <2>2 DEF Sure, SdcInv, Running
<1> QED BY <1>1, <1>2

\* What is sure to be known grows with every step.
LEMMA SureNext ==
  ASSUME BaseInv, CacheInv, [Next]_vars
  PROVE  CacheInv' /\ Sure \subseteq Sure'
<1>0. SdcInv
  BY DEF BaseInv
<1> DEFINE Still == UNCHANGED sdcVars /\ (Running' <=> Running)
           Goal == CacheInv' /\ Sure \subseteq Sure'
<1> SUFFICES Goal
  OBVIOUS
<1>1. Still => Goal
  BY <1>0, SdcSure DEF sdcVars
<1>2. Dies => Goal
  BY <1>0, DiesSure
<1>3. CASE UNCHANGED vars
  <2>1. Still
    BY <1>3 DEF vars, Running
  <2> QED BY <1>1, <2>1
<1>4. CASE Start
  <2>1. /\ cam' = [cache |-> {}, pending |-> TRUE, error |-> FALSE] /\ asked' = registered
        /\ registered' = registered /\ ~Running
    BY <1>4 DEF Start, StartSdc, Running
  <2>2. CacheInv' /\ Sure' = registered
    BY <2>1 DEF CacheInv, Sure
  <2> QED BY <2>1, <2>2 DEF Sure
<1>5. CASE Crash \/ Load
  <2>1. Dies \/ Still
    BY <1>5 DEF Crash, Load, LoadFails, List, Put, DeleteLegacy, Fetch, Loading, Running
  <2> QED BY <1>1, <1>2, <2>1
<1>6. CASE AggOnline \/ CnapiReplies
  <2>1. AggOnline => Still
    BY DEF AggOnline, Running
  <2> QED BY <1>0, <1>1, <1>6, <2>1, CnapiSure
<1>7. ASSUME NEW h, InstrOnline(h) \/ \E d : Restart(h, d) PROVE Goal
  <2>1. Still
    BY <1>7 DEF InstrOnline, Restart, Running
  <2> QED BY <1>1, <2>1
<1>8. ASSUME NEW s, Register(s) PROVE Goal
  BY <1>0, <1>8, SdcSure DEF Register, Running
<1>9. ASSUME NEW k, Task(k) PROVE Goal
  <2>1. CASE InstrsThrow(k)
    BY <2>1, <1>2 DEF InstrsThrow
  <2>2. CASE Listed(k)
    BY <1>0, <2>2, KickSure, SdcSure DEF Listed, Running
  <2>3. CASE \/ ZonesGlobal(k) \/ ZonesCustomer(k) \/ NotListed(k) \/ InstrsUpdate(k)
             \/ Save(k) \/ Created(k)
    <3>1. Still
      BY <2>3 DEF ZonesGlobal, ZonesCustomer, NotListed, InstrsUpdate, Save, Created, Running
    <3> QED BY <1>1, <3>1
  <2> QED BY <1>9, <2>1, <2>2, <2>3 DEF Task
<1>10. ASSUME NEW r, Request(r) PROVE Goal
  <2>1. OnlyHttp \/ \E c : Requested(r, c)
    BY <1>10 DEF Request, Arrive, HttpCreate, HttpClone, HttpConfigList, HttpLegacyMetricsList,
                 HttpList, HttpStatic, HttpInstnsList, HttpGetProps, HttpValue, Forwarded,
                 HttpStatus, StatusReply
  <2>2. Still
    BY <2>1 DEF OnlyHttp, Requested, Running
  <2> QED BY <1>1, <2>2
<1> HIDE DEF Goal
<1> QED BY <1>3, <1>4, <1>5, <1>6, <1>7, <1>8, <1>9, <1>10 DEF Next

\* What instrumenters are known, and what they have.
LEMMA AgentsNext ==
  ASSUME AgentsInv, [Next]_vars
  PROVE  AgentsInv'
<1> DEFINE Still == UNCHANGED <<known, doc, has, due>>
<1> SUFFICES AgentsInv'
  OBVIOUS
<1>1. Still => AgentsInv'
  BY DEF AgentsInv
<1>2. Dies => AgentsInv'
  BY DEF Dies, Forget, AgentsInv
<1>3. CASE UNCHANGED vars
  BY <1>1, <1>3 DEF vars, memory, agents
<1>4. CASE Start
  BY <1>4 DEF Start, memory, AgentsInv
<1>5. CASE Crash \/ Load
  <2>1. Dies \/ Still
    BY <1>5 DEF Crash, Load, LoadFails, List, Put, DeleteLegacy, Fetch, Loading, agents
  <2> QED BY <1>1, <1>2, <2>1
<1>6. CASE AggOnline \/ CnapiReplies
  BY <1>1, <1>6 DEF AggOnline, CnapiReplies, agents
<1>7. ASSUME NEW h \in DOMAIN doc, InstrOnline(h)
      PROVE  AgentsInv'
  <2>1. known' = known \cup {h} /\ due' = due \ {h} /\ UNCHANGED <<doc, has>>
    BY <1>7 DEF InstrOnline
  <2> QED BY <1>7, <2>1 DEF AgentsInv
<1>8. ASSUME NEW h \in DOMAIN doc, NEW d, Restart(h, d)
      PROVE  AgentsInv'
  BY <1>8 DEF Restart, memory, AgentsInv
<1>9. ASSUME NEW s, Register(s) PROVE AgentsInv'
  BY <1>1, <1>9 DEF Register, memory, agents
<1>10. ASSUME NEW k, Task(k) PROVE AgentsInv'
  <2>1. CASE InstrsThrow(k)
    BY <2>1, <1>2 DEF InstrsThrow
  <2>2. CASE \/ ZonesGlobal(k) \/ ZonesCustomer(k) \/ Listed(k) \/ NotListed(k)
             \/ Save(k) \/ Created(k)
    BY <1>1, <2>2 DEF ZonesGlobal, ZonesCustomer, Listed, NotListed, Save, Created, agents
  <2>3. CASE InstrsUpdate(k)
    <3>1. UNCHANGED <<known, doc, due>> /\ DOMAIN has' = DOMAIN has
      BY <2>3 DEF InstrsUpdate
    <3> QED BY <3>1 DEF AgentsInv
  <2> QED BY <1>10, <2>1, <2>2, <2>3 DEF Task
<1>11. ASSUME NEW r, Request(r) PROVE AgentsInv'
  <2>1. OnlyHttp \/ \E c : Requested(r, c)
    BY <1>11 DEF Request, Arrive, HttpCreate, HttpClone, HttpConfigList, HttpLegacyMetricsList,
                 HttpList, HttpStatic, HttpInstnsList, HttpGetProps, HttpValue, Forwarded,
                 HttpStatus, StatusReply
  <2>2. Still
    BY <2>1 DEF OnlyHttp, Requested, memory, agents
  <2> QED BY <1>1, <2>2
<1> QED BY <1>3, <1>4, <1>5, <1>6, <1>7, <1>8, <1>9, <1>10, <1>11 DEF Next

LEMMA HostsInit == ASSUME Init PROVE HostsInv
BY DEF Init, HostsInv, CacheInv, AgentsInv

-----------------------------------------------------------------------------
(* What is still to be done for an object, and where it may run.           *)

Queued(ts, task) == \E i \in DOMAIN ts : ts[i] = task

LEMMA QueuedMore ==
  ASSUME NEW ts, Queue(ts), NEW more \in Seq(Later), NEW task
  PROVE  Queued(ts \o more, task) <=> Queued(ts, task) \/ Queued(more, task)
<1>1. more \in Seq(Tasks)
  BY DEF Later
<1>2. /\ DOMAIN (ts \o more) = 1..(Len(ts) + Len(more))
      /\ \A i \in 1..(Len(ts) + Len(more)) :
             (ts \o more)[i] = IF i <= Len(ts) THEN ts[i] ELSE more[i - Len(ts)]
      /\ DOMAIN ts = 1..Len(ts) /\ DOMAIN more = 1..Len(more)
      /\ Len(ts) \in Nat /\ Len(more) \in Nat
  BY <1>1 DEF Queue
<1> DEFINE s == ts \o more
<1> HIDE DEF s
<1>3. Queued(s, task) => Queued(ts, task) \/ Queued(more, task)
  <2> SUFFICES ASSUME NEW i \in DOMAIN s, s[i] = task
               PROVE  Queued(ts, task) \/ Queued(more, task)
    BY DEF Queued
  <2>1. i \in 1..(Len(ts) + Len(more))
    BY <1>2 DEF s
  <2>2. IF i <= Len(ts) THEN i \in DOMAIN ts /\ ts[i] = task
        ELSE i - Len(ts) \in DOMAIN more /\ more[i - Len(ts)] = task
    BY <1>2, <2>1 DEF s
  <2> QED BY <2>2 DEF Queued
<1>4. ASSUME NEW i \in DOMAIN ts, ts[i] = task PROVE Queued(s, task)
  <2>1. i \in DOMAIN s /\ s[i] = task
    BY <1>2, <1>4 DEF s
  <2> QED BY <2>1 DEF Queued
<1>5. ASSUME NEW i \in DOMAIN more, more[i] = task PROVE Queued(s, task)
  <2>1. Len(ts) + i \in DOMAIN s /\ s[Len(ts) + i] = task
    BY <1>2, <1>5 DEF s
  <2> QED BY <2>1 DEF Queued
<1> QED BY <1>3, <1>4, <1>5 DEF Queued, s

LEMMA QueuedTail ==
  ASSUME NEW ts, Queue(ts), ts # <<>>, NEW task
  PROVE  /\ Queued(Tail(ts), task) => Queued(ts, task)
         /\ Queued(ts, task) => Queued(Tail(ts), task) \/ task = Head(ts)
<1>1. /\ DOMAIN Tail(ts) = 1..(Len(ts) - 1) /\ DOMAIN ts = 1..Len(ts) /\ Len(ts) \in Nat
      /\ \A i \in 1..(Len(ts) - 1) : Tail(ts)[i] = ts[i + 1]
      /\ Head(ts) = ts[1]
  BY DEF Queue
<1>2. ASSUME NEW i \in DOMAIN Tail(ts), Tail(ts)[i] = task PROVE Queued(ts, task)
  <2>1. i + 1 \in DOMAIN ts /\ ts[i + 1] = task
    BY <1>1, <1>2
  <2> QED BY <2>1 DEF Queued
<1>3. ASSUME NEW i \in DOMAIN ts, ts[i] = task PROVE Queued(Tail(ts), task) \/ task = Head(ts)
  <2>1. i = 1 \/ (i - 1 \in DOMAIN Tail(ts) /\ Tail(ts)[i - 1] = task)
    BY <1>1, <1>3
  <2> QED BY <1>1, <1>3, <2>1 DEF Queued
<1> QED BY <1>2, <1>3 DEF Queued

LEMMA QueuedThese ==
  ASSUME NEW task
  PROVE  /\ Queued(<<"zones">>, task) <=> task = "zones"
         /\ Queued(<<"instrs">>, task) <=> task = "instrs"
         /\ Queued(<<"save", "instrs">>, task) <=> task \in {"save", "instrs"}
BY DEF Queued


Pending(o) ==
    \/ o.at # "idle" \/ Creating(o)
    \/ Queued(o.tasks, "zones") \/ Queued(o.tasks, "instrs")
WantedIn(o, seen) == IF o.zones = Undefined THEN seen ELSE DOMAIN o.zones[1]
Shape(id, zones, hosts) ==
    \/ zones = Undefined
    \/ id[1] # Global /\ zones = <<zones[1]>> /\ DOMAIN zones[1] \subseteq hosts

\* Operators want everything, customers what CNAPI has said; and an instrumentation is
\* nowhere before it is known where it should be.
Placed(k, o, hosts, seen) ==
    /\ Shape(k[1], o.zones, hosts)
    /\ o.on \in [DOMAIN o.on -> BOOLEAN] /\ DOMAIN o.on \subseteq WantedIn(o, seen)
    /\ Creating(o) => DOMAIN o.on = {}
    /\ k[1][1] # Global /\ o.zones = Undefined =>
           DOMAIN o.on = {} /\ ~Queued(o.tasks, "instrs")
    /\ o.at # "idle" => k[1][1] # Global

\* The same of what has been saved.
Config(id, conf, hosts) ==
    /\ conf \in [base : {conf.base}, decomp : {conf.decomp}, by : {conf.by}, zones : {conf.zones}]
    /\ Shape(id, conf.zones, hosts)
Configs(group, hosts) == \A id \in DOMAIN group : Config(id, group[id], hosts)

AllPlaced(hosts, seen) == \A k \in DOMAIN objs : Placed(k, objs[k], hosts, seen)
PlacedInv ==
    /\ AllPlaced(HostsOf(Sure), known)
    /\ Configs(buckets, HostsOf(Sure)) /\ Configs(legacy, HostsOf(Sure))

LEMMA PlacedMore ==
  ASSUME NEW k, NEW o, NEW hosts, NEW seen, Placed(k, o, hosts, seen),
         NEW hosts2, hosts \subseteq hosts2, NEW seen2, seen \subseteq seen2
  PROVE  Placed(k, o, hosts2, seen2)
BY DEF Placed, Shape, WantedIn

LEMMA ConfigsMore ==
  ASSUME NEW group, NEW hosts, Configs(group, hosts), NEW hosts2, hosts \subseteq hosts2
  PROVE  Configs(group, hosts2)
BY DEF Configs, Config, Shape

\* An object whose tasks change, but for a customer's that is to be enabled somewhere.
LEMMA PlacedTasks ==
  ASSUME NEW k, NEW o, NEW n, NEW hosts, NEW seen, Placed(k, o, hosts, seen),
         n.zones = o.zones, n.on = o.on, Creating(n) => Creating(o),
         n.at = o.at \/ n.at = "idle" \/ k[1][1] # Global,
         Queued(n.tasks, "instrs") => Queued(o.tasks, "instrs") \/ k[1][1] = Global
  PROVE  Placed(k, n, hosts, seen)
BY DEF Placed, WantedIn

\* Tasks that begin, and others that are queued.
LEMMA StartedQueue ==
  ASSUME NEW k, Object(k, objs[k]), NEW task, Starts(k, task)
  PROVE  LET o == objs[k]
             n == Started(k)
         IN  /\ n = [o EXCEPT !.tasks = Tail(o.tasks)] /\ Entire(n) /\ Queue(n.tasks) /\ ~Creating(n)
             /\ n.zones = o.zones /\ n.on = o.on /\ n.at = o.at /\ n.at = "idle"
             /\ n.base = o.base /\ n.decomp = o.decomp /\ n.missed = o.missed
             /\ \A t : Queued(n.tasks, t) => Queued(o.tasks, t)
             /\ \A t : Queued(o.tasks, t) => Queued(n.tasks, t) \/ t = task
<1>1. Queue(objs[k].tasks) /\ objs[k].tasks # <<>> /\ Head(objs[k].tasks) = task
      /\ Entire(objs[k]) /\ objs[k].at = "idle"
  BY DEF Object, Starts
<1> DEFINE o == objs[k]
           n == Started(k)
<1>2. n = [o EXCEPT !.tasks = Tail(o.tasks)]
  BY DEF Started
<1>3. Entire(n) /\ n.tasks = Tail(o.tasks) /\ n.zones = o.zones /\ n.on = o.on /\ n.at = o.at
      /\ n.base = o.base /\ n.decomp = o.decomp /\ n.missed = o.missed
  BY <1>1, <1>2 DEF Entire
<1>4. Queue(n.tasks) /\ ~Creating(n)
  BY <1>1, <1>3, Removed DEF Creating
<1>5. \A t : /\ Queued(n.tasks, t) => Queued(o.tasks, t)
             /\ Queued(o.tasks, t) => Queued(n.tasks, t) \/ t = task
  BY <1>1, <1>3, QueuedTail
<1> QED BY <1>1, <1>2, <1>3, <1>4, <1>5

LEMMA EnqueueQueue ==
  ASSUME NEW o, Entire(o), Queue(o.tasks), NEW more \in Seq(Later)
  PROVE  LET n == Enqueue(o, more)
         IN  /\ Entire(n) /\ Queue(n.tasks) /\ (Creating(n) <=> Creating(o))
             /\ n.zones = o.zones /\ n.on = o.on /\ n.at = o.at
             /\ n.base = o.base /\ n.decomp = o.decomp /\ n.missed = o.missed
             /\ \A t : Queued(n.tasks, t) <=> Queued(o.tasks, t) \/ Queued(more, t)
<1> DEFINE n == Enqueue(o, more)
<1>1. Entire(n) /\ n.tasks = o.tasks \o more /\ n.zones = o.zones /\ n.on = o.on /\ n.at = o.at
      /\ n.base = o.base /\ n.decomp = o.decomp /\ n.missed = o.missed
  BY DEF Enqueue, Entire
<1>2. Queue(n.tasks) /\ (Creating(n) <=> Creating(o))
  BY <1>1, Appended DEF Creating
<1>3. \A t : Queued(n.tasks, t) <=> Queued(o.tasks, t) \/ Queued(more, t)
  BY <1>1, QueuedMore
<1> QED BY <1>1, <1>2, <1>3


LEMMA EnqueueOne ==
  ASSUME NEW o, Entire(o), Queue(o.tasks), NEW task \in Later
  PROVE  LET n == Enqueue(o, <<task>>)
         IN  /\ Entire(n) /\ Queue(n.tasks) /\ (Creating(n) <=> Creating(o))
             /\ n.zones = o.zones /\ n.on = o.on /\ n.at = o.at
             /\ n.base = o.base /\ n.decomp = o.decomp /\ n.missed = o.missed
             /\ \A t : Queued(n.tasks, t) <=> Queued(o.tasks, t) \/ t = task
<1> DEFINE more == <<task>>
<1>1. more \in Seq(Later) /\ \A t : Queued(more, t) <=> t = task
  BY DEF Queued
<1> HIDE DEF more
<1>2. LET n == Enqueue(o, more)
      IN  /\ Entire(n) /\ Queue(n.tasks) /\ (Creating(n) <=> Creating(o))
          /\ n.zones = o.zones /\ n.on = o.on /\ n.at = o.at
          /\ n.base = o.base /\ n.decomp = o.decomp /\ n.missed = o.missed
          /\ \A t : Queued(n.tasks, t) <=> Queued(o.tasks, t) \/ Queued(more, t)
  BY <1>1, EnqueueQueue
<1> QED BY <1>1, <1>2 DEF more

LEMMA LaterTasks == "zones" \in Later /\ "instrs" \in Later
BY DEF Later, Tasks

\* What a step may do to an object without looking at its instrumenters: if it puts off
\* nothing, then nothing was to be done before, in the same place.
Calmly(o, n) ==
    /\ n.on = o.on /\ n.base = o.base /\ n.decomp = o.decomp /\ n.missed = o.missed
    /\ Pending(n) \/ (n.zones = o.zones /\ ~Pending(o))
Moved(k, o, n, hosts, seen) == Placed(k, n, hosts, seen) /\ Calmly(o, n)
AllMoved(hosts, seen) ==
    /\ DOMAIN objs' = DOMAIN objs
    /\ \A k \in DOMAIN objs : Moved(k, objs[k], objs'[k], hosts, seen)

LEMMA NoneMoved ==
  ASSUME NEW hosts, NEW seen, AllPlaced(hosts, seen), UNCHANGED objs
  PROVE  AllMoved(hosts, seen)
BY DEF AllPlaced, AllMoved, Moved, Calmly

LEMMA OneMoved ==
  ASSUME NEW hosts, NEW seen, AllPlaced(hosts, seen), NEW k \in DOMAIN objs, NEW n, Set(k, n),
         Moved(k, objs[k], n, hosts, seen)
  PROVE  AllMoved(hosts, seen)
<1>1. /\ DOMAIN objs' = DOMAIN objs /\ objs'[k] = n
      /\ \A q \in DOMAIN objs \ {k} : objs'[q] = objs[q]
  BY DEF Set
<1>2. \A q \in DOMAIN objs \ {k} : Moved(q, objs[q], objs'[q], hosts, seen)
  BY <1>1 DEF AllPlaced, Moved, Calmly
<1> QED BY <1>1, <1>2 DEF AllMoved

LEMMA ZonesGlobalMoved ==
  ASSUME NEW hosts, NEW seen, ObjectsInv, AllPlaced(hosts, seen), NEW k \in DOMAIN objs,
         ZonesGlobal(k)
  PROVE  AllMoved(hosts, seen)
<1> DEFINE o == objs[k]
           s == Started(k)
           n == Enqueue([s EXCEPT !.zones = Undefined], <<"instrs">>)
<1>1. Set(k, n) /\ Starts(k, "zones") /\ k[1][1] = Global
  BY DEF ZonesGlobal
<1>2. Object(k, o) /\ Placed(k, o, hosts, seen)
  BY DEF ObjectsInv, AllPlaced
<1>3. /\ Entire(s) /\ Queue(s.tasks) /\ ~Creating(s) /\ s.zones = o.zones /\ s.on = o.on
      /\ s.at = "idle" /\ s.base = o.base /\ s.decomp = o.decomp /\ s.missed = o.missed
  BY <1>1, <1>2, StartedQueue
<1>4. o.zones = Undefined
  BY <1>1, <1>2 DEF Placed, Shape
<1>5. [s EXCEPT !.zones = Undefined] = s
  BY <1>3, <1>4 DEF Entire
<1>6. n = Enqueue(s, <<"instrs">>)
  BY <1>5
<1> HIDE DEF n, s
<1>7. /\ ~Creating(n) /\ n.zones = o.zones /\ n.on = o.on /\ n.at = "idle"
      /\ n.base = o.base /\ n.decomp = o.decomp /\ n.missed = o.missed /\ Queued(n.tasks, "instrs")
  BY <1>3, <1>6, EnqueueOne, LaterTasks
<1>8. Placed(k, n, hosts, seen)
  BY <1>1, <1>2, <1>7, PlacedTasks
<1> QED BY <1>1, <1>7, <1>8, OneMoved DEF Moved, Calmly, Pending

LEMMA ZonesCustomerMoved ==
  ASSUME NEW hosts, NEW seen, ObjectsInv, AllPlaced(hosts, seen), NEW k \in DOMAIN objs,
         ZonesCustomer(k)
  PROVE  AllMoved(hosts, seen)
<1> DEFINE o == objs[k]
           s == Started(k)
           n == [s EXCEPT !.at = "vmapi"]
<1>1. Set(k, n) /\ Starts(k, "zones") /\ k[1][1] # Global
  BY DEF ZonesCustomer
<1>2. Object(k, o) /\ Placed(k, o, hosts, seen)
  BY DEF ObjectsInv, AllPlaced
<1>3. /\ Entire(s) /\ ~Creating(s) /\ s.zones = o.zones /\ s.on = o.on
      /\ s.base = o.base /\ s.decomp = o.decomp /\ s.missed = o.missed
      /\ \A t : Queued(s.tasks, t) => Queued(o.tasks, t)
  BY <1>1, <1>2, StartedQueue
<1> HIDE DEF s
<1>4. /\ n.tasks = s.tasks /\ n.zones = o.zones /\ n.on = o.on /\ n.at = "vmapi"
      /\ n.base = o.base /\ n.decomp = o.decomp /\ n.missed = o.missed
  BY <1>3 DEF Entire
<1>5. ~Creating(n)
  BY <1>3, <1>4 DEF Creating
<1> HIDE DEF n
<1>6. Placed(k, n, hosts, seen)
  BY <1>1, <1>2, <1>3, <1>4, <1>5, PlacedTasks
<1> QED BY <1>1, <1>4, <1>6, OneMoved DEF Moved, Calmly, Pending

LEMMA SaveMoved ==
  ASSUME NEW hosts, NEW seen, ObjectsInv, AllPlaced(hosts, seen), NEW k \in DOMAIN objs, Save(k)
  PROVE  AllMoved(hosts, seen)
<1> DEFINE o == objs[k]
           n == Started(k)
<1>1. Set(k, n) /\ Starts(k, "save")
  BY DEF Save
<1>2. Object(k, o) /\ Placed(k, o, hosts, seen)
  BY DEF ObjectsInv, AllPlaced
<1>3. /\ ~Creating(n) /\ n.zones = o.zones /\ n.on = o.on /\ n.at = "idle" /\ o.at = "idle"
      /\ n.base = o.base /\ n.decomp = o.decomp /\ n.missed = o.missed
      /\ \A t : Queued(n.tasks, t) => Queued(o.tasks, t)
      /\ \A t : Queued(o.tasks, t) => Queued(n.tasks, t) \/ t = "save"
  BY <1>1, <1>2, StartedQueue
<1>4. ~Creating(o)
  BY <1>1 DEF Starts, Creating, Front
<1> HIDE DEF n
<1>5. Placed(k, n, hosts, seen)
  BY <1>1, <1>2, <1>3, PlacedTasks
<1>6. Pending(o) => Pending(n)
  BY <1>3, <1>4 DEF Pending
<1> QED BY <1>1, <1>3, <1>5, <1>6, OneMoved DEF Moved, Calmly

\* Tasks that are put off until an answer, and those that are done again.
LEMMA AgainMoved ==
  ASSUME NEW hosts, NEW seen, NEW k, NEW o, Object(k, o), Placed(k, o, hosts, seen)
  PROVE  Moved(k, o, Enqueue([o EXCEPT !.at = "idle"], <<"zones">>), hosts, seen)
<1> DEFINE s == [o EXCEPT !.at = "idle"]
           n == Enqueue(s, <<"zones">>)
<1>1. /\ Entire(s) /\ s.tasks = o.tasks /\ s.zones = o.zones /\ s.on = o.on /\ s.at = "idle"
      /\ s.base = o.base /\ s.decomp = o.decomp /\ s.missed = o.missed
  BY DEF Object, Entire
<1> HIDE DEF s
<1>2. Queue(s.tasks) /\ (Creating(s) <=> Creating(o))
  BY <1>1 DEF Object, Creating
<1>3. /\ Creating(n) <=> Creating(o)
      /\ n.zones = o.zones /\ n.on = o.on /\ n.at = "idle"
      /\ n.base = o.base /\ n.decomp = o.decomp /\ n.missed = o.missed
      /\ \A t : Queued(n.tasks, t) <=> Queued(o.tasks, t) \/ t = "zones"
  BY <1>1, <1>2, EnqueueOne, LaterTasks
<1> HIDE DEF n
<1>4. Placed(k, n, hosts, seen)
  BY <1>3, PlacedTasks
<1>5. Moved(k, o, n, hosts, seen)
  BY <1>3, <1>4 DEF Moved, Calmly, Pending
<1> QED BY <1>5 DEF n, s

LEMMA NotListedMoved ==
  ASSUME NEW hosts, NEW seen, ObjectsInv, AllPlaced(hosts, seen), NEW k \in DOMAIN objs,
         NotListed(k)
  PROVE  AllMoved(hosts, seen)
<1>1. Object(k, objs[k]) /\ Placed(k, objs[k], hosts, seen)
  BY DEF ObjectsInv, AllPlaced
<1>2. Set(k, Enqueue([objs[k] EXCEPT !.at = "idle"], <<"zones">>))
  BY DEF NotListed
<1> QED BY <1>1, <1>2, AgainMoved, OneMoved


\* What has been known of the machines of a customer is known after they are looked for.
LEMMA FinishedMoved ==
  ASSUME NEW hosts, NEW hosts2, NEW seen, hosts \subseteq hosts2, NEW k, NEW o, Object(k, o),
         Placed(k, o, hosts, seen), o.at # "idle", NEW c, NEW promised,
         Unresolved(c) \/ hosts \subseteq HostsOf(c.cache), HostsOf(c.cache) \subseteq hosts2
  PROVE  Moved(k, o, Finished(o, c, promised), hosts2, seen)
<1>1. CASE Unresolved(c)
  <2>1. Finished(o, c, promised) = Enqueue([o EXCEPT !.at = "idle"], <<"zones">>)
    BY <1>1 DEF Finished
  <2> QED BY <2>1, PlacedMore, AgainMoved
<1>2. CASE ~Unresolved(c)
  <2> DEFINE s == [o EXCEPT !.at = "idle", !.zones = <<ByHost(Resolved(c.cache))>>,
                            !.lacks = Resolved(promised) \ Resolved(c.cache)]
             n == Enqueue(s, <<"save", "instrs">>)
  <2>1. Finished(o, c, promised) = n
    BY <1>2 DEF Finished
  <2>2. /\ Entire(s) /\ s.tasks = o.tasks /\ s.zones = <<ByHost(Resolved(c.cache))>> /\ s.on = o.on
        /\ s.at = "idle" /\ s.base = o.base /\ s.decomp = o.decomp /\ s.missed = o.missed
    BY DEF Object, Entire
  <2> HIDE DEF s
  <2>3. Queue(s.tasks) /\ (Creating(s) <=> Creating(o))
    BY <2>2 DEF Object, Creating
  <2>4. /\ Creating(n) <=> Creating(o)
        /\ n.zones = s.zones /\ n.on = o.on /\ n.at = "idle"
        /\ n.base = o.base /\ n.decomp = o.decomp /\ n.missed = o.missed
        /\ Queued(n.tasks, "instrs")
    <3>1. <<"save", "instrs">> \in Seq(Later) /\ Queued(<<"save", "instrs">>, "instrs")
      BY Mores, QueuedThese
    <3> DEFINE more == <<"save", "instrs">>
    <3> HIDE DEF more
    <3>2. more \in Seq(Later) /\ Queued(more, "instrs")
      BY <3>1 DEF more
    <3>3. n = Enqueue(s, more)
      BY DEF more
    <3> HIDE DEF n
    <3> QED BY <2>2, <2>3, <3>2, <3>3, EnqueueQueue
  <2> HIDE DEF n
  <2>5. n.zones # Undefined /\ n.zones = <<n.zones[1]>> /\ DOMAIN n.zones[1] = HostsOf(c.cache)
    BY <2>2, <2>4, ByHostIs DEF Undefined
  <2>6. k[1][1] # Global /\ DOMAIN o.on \subseteq hosts
    <3>1. k[1][1] # Global
      BY DEF Placed
    <3>2. CASE o.zones = Undefined
      BY <3>1, <3>2 DEF Placed
    <3>3. CASE o.zones # Undefined
      BY <3>3 DEF Placed, Shape, WantedIn
    <3> QED BY <3>1, <3>2, <3>3
  <2>7. DOMAIN n.on \subseteq WantedIn(n, seen)
    BY <1>2, <2>4, <2>5, <2>6 DEF WantedIn
  <2>8. Shape(k[1], n.zones, hosts2)
    BY <2>5, <2>6 DEF Shape
  <2>9. Placed(k, n, hosts2, seen)
    BY <2>4, <2>5, <2>6, <2>7, <2>8 DEF Placed
  <2>10. Moved(k, o, n, hosts2, seen)
    BY <2>4, <2>9 DEF Moved, Calmly, Pending
  <2> QED BY <2>1, <2>10
<1> QED BY <1>1, <1>2

LEMMA ListedMoved ==
  ASSUME NEW seen, ObjectsInv, CacheInv, AllPlaced(HostsOf(Sure), seen),
         Sure \subseteq Sure', NEW k \in DOMAIN objs, Listed(k)
  PROVE  AllMoved(HostsOf(Sure'), seen)
<1> DEFINE o == objs[k]
           hosts == HostsOf(Sure)
           hosts2 == HostsOf(Sure')
<1>1. Object(k, o) /\ Placed(k, o, hosts, seen) /\ o.at = "vmapi" /\ Running
  BY DEF ObjectsInv, AllPlaced, Listed
<1>2. hosts \subseteq hosts2
  BY HostsMore
<1>3. AllPlaced(hosts2, seen)
  BY <1>2, PlacedMore DEF AllPlaced
<1>4. CASE Complete(cam.cache)
  <2>1. Set(k, Finished(o, cam, registered)) /\ UNCHANGED <<cam, asked, phase>>
    BY <1>4 DEF Listed, CompleteNow
  <2>2. hosts \subseteq HostsOf(cam.cache)
    BY <1>4 DEF HostsOf, Complete, Resolved
  <2>3. HostsOf(cam.cache) \subseteq hosts2
    BY <1>1, <2>1 DEF HostsOf, Resolved, Sure, Running
  <2>4. Moved(k, o, Finished(o, cam, registered), hosts2, seen)
    BY <1>1, <1>2, <2>2, <2>3, FinishedMoved
  <2> QED BY <1>3, <2>1, <2>4, OneMoved
<1>5. CASE ~Complete(cam.cache)
  <2> DEFINE n == [o EXCEPT !.at = "cnapi"]
  <2>1. Set(k, n)
    BY <1>5 DEF Listed, CompleteNow
  <2>2. /\ n.tasks = o.tasks /\ n.zones = o.zones /\ n.on = o.on /\ n.at = "cnapi"
        /\ n.base = o.base /\ n.decomp = o.decomp /\ n.missed = o.missed
    BY <1>1 DEF Object, Entire
  <2> HIDE DEF n
  <2>3. Creating(n) <=> Creating(o)
    BY <2>2 DEF Creating
  <2>4. Placed(k, n, hosts2, seen)
    <3>1. Placed(k, o, hosts2, seen) /\ k[1][1] # Global
      BY <1>1, <1>3 DEF AllPlaced, Placed
    <3> QED BY <3>1, <2>2, <2>3, PlacedTasks
  <2> QED BY <1>3, <2>1, <2>2, <2>4, OneMoved DEF Moved, Calmly, Pending
<1> QED BY <1>4, <1>5

LEMMA CnapiRepliesMoved ==
  ASSUME NEW seen, ObjectsInv, SdcInv, CacheInv, AllPlaced(HostsOf(Sure), seen),
         Sure \subseteq Sure', CnapiReplies
  PROVE  AllMoved(HostsOf(Sure'), seen)
<1> DEFINE hosts == HostsOf(Sure)
           hosts2 == HostsOf(Sure')
<1>1. UNCHANGED <<phase, asked>> /\ Running
  BY DEF CnapiReplies
<1>2. hosts \subseteq hosts2
  BY HostsMore
<1>3. HostsOf(cam'.cache) \subseteq hosts2
  BY <1>1 DEF HostsOf, Resolved, Sure, Running
<1>4. Unresolved(cam') \/ hosts \subseteq HostsOf(cam'.cache)
  <2>1. ASSUME NEW found \in {asked, registered}, cam' = Fetched(found)
        PROVE  hosts \subseteq HostsOf(cam'.cache)
    <3>1. cam'.cache = cam.cache \cup found
      BY <2>1 DEF Fetched
    <3>2. Sure \subseteq cam'.cache
      BY <1>1, <2>1, <3>1 DEF Sure, SdcInv
    <3> QED BY <3>2, HostsMore
  <2>2. CASE cam' = FetchFailed
    <3>1. cam'.cache = cam.cache /\ cam'.error = TRUE
      BY <2>2 DEF FetchFailed, CacheInv
    <3>2. CASE cam.cache = {}
      BY <3>1, <3>2 DEF Unresolved, Resolved, HostsOf, Machines
    <3>3. CASE cam.cache # {}
      BY <1>1, <3>1, <3>3 DEF Sure
    <3> QED BY <3>2, <3>3
  <2> QED BY <2>1, <2>2 DEF CnapiReplies
<1>5. PICK promised : Woken(cam', promised)
  BY DEF CnapiReplies
<1>6. ASSUME NEW k \in DOMAIN objs PROVE Moved(k, objs[k], objs'[k], hosts2, seen)
  <2>1. Object(k, objs[k]) /\ Placed(k, objs[k], hosts, seen)
    BY DEF ObjectsInv, AllPlaced
  <2>2. CASE objs[k].at = "cnapi"
    <3>1. objs'[k] = Finished(objs[k], cam', promised)
      BY <1>5, <2>2 DEF Woken
    <3> QED BY <1>2, <1>3, <1>4, <2>1, <2>2, <3>1, FinishedMoved
  <2>3. CASE objs[k].at # "cnapi"
    <3>1. objs'[k] = objs[k]
      BY <1>5, <2>3 DEF Woken
    <3>2. Placed(k, objs[k], hosts2, seen)
      BY <1>2, <2>1, PlacedMore
    <3> QED BY <3>1, <3>2 DEF Moved, Calmly
  <2> QED BY <2>2, <2>3
<1> QED BY <1>5, <1>6 DEF AllMoved, Woken


\* Where an instrumentation is enabled by its task: nothing is disabled by it, since what is
\* wanted is never taken back.
Enabled(o, h) == Has(o.on, h) /\ o.on[h]
Updates(k, n, ok) ==
    LET o == objs[k]
        wanted == WantedIn(o, known)
    IN  /\ Set(k, n) /\ Queued(o.tasks, "instrs")
        /\ n.zones = o.zones /\ n.base = o.base /\ n.decomp = o.decomp /\ n.at = "idle"
        /\ ~Creating(n) /\ \A t : Queued(n.tasks, t) => Queued(o.tasks, t)
        /\ DOMAIN n.on = wanted /\ n.on \in [wanted -> BOOLEAN]
        /\ \A h \in wanted : n.on[h] <=> Enabled(o, h) \/ h \in ok
        /\ \A h \in wanted \cap known :
               supports(set, o.base, Fields(o), h) => Enabled(o, h) \/ h \in ok \/ h \in n.missed
        /\ DOMAIN has' = DOMAIN has
        /\ \A h \in DOMAIN has : has[h] \subseteq has'[h] /\ (h \in ok => k[1] \in has'[h])
        /\ ok \subseteq known

LEMMA InstrsUpdateIs ==
  ASSUME NEW hosts, ObjectsInv, AllPlaced(hosts, known), NEW k \in DOMAIN objs, InstrsUpdate(k)
  PROVE  \E n, ok : Updates(k, n, ok)
<1> DEFINE o == objs[k]
           s == Started(k)
           wanted == WantedIn(o, known)
           todo == {h \in DOMAIN InQuestion(s) : Outdated(s, h)}
           Does(done, ok) ==
               /\ Set(k, [s EXCEPT !.on = [h \in DOMAIN InQuestion(s) \ (ok \ Wanted(s)) |->
                                              InQuestion(s)[h] \/ h \in ok],
                                   !.missed = (s.missed \cup todo) \ ok])
               /\ has' = [h \in DOMAIN has |->
                             IF h \notin done THEN has[h]
                             ELSE IF h \in Wanted(s) THEN has[h] \cup {k[1]} ELSE has[h] \ {k[1]}]
<1>1. Starts(k, "instrs") /\ \E done \in SUBSET todo : \E ok \in SUBSET done : Does(done, ok)
  BY DEF InstrsUpdate
<1>2. PICK done \in SUBSET todo, ok \in SUBSET todo : ok \subseteq done /\ Does(done, ok)
  BY <1>1
<1>3. Object(k, o) /\ Placed(k, o, hosts, known) /\ Queued(o.tasks, "instrs")
  <2>1. Object(k, o) /\ Placed(k, o, hosts, known)
    BY DEF ObjectsInv, AllPlaced
  <2>2. o.tasks # <<>> /\ Head(o.tasks) = "instrs" /\ o.tasks \in Seq(Tasks)
    BY <1>1, <2>1 DEF Starts, Object, Queue
  <2> QED BY <2>1, <2>2 DEF Queued
<1>4. /\ Entire(s) /\ ~Creating(s) /\ s.zones = o.zones /\ s.on = o.on
      /\ s.at = "idle" /\ s.base = o.base /\ s.decomp = o.decomp
      /\ \A t : Queued(s.tasks, t) => Queued(o.tasks, t)
  BY <1>1, <1>3, StartedQueue
<1> HIDE DEF s
<1>5. Wanted(s) = wanted /\ Fields(s) = Fields(o)
  BY <1>4 DEF Wanted, WantedIn, Fields
<1>6. /\ DOMAIN InQuestion(s) = wanted
      /\ \A h \in wanted : InQuestion(s)[h] \in BOOLEAN /\ (InQuestion(s)[h] <=> Enabled(o, h))
  <2>1. DOMAIN o.on \subseteq wanted /\ o.on \in [DOMAIN o.on -> BOOLEAN]
    BY <1>3 DEF Placed
  <2> QED BY <1>4, <1>5, <2>1 DEF InQuestion, Merged, Entries, Has, Enabled
<1>7. todo \subseteq wanted \cap known
      /\ \A h \in wanted \cap known :
             supports(set, o.base, Fields(o), h) /\ ~Enabled(o, h) => h \in todo
  BY <1>4, <1>5, <1>6 DEF Outdated
<1> HIDE DEF todo
<1> DEFINE n == [s EXCEPT !.on = [h \in wanted |-> InQuestion(s)[h] \/ h \in ok],
                          !.missed = (s.missed \cup todo) \ ok]
<1>8. Set(k, n)
  <2>1. DOMAIN InQuestion(s) \ (ok \ Wanted(s)) = wanted
    BY <1>5, <1>6
  <2> QED BY <1>2, <2>1
<1>9. /\ n.tasks = s.tasks /\ n.zones = o.zones /\ n.base = o.base /\ n.decomp = o.decomp
      /\ n.at = "idle" /\ n.on = [h \in wanted |-> InQuestion(s)[h] \/ h \in ok]
      /\ n.missed = (s.missed \cup todo) \ ok
  BY <1>4 DEF Entire
<1> HIDE DEF n
<1>10. DOMAIN n.on = wanted /\ n.on \in [wanted -> BOOLEAN]
       /\ \A h \in wanted : n.on[h] <=> Enabled(o, h) \/ h \in ok
  BY <1>6, <1>9
<1>11. ~Creating(n) /\ \A t : Queued(n.tasks, t) => Queued(o.tasks, t)
  BY <1>4, <1>9 DEF Creating
<1>12. \A h \in wanted \cap known :
           supports(set, o.base, Fields(o), h) => Enabled(o, h) \/ h \in ok \/ h \in n.missed
  BY <1>7, <1>9
<1>13. DOMAIN has' = DOMAIN has /\ ok \subseteq known
       /\ \A h \in DOMAIN has : has[h] \subseteq has'[h] /\ (h \in ok => k[1] \in has'[h])
  <2>1. done \subseteq wanted /\ ok \subseteq done /\ ok \subseteq known
    BY <1>2, <1>7
  <2> QED BY <1>2, <1>5, <2>1
<1>14. Updates(k, n, ok)
  BY <1>3, <1>8, <1>9, <1>10, <1>11, <1>12, <1>13 DEF Updates
<1> QED BY <1>14

LEMMA UpdatesPlaced ==
  ASSUME NEW hosts, AllPlaced(hosts, known), NEW k \in DOMAIN objs, NEW n, NEW ok,
         Updates(k, n, ok)
  PROVE  /\ DOMAIN objs' = DOMAIN objs
         /\ \A q \in DOMAIN objs : Placed(q, objs'[q], hosts, known)
<1>1. /\ DOMAIN objs' = DOMAIN objs /\ objs'[k] = n
      /\ \A q \in DOMAIN objs \ {k} : objs'[q] = objs[q]
  BY DEF Updates, Set
<1>2. Placed(k, objs[k], hosts, known)
  BY DEF AllPlaced
<1>3. Placed(k, n, hosts, known)
  BY <1>2 DEF Placed, Updates, WantedIn
<1> QED BY <1>1, <1>3 DEF AllPlaced


\* An instrumenter that announces itself: what ran on it is to be enabled again, and what
\* operators want is looked for anew.
Tells(k, h, o, n) ==
    /\ n.zones = o.zones /\ n.base = o.base /\ n.decomp = o.decomp /\ n.at = o.at
    /\ Creating(n) <=> Creating(o)
    /\ DOMAIN n.on = DOMAIN o.on /\ n.on \in [DOMAIN o.on -> BOOLEAN]
    /\ \A q \in DOMAIN o.on \ {h} : n.on[q] = o.on[q]
    /\ k \in Current /\ h \in DOMAIN o.on => ~n.on[h] /\ Queued(n.tasks, "instrs")
    /\ k \in Globals /\ h \notin known => Queued(n.tasks, "zones")
    /\ \A t : Queued(o.tasks, t) => Queued(n.tasks, t)
    /\ Queued(n.tasks, "instrs") => Queued(o.tasks, "instrs") \/ h \in DOMAIN o.on
    /\ o.missed \ {h} \subseteq n.missed

LEMMA ToldIs ==
  ASSUME NEW hosts, ObjectsInv, AllPlaced(hosts, known), NEW k \in DOMAIN objs, NEW h
  PROVE  Tells(k, h, objs[k], Told(k, h))
<1> DEFINE o == objs[k]
           m == IF New(h) /\ k \in Globals THEN Enqueue(o, <<"zones">>) ELSE o
           n == Restarted(m, h)
<1>1. Object(k, o) /\ Placed(k, o, hosts, known)
  BY DEF ObjectsInv, AllPlaced
<1>2. Entire(o) /\ Queue(o.tasks) /\ o.on \in [DOMAIN o.on -> BOOLEAN]
  BY <1>1 DEF Object, Placed
<1>3. Told(k, h) = IF k \in Current THEN n ELSE o
  BY DEF Told
<1>4. /\ Entire(m) /\ Queue(m.tasks) /\ (Creating(m) <=> Creating(o))
      /\ m.zones = o.zones /\ m.on = o.on /\ m.at = o.at /\ m.base = o.base /\ m.decomp = o.decomp
      /\ m.missed = o.missed
      /\ \A t : Queued(o.tasks, t) => Queued(m.tasks, t)
      /\ Queued(m.tasks, "instrs") => Queued(o.tasks, "instrs")
      /\ k \in Globals /\ h \notin known => Queued(m.tasks, "zones")
  <2>1. CASE New(h) /\ k \in Globals
    <3>1. m = Enqueue(o, <<"zones">>)
      BY <2>1
    <3> HIDE DEF m, o
    <3> QED BY <1>2, <3>1, EnqueueOne, LaterTasks
  <2>2. CASE ~(New(h) /\ k \in Globals)
    <3>1. m = o /\ ~(k \in Globals /\ h \notin known)
      BY <2>2 DEF New
    <3> HIDE DEF m, o
    <3> QED BY <1>2, <3>1
  <2> QED BY <2>1, <2>2
<1> HIDE DEF m, o
<1>5. /\ n.zones = o.zones /\ n.base = o.base /\ n.decomp = o.decomp /\ n.at = o.at
      /\ Creating(n) <=> Creating(o)
      /\ DOMAIN n.on = DOMAIN o.on /\ n.on \in [DOMAIN o.on -> BOOLEAN]
      /\ \A q \in DOMAIN o.on \ {h} : n.on[q] = o.on[q]
      /\ h \in DOMAIN o.on => ~n.on[h] /\ Queued(n.tasks, "instrs")
      /\ \A t : Queued(m.tasks, t) => Queued(n.tasks, t)
      /\ Queued(n.tasks, "instrs") => Queued(o.tasks, "instrs") \/ h \in DOMAIN o.on
      /\ o.missed \ {h} \subseteq n.missed
  <2>1. CASE h \in DOMAIN o.on
    <3> DEFINE s == [m EXCEPT !.on[h] = FALSE, !.missed = m.missed \ {h}]
    <3>1. n = Enqueue(s, <<"instrs">>)
      BY <1>4, <2>1 DEF Restarted, Has
    <3>2. /\ Entire(s) /\ s.tasks = m.tasks /\ s.zones = o.zones /\ s.at = o.at
          /\ s.base = o.base /\ s.decomp = o.decomp
          /\ s.on = [o.on EXCEPT ![h] = FALSE] /\ s.missed = o.missed \ {h}
      BY <1>4 DEF Entire
    <3> HIDE DEF s, n
    <3>3. Queue(s.tasks) /\ (Creating(s) <=> Creating(m))
      BY <1>4, <3>2 DEF Creating
    <3>4. /\ n.zones = o.zones /\ n.base = o.base /\ n.decomp = o.decomp /\ n.at = o.at
          /\ Creating(n) <=> Creating(o)
          /\ n.on = s.on /\ n.missed = s.missed
          /\ \A t : Queued(n.tasks, t) <=> Queued(m.tasks, t) \/ t = "instrs"
      <4>1. Entire(s) /\ Queue(s.tasks)
        BY <3>2, <3>3, <1>4
      <4>2. /\ n.zones = s.zones /\ n.base = s.base /\ n.decomp = s.decomp /\ n.at = s.at
            /\ (Creating(n) <=> Creating(s))
            /\ n.on = s.on /\ n.missed = s.missed
            /\ \A t : Queued(n.tasks, t) <=> Queued(s.tasks, t) \/ t = "instrs"
        BY <3>1, <4>1, EnqueueOne, LaterTasks
      <4> QED BY <1>4, <3>2, <3>3, <4>2
    <3>5. /\ DOMAIN n.on = DOMAIN o.on /\ n.on \in [DOMAIN o.on -> BOOLEAN] /\ ~n.on[h]
          /\ \A q \in DOMAIN o.on \ {h} : n.on[q] = o.on[q]
      BY <1>2, <2>1, <3>2, <3>4
    <3> QED BY <2>1, <3>2, <3>4, <3>5
  <2>2. CASE h \notin DOMAIN o.on
    <3>1. n = m
      BY <1>4, <2>2 DEF Restarted, Has
    <3> HIDE DEF n
    <3> QED BY <1>2, <1>4, <2>2, <3>1
  <2> QED BY <2>1, <2>2
<1> HIDE DEF n
<1>6. k \notin Current => k \notin Globals
  BY DEF Globals
<1>7. Tells(k, h, o, n) /\ (k \notin Current => Tells(k, h, o, o))
  BY <1>2, <1>4, <1>5, <1>6 DEF Tells
<1> QED BY <1>3, <1>7 DEF o

LEMMA ToldPlaced ==
  ASSUME NEW hosts, ObjectsInv, AllPlaced(hosts, known), NEW k \in DOMAIN objs, NEW h
  PROVE  Placed(k, Told(k, h), hosts, known \cup {h})
<1> DEFINE o == objs[k]
           n == Told(k, h)
<1>1. Placed(k, o, hosts, known)
  BY DEF AllPlaced
<1>2. /\ n.zones = o.zones /\ n.at = o.at /\ (Creating(n) <=> Creating(o))
      /\ DOMAIN n.on = DOMAIN o.on /\ n.on \in [DOMAIN o.on -> BOOLEAN]
      /\ Queued(n.tasks, "instrs") => Queued(o.tasks, "instrs") \/ h \in DOMAIN o.on
  BY ToldIs DEF Tells
<1> HIDE DEF n
<1>3. Placed(k, n, hosts, known \cup {h})
  BY <1>1, <1>2 DEF Placed, WantedIn
<1> QED BY <1>3 DEF n

LEMMA InstrOnlinePlaced ==
  ASSUME NEW hosts, ObjectsInv, AllPlaced(hosts, known), NEW h, InstrOnline(h)
  PROVE  /\ DOMAIN objs' = DOMAIN objs /\ known' = known \cup {h}
         /\ \A k \in DOMAIN objs : Placed(k, objs'[k], hosts, known')
<1>1. known' = known \cup {h} /\ (UNCHANGED objs \/ objs' = [k \in DOMAIN objs |-> Told(k, h)])
  BY DEF InstrOnline
<1>2. CASE UNCHANGED objs
  BY <1>1, <1>2, PlacedMore DEF AllPlaced
<1>3. CASE objs' = [k \in DOMAIN objs |-> Told(k, h)]
  BY <1>1, <1>3, ToldPlaced
<1> QED BY <1>1, <1>2, <1>3


\* Objects that have just been made or loaded are nowhere, and there is something to do.
Newly(n) == DOMAIN n.on = {} /\ Pending(n)
Turns(hosts, seen) ==
    \A k \in DOMAIN objs' :
        /\ Placed(k, objs'[k], hosts, seen)
        /\ k \in Current' =>
               Newly(objs'[k]) \/ (k \in Current \cap DOMAIN objs /\ Calmly(objs[k], objs'[k]))

LEMMA MovedTurns ==
  ASSUME NEW hosts, NEW seen, AllMoved(hosts, seen), UNCHANGED instns
  PROVE  Turns(hosts, seen)
<1>1. Current' = Current
  BY DEF Current
<1> QED BY <1>1 DEF Turns, AllMoved, Moved

LEMMA GoneTurns == ASSUME NEW hosts, NEW seen, Gone PROVE Turns(hosts, seen)
BY DEF Gone, Turns, Nothing

LEMMA RequestedTurns ==
  ASSUME NEW hosts, NEW seen, AllPlaced(hosts, seen), NEW r, NEW c, Requested(r, c)
  PROVE  Turns(hosts, seen)
<1>1. UNCHANGED instns
  BY DEF Requested
<1>2. Current' = Current
  BY <1>1 DEF Current
<1>3. CASE UNCHANGED objs
  BY <1>1, <1>3, NoneMoved, MovedTurns
<1>4. CASE ~UNCHANGED objs
  <2> DEFINE k == <<<<c.scope, nextid[c.scope]>>, "made">>
             conf == [base |-> c.base, decomp |-> c.decomp, by |-> r, zones |-> Undefined]
             b == phase # "up" \/ k[1] \in unread
             n == [Instn(conf, <<"create">>) EXCEPT !.blind = b]
  <2>1. objs' = Updated(objs, k, n)
    BY <1>4 DEF Requested
  <2>2. n.on = Nothing /\ n.zones = Undefined /\ n.tasks = <<"create">> /\ n.at = "idle"
    BY DEF Instn
  <2> HIDE DEF k, n
  <2>3. Creating(n) /\ ~Queued(n.tasks, "instrs")
    BY <2>2 DEF Creating, Front, Queued
  <2>4. Newly(n) /\ Placed(k, n, hosts, seen)
    BY <2>2, <2>3 DEF Newly, Pending, Placed, Shape, Nothing
  <2>5. objs'[k] = n /\ \A q \in DOMAIN objs' \ {k} : q \in DOMAIN objs /\ objs'[q] = objs[q]
    BY <2>1 DEF Updated, Merged, Single, Has
  <2>6. ASSUME NEW q \in DOMAIN objs' \ {k}
        PROVE  /\ Placed(q, objs'[q], hosts, seen)
               /\ q \in Current' => q \in Current \cap DOMAIN objs /\ Calmly(objs[q], objs'[q])
    BY <1>2, <2>5, <2>6 DEF AllPlaced, Calmly
  <2> QED BY <2>4, <2>5, <2>6 DEF Turns
<1> QED BY <1>3, <1>4

LEMMA CreatedTurns ==
  ASSUME NEW hosts, NEW seen, ObjectsInv, AllPlaced(hosts, seen), NEW k \in DOMAIN objs, Created(k)
  PROVE  Turns(hosts, seen)
<1>1. Object(k, objs[k]) /\ Placed(k, objs[k], hosts, seen) /\ Starts(k, "create")
  BY DEF ObjectsInv, AllPlaced, Created
<1>2. CASE Set(k, Enqueue(Started(k), <<"zones">>)) /\ instns' = Updated(instns, k[1], "made")
  <2> DEFINE o == objs[k]
             s == Started(k)
             n == Enqueue(s, <<"zones">>)
  <2>1. Creating(o) /\ DOMAIN o.on = {}
    BY <1>1 DEF Starts, Creating, Front, Placed
  <2>2. /\ Entire(s) /\ Queue(s.tasks) /\ ~Creating(s) /\ s.zones = o.zones /\ s.on = o.on
        /\ s.at = "idle" /\ s.base = o.base /\ s.decomp = o.decomp
        /\ \A t : Queued(s.tasks, t) => Queued(o.tasks, t)
    BY <1>1, StartedQueue
  <2> HIDE DEF s
  <2>3. /\ ~Creating(n) /\ n.zones = o.zones /\ n.on = o.on /\ n.at = "idle"
        /\ n.base = o.base /\ n.decomp = o.decomp
        /\ \A t : Queued(n.tasks, t) <=> Queued(s.tasks, t) \/ t = "zones"
    BY <2>2, EnqueueOne, LaterTasks
  <2> HIDE DEF n
  <2>4. Placed(k, n, hosts, seen) /\ Newly(n)
    BY <1>1, <2>1, <2>2, <2>3, PlacedTasks DEF Newly, Pending
  <2>5. /\ DOMAIN objs' = DOMAIN objs /\ objs'[k] = n
        /\ \A q \in DOMAIN objs \ {k} : objs'[q] = objs[q]
    BY <1>2 DEF Set, n, s
  <2>6. k[2] = "made" /\ k = <<k[1], k[2]>>
    BY <1>1, <2>1 DEF ObjectsInv, Keys, Object
  <2>7. \A q \in Current' \ {k} : q \in Current
    <3>1. /\ DOMAIN instns' = DOMAIN instns \cup {k[1]} /\ instns'[k[1]] = "made"
          /\ \A id \in DOMAIN instns \ {k[1]} : instns'[id] = instns[id]
      BY <1>2 DEF Updated, Merged, Single, Has
    <3> SUFFICES ASSUME NEW id \in DOMAIN instns', <<id, instns'[id]>> # k
                 PROVE  <<id, instns'[id]>> \in Current
      BY DEF Current
    <3> QED BY <2>6, <3>1 DEF Current
  <2>8. ASSUME NEW q \in DOMAIN objs' \ {k}
        PROVE  /\ Placed(q, objs'[q], hosts, seen)
               /\ q \in Current' => q \in Current \cap DOMAIN objs /\ Calmly(objs[q], objs'[q])
    BY <2>5, <2>7, <2>8 DEF AllPlaced, Calmly
  <2> QED BY <2>4, <2>5, <2>8 DEF Turns
<1>3. CASE objs' = [q \in DOMAIN objs \ {k} |-> objs[q]] /\ UNCHANGED instns
  <2>1. Current' = Current
    BY <1>3 DEF Current
  <2>2. \A q \in DOMAIN objs' : q \in DOMAIN objs /\ objs'[q] = objs[q]
    BY <1>3
  <2> QED BY <2>1, <2>2 DEF Turns, AllPlaced, Calmly
<1> QED BY <1>2, <1>3 DEF Created


LEMMA LoadedPlaced ==
  ASSUME NEW hosts, NEW seen, NEW k, NEW conf, Config(k[1], conf, hosts)
  PROVE  LET n == Loaded(k[1], conf)
         IN  Placed(k, n, hosts, seen) /\ Newly(n)
<1> DEFINE n == Loaded(k[1], conf)
           zones == IF k[1][1] # Global /\ conf.zones = Undefined THEN <<Nothing>> ELSE conf.zones
           tasks == LoadTasks(k[1], conf)
           c == [conf EXCEPT !.zones = zones]
<1>1. n = Instn(c, tasks)
  <2>1. c = [conf EXCEPT !.zones = IF k[1][1] # Global /\ @ = Undefined THEN <<Nothing>> ELSE @]
    OBVIOUS
  <2> QED BY <2>1 DEF Loaded
<1>2. c.zones = zones
  BY DEF Config
<1> HIDE DEF c, tasks
<1>3. n.on = Nothing /\ n.tasks = tasks /\ n.at = "idle" /\ n.zones = zones
  BY <1>1, <1>2 DEF Instn
<1>4. Queued(tasks, "zones") /\ ~Front(tasks)
  BY DEF LoadTasks, Queued, Front, tasks
<1> HIDE DEF n
<1>5. Newly(n) /\ ~Creating(n)
  BY <1>3, <1>4 DEF Newly, Pending, Nothing, Creating
<1>6. Shape(k[1], n.zones, hosts) /\ (k[1][1] # Global => n.zones # Undefined)
  BY <1>3 DEF Config, Shape, Undefined, Nothing
<1>7. n.on \in [DOMAIN n.on -> BOOLEAN] /\ DOMAIN n.on = {}
  BY <1>3 DEF Nothing
<1>8. Placed(k, n, hosts, seen)
  BY <1>3, <1>5, <1>6, <1>7 DEF Placed
<1> QED BY <1>5, <1>8 DEF n

LEMMA FetchTurns ==
  ASSUME NEW hosts, NEW seen, ObjectsInv, AllPlaced(hosts, seen), Configs(buckets, hosts),
         DOMAIN plan \subseteq DOMAIN buckets, Fetch
  PROVE  Turns(hosts, seen)
<1>1. PICK some \in SUBSET DOMAIN plan :
        /\ objs' = Merged([k \in {<<id, "loaded">> : id \in some} |-> Loaded(k[1], buckets[k[1]])],
                          objs)
        /\ instns' = Merged([id \in some |-> "loaded"], instns)
  BY DEF Fetch
<1> DEFINE new == {<<id, "loaded">> : id \in some}
<1>2. /\ DOMAIN objs' = new \cup DOMAIN objs
      /\ \A k \in new : objs'[k] = Loaded(k[1], buckets[k[1]])
      /\ \A k \in DOMAIN objs \ new : objs'[k] = objs[k]
  BY <1>1 DEF Merged, Has
<1>3. ASSUME NEW k \in new PROVE Placed(k, objs'[k], hosts, seen) /\ Newly(objs'[k])
  <2>1. k[1] \in DOMAIN buckets
    OBVIOUS
  <2> HIDE DEF new
  <2>2. Config(k[1], buckets[k[1]], hosts)
    BY <2>1 DEF Configs
  <2> QED BY <1>2, <2>2, LoadedPlaced
<1>4. \A k \in Current' \ new : k \in Current
  <2>1. /\ DOMAIN instns' = some \cup DOMAIN instns
        /\ \A id \in some : instns'[id] = "loaded"
        /\ \A id \in DOMAIN instns \ some : instns'[id] = instns[id]
    BY <1>1 DEF Merged, Has
  <2> QED BY <2>1 DEF Current
<1> HIDE DEF new
<1>5. ASSUME NEW k \in DOMAIN objs' \ new
      PROVE  /\ Placed(k, objs'[k], hosts, seen)
             /\ k \in Current' => k \in Current \cap DOMAIN objs /\ Calmly(objs[k], objs'[k])
  BY <1>2, <1>4, <1>5 DEF AllPlaced, Calmly
<1> QED BY <1>3, <1>5 DEF Turns

\* What is saved is what the objects are.
LEMMA ConfigsNext ==
  ASSUME BaseInv, SavedInv, NEW hosts, NEW seen, AllPlaced(hosts, seen),
         Configs(buckets, hosts), Configs(legacy, hosts), [Next]_vars
  PROVE  Configs(buckets', hosts) /\ Configs(legacy', hosts)
<1>1. UNCHANGED <<buckets, legacy>> => Configs(buckets', hosts) /\ Configs(legacy', hosts)
  OBVIOUS
<1> SUFFICES Configs(buckets', hosts) /\ Configs(legacy', hosts)
  OBVIOUS
<1>2. CASE UNCHANGED vars \/ Calm \/ (Falls /\ UNCHANGED stash) \/ List \/ Fetch
  BY <1>1, <1>2 DEF vars, Calm, Settled, stash, List, Fetch
<1>3. ASSUME NEW r, NEW c, Requested(r, c) PROVE Configs(buckets', hosts) /\ Configs(legacy', hosts)
  BY <1>1, <1>3 DEF Requested, stash
<1>4. CASE Put
  <2>1. PICK some \in SUBSET DOMAIN plan : buckets' = Migrated(some)
    BY <1>4 DEF Put
  <2>2. plan = legacy /\ legacy' = legacy
    BY <1>4 DEF Put, SavedInv, PhaseOK
  <2>3. ASSUME NEW id \in DOMAIN buckets' PROVE Config(id, buckets'[id], hosts)
    <3>1. IF id \in some THEN id \in DOMAIN legacy /\ buckets'[id] = legacy[id]
          ELSE id \in DOMAIN buckets /\ buckets'[id] = buckets[id]
      BY <2>1, <2>2, PutIs
    <3> QED BY <3>1 DEF Configs
  <2> QED BY <2>2, <2>3 DEF Configs
<1>5. CASE DeleteLegacy
  BY <1>5 DEF DeleteLegacy, Nothing, Configs
<1>6. ASSUME NEW k \in DOMAIN objs, Save(k) \/ Created(k)
      PROVE  Configs(buckets', hosts) /\ Configs(legacy', hosts)
  <2>1. legacy' = legacy /\ (Puts(k) \/ UNCHANGED buckets)
    BY <1>6 DEF Save, Created, PutFails
  <2>2. CASE Puts(k)
    <3>1. Config(k[1], Conf(objs[k]), hosts)
      BY DEF AllPlaced, Placed, Config, Conf
    <3>2. ASSUME NEW id \in DOMAIN buckets' PROVE Config(id, buckets'[id], hosts)
      <4>1. IF id = k[1] THEN buckets'[id] = Conf(objs[k])
            ELSE id \in DOMAIN buckets /\ buckets'[id] = buckets[id]
        BY <2>2, PutsIs
      <4> QED BY <3>1, <4>1 DEF Configs
    <3> QED BY <2>1, <3>2 DEF Configs
  <2> QED BY <1>1, <2>1, <2>2
<1> QED BY <1>2, <1>3, <1>4, <1>5, <1>6, Steps


\* What most steps leave as it is of what instrumenters have and support.
Quiet ==
    \/ Gone
    \/ /\ UNCHANGED <<set, known, refused>> /\ due \subseteq due' /\ DOMAIN has' = DOMAIN has
       /\ \A h \in DOMAIN has \ due' : has'[h] = has[h]
Undisturbed == UNCHANGED <<set, known, refused, due, has>>

LEMMA TurnsTask ==
  ASSUME ObjectsInv, SdcInv, CacheInv, AllPlaced(HostsOf(Sure), known),
         Sure \subseteq Sure', NEW k \in DOMAIN objs, Task(k)
  PROVE  (Turns(HostsOf(Sure'), known) /\ Quiet) \/ InstrsUpdate(k)
<1> DEFINE hosts == HostsOf(Sure')
<1>0. AllPlaced(hosts, known)
  <2>1. HostsOf(Sure) \subseteq hosts
    BY HostsMore
  <2> QED BY <2>1, PlacedMore DEF AllPlaced
<1> HIDE DEF hosts
<1>1. CASE ZonesGlobal(k) \/ ZonesCustomer(k) \/ NotListed(k) \/ Save(k)
  <2>1. AllMoved(hosts, known)
    BY <1>0, <1>1, ZonesGlobalMoved, ZonesCustomerMoved, NotListedMoved, SaveMoved
  <2>2. UNCHANGED instns /\ Undisturbed
    BY <1>1 DEF ZonesGlobal, ZonesCustomer, NotListed, Save, Undisturbed, agents
  <2> QED BY <2>1, <2>2, MovedTurns DEF Quiet, Undisturbed, hosts
<1>2. CASE Listed(k)
  <2>1. AllMoved(hosts, known)
    BY <1>2, ListedMoved DEF hosts
  <2>2. UNCHANGED instns /\ Undisturbed
    BY <1>2 DEF Listed, Undisturbed, agents
  <2> QED BY <2>1, <2>2, MovedTurns DEF Quiet, Undisturbed, hosts
<1>3. CASE InstrsThrow(k)
  <2>1. Gone
    BY <1>3, DiesGone DEF InstrsThrow
  <2> QED BY <2>1, GoneTurns DEF Quiet
<1>4. CASE Created(k)
  <2>1. Turns(hosts, known)
    BY <1>0, <1>4, CreatedTurns
  <2>2. Undisturbed
    BY <1>4 DEF Created, Undisturbed, agents
  <2> QED BY <2>1, <2>2 DEF Quiet, Undisturbed, hosts
<1> QED BY <1>1, <1>2, <1>3, <1>4 DEF Task

LEMMA TurnsRequest ==
  ASSUME NEW hosts, AllPlaced(hosts, known), NEW r, Request(r)
  PROVE  Turns(hosts, known) /\ Quiet
<1>1. OnlyHttp \/ \E c : Requested(r, c)
  BY DEF Request, Arrive, HttpCreate, HttpClone, HttpConfigList, HttpLegacyMetricsList,
         HttpList, HttpStatic, HttpInstnsList, HttpGetProps, HttpValue, Forwarded,
         HttpStatus, StatusReply
<1>2. Undisturbed
  BY <1>1 DEF OnlyHttp, Requested, Undisturbed, memory, agents
<1>3. CASE OnlyHttp
  <2>1. UNCHANGED <<objs, instns>>
    BY <1>3 DEF OnlyHttp, memory
  <2> QED BY <1>2, <2>1, NoneMoved, MovedTurns DEF Quiet, Undisturbed
<1>4. CASE \E c : Requested(r, c)
  BY <1>2, <1>4, RequestedTurns DEF Quiet, Undisturbed
<1> QED BY <1>1, <1>3, <1>4

LEMMA TurnsLoad ==
  ASSUME ObjectsInv, SavedInv, NEW hosts, AllPlaced(hosts, known), Configs(buckets, hosts),
         Crash \/ Load
  PROVE  Turns(hosts, known) /\ Quiet
<1>1. CASE Fetch
  <2>1. DOMAIN plan \subseteq DOMAIN buckets
    BY <1>1 DEF Fetch, SavedInv, PhaseOK
  <2>2. Undisturbed
    BY <1>1 DEF Fetch, agents, Undisturbed
  <2> QED BY <1>1, <2>1, <2>2, FetchTurns DEF Quiet, Undisturbed
<1>2. CASE ~Fetch
  <2>1. Dies \/ (Undisturbed /\ UNCHANGED <<objs, instns>>)
    BY <1>2 DEF Crash, Load, LoadFails, List, Put, DeleteLegacy, Loading, Undisturbed, agents
  <2>2. CASE Dies
    BY <2>2, DiesGone, GoneTurns DEF Quiet
  <2>3. CASE Undisturbed /\ UNCHANGED <<objs, instns>>
    BY <2>3, NoneMoved, MovedTurns DEF Quiet, Undisturbed
  <2> QED BY <2>1, <2>2, <2>3
<1> QED BY <1>1, <1>2

\* All steps but the two that look at the instrumenters of an instrumentation.
LEMMA TurnsNext ==
  ASSUME BaseInv, SavedInv, HostsInv, PlacedInv, Sure \subseteq Sure', [Next]_vars
  PROVE  \/ Turns(HostsOf(Sure'), known) /\ Quiet
         \/ \E h \in DOMAIN doc : InstrOnline(h)
         \/ \E k \in DOMAIN objs : InstrsUpdate(k)
<1> DEFINE hosts == HostsOf(Sure')
           Goal == \/ Turns(hosts, known) /\ Quiet
                   \/ \E h \in DOMAIN doc : InstrOnline(h)
                   \/ \E k \in DOMAIN objs : InstrsUpdate(k)
<1> SUFFICES Goal
  OBVIOUS
<1>0. ObjectsInv /\ SdcInv /\ CacheInv /\ AgentsInv
  BY DEF BaseInv, PartsInv, HostsInv
<1>1. AllPlaced(HostsOf(Sure), known) /\ AllPlaced(hosts, known) /\ Configs(buckets, hosts)
  <2>1. HostsOf(Sure) \subseteq hosts
    BY HostsMore
  <2> QED BY <2>1, PlacedMore, ConfigsMore DEF AllPlaced, PlacedInv
<1>2. CASE Crash \/ Load
  BY <1>0, <1>1, <1>2, TurnsLoad
<1>3. ASSUME NEW k \in DOMAIN objs, Task(k) PROVE Goal
  BY <1>0, <1>1, <1>3, TurnsTask
<1>4. ASSUME NEW r, Request(r) PROVE Goal
  BY <1>1, <1>4, TurnsRequest
<1>5. CASE CnapiReplies
  <2>1. AllMoved(hosts, known)
    BY <1>0, <1>1, <1>5, CnapiRepliesMoved
  <2>2. UNCHANGED instns /\ Undisturbed
    BY <1>5 DEF CnapiReplies, Undisturbed, agents
  <2> QED BY <2>1, <2>2, MovedTurns DEF Quiet, Undisturbed
<1>6. ASSUME UNCHANGED <<objs, instns>>, Quiet PROVE Goal
  BY <1>1, <1>6, NoneMoved, MovedTurns
<1>7. CASE UNCHANGED vars \/ AggOnline \/ \E s \in DOMAIN Servers : Register(s)
  <2>1. Undisturbed /\ UNCHANGED <<objs, instns>>
    BY <1>7 DEF vars, memory, agents, AggOnline, Register, Undisturbed
  <2> QED BY <1>6, <2>1 DEF Quiet, Undisturbed
<1>8. CASE Start
  <2>1. UNCHANGED <<set, known, refused, objs, instns, has, doc>> /\ due' = DOMAIN doc
    BY <1>8 DEF Start, memory
  <2> QED BY <1>0, <1>6, <2>1 DEF Quiet, AgentsInv
<1>9. ASSUME NEW h \in DOMAIN doc, NEW d, Restart(h, d) PROVE Goal
  <2>1. /\ UNCHANGED <<set, known, refused, objs, instns>> /\ due' = due \cup {h}
        /\ has' = [has EXCEPT ![h] = {}]
    BY <1>9 DEF Restart, memory
  <2> QED BY <1>6, <2>1 DEF Quiet
<1> HIDE DEF hosts
<1> QED BY <1>2, <1>3, <1>4, <1>5, <1>7, <1>8, <1>9 DEF Next

LEMMA PlacedNext ==
  ASSUME BaseInv, SavedInv, HostsInv, PlacedInv, Sure \subseteq Sure', [Next]_vars
  PROVE  PlacedInv'
<1> DEFINE hosts == HostsOf(Sure')
<1>0. ObjectsInv
  BY DEF BaseInv, PartsInv
<1>1. AllPlaced(hosts, known) /\ Configs(buckets, hosts) /\ Configs(legacy, hosts)
  <2>1. HostsOf(Sure) \subseteq hosts
    BY HostsMore
  <2> QED BY <2>1, PlacedMore, ConfigsMore DEF AllPlaced, PlacedInv
<1>2. Configs(buckets', hosts) /\ Configs(legacy', hosts)
  BY <1>1, ConfigsNext
<1>3. \A k \in DOMAIN objs' : Placed(k, objs'[k], hosts, known')
  <2>1. CASE Turns(hosts, known) /\ Quiet
    <3>1. CASE Gone
      BY <3>1 DEF Gone, Nothing
    <3>2. CASE ~Gone
      BY <2>1, <3>2 DEF Quiet, Turns
    <3> QED BY <3>1, <3>2
  <2>2. ASSUME NEW h, InstrOnline(h)
        PROVE  \A k \in DOMAIN objs' : Placed(k, objs'[k], hosts, known')
    BY <1>0, <1>1, <2>2, InstrOnlinePlaced
  <2>3. ASSUME NEW k \in DOMAIN objs, InstrsUpdate(k)
        PROVE  \A q \in DOMAIN objs' : Placed(q, objs'[q], hosts, known')
    <3>1. UNCHANGED known
      BY <2>3 DEF InstrsUpdate
    <3> QED BY <1>0, <1>1, <2>3, <3>1, InstrsUpdateIs, UpdatesPlaced
  <2> QED BY <2>1, <2>2, <2>3, TurnsNext
<1> QED BY <1>2, <1>3 DEF PlacedInv, AllPlaced


\* What an instrumentation is taken to be enabled on has it enabled, and what is not put off
\* is done: it is wanted where it is looked after, and enabled there where it is supported,
\* unless a command failed there.
Believed(id, o, hs, out) ==
    \A h \in DOMAIN o.on : o.on[h] => (h \in DOMAIN hs /\ id \in hs[h]) \/ h \in out
Covered(k, o, seen, ms, bad, out) ==
    /\ k[1][1] = Global \/ o.zones # Undefined
    /\ WantedIn(o, seen) \ bad \subseteq DOMAIN o.on
    /\ \A h \in (WantedIn(o, seen) \cap seen) \ (out \cup o.missed) :
           supports(ms, o.base, Fields(o), h) => o.on[h]
SpreadOver(k, o, hs, seen, ms, bad, out) ==
    /\ Believed(k[1], o, hs, out)
    /\ Pending(o) \/ Covered(k, o, seen, ms, bad, out)
SpreadInv ==
    \A k \in Current : SpreadOver(k, objs[k], has, known, set, refused, refused \cup due)

LEMMA SpreadQuiet ==
  ASSUME SpreadInv, NEW hosts, Turns(hosts, known), Quiet, Meant'
  PROVE  SpreadInv'
<1> SUFFICES ASSUME NEW k \in Current'
             PROVE  SpreadOver(k, objs'[k], has', known', set', refused', refused' \cup due')
  BY DEF SpreadInv
<1>1. k \in DOMAIN objs' /\ ~Gone
  BY DEF Meant, Current, Gone, Nothing
<1> DEFINE n == objs'[k]
           o == objs[k]
<1>2. /\ UNCHANGED <<set, known, refused>> /\ due \subseteq due' /\ DOMAIN has' = DOMAIN has
      /\ \A h \in DOMAIN has \ due' : has'[h] = has[h]
  BY <1>1 DEF Quiet
<1>3. CASE Newly(n)
  BY <1>3 DEF Newly, SpreadOver, Believed
<1>4. CASE k \in Current \cap DOMAIN objs /\ Calmly(o, n)
  <2>1. SpreadOver(k, o, has, known, set, refused, refused \cup due)
    BY <1>4 DEF SpreadInv
  <2>2. n.on = o.on /\ n.base = o.base /\ Fields(n) = Fields(o) /\ n.missed = o.missed
        /\ (Pending(n) \/ (n.zones = o.zones /\ ~Pending(o)))
    BY <1>4 DEF Calmly, Fields
  <2> HIDE DEF n, o
  <2>3. Believed(k[1], n, has', refused' \cup due')
    BY <1>2, <2>1, <2>2 DEF SpreadOver, Believed
  <2>4. ~Pending(n) => Covered(k, n, known', set', refused', refused' \cup due')
    BY <1>2, <2>1, <2>2 DEF SpreadOver, Covered, WantedIn
  <2> QED BY <2>3, <2>4 DEF SpreadOver, n
<1> QED BY <1>1, <1>3, <1>4 DEF Turns

\* What others support is not touched by what one announces.
LEMMA SupportsOther ==
  ASSUME NEW ms, NEW xs, NEW h, NEW other, other # h, NEW base, NEW fields
  PROVE  supports(addFromHost(ms, xs, h), base, fields, other) <=> supports(ms, base, fields, other)
<1>1. addFromHost(ms, xs, h).byhost = Updated(ms.byhost, h, With(Nothing, xs))
  BY DEF addFromHost
<1> DEFINE after == addFromHost(ms, xs, h)
           new == With(Nothing, xs)
<1> HIDE DEF after, new
<1>2. /\ other \in DOMAIN after.byhost <=> other \in DOMAIN ms.byhost
      /\ other \in DOMAIN ms.byhost => after.byhost[other] = ms.byhost[other]
  BY <1>1 DEF Updated, Merged, Single, Has, after, new
<1> QED BY <1>2 DEF supports, Has, after

LEMMA SpreadOnline ==
  ASSUME NEW hosts, ObjectsInv, AllPlaced(hosts, known), SpreadInv, NEW h, InstrOnline(h)
  PROVE  SpreadInv'
<1>1. /\ known' = known \cup {h} /\ due' = due \ {h} /\ UNCHANGED <<has, instns>>
      /\ \E xs : set' = addFromHost(set, xs, h)
      /\ \/ objs' = [k \in DOMAIN objs |-> Told(k, h)] /\ refused' = refused
         \/ objs' = objs /\ refused' = refused \cup {h}
  BY DEF InstrOnline
<1>2. Current' = Current
  BY <1>1 DEF Current
<1>3. ASSUME NEW base, NEW fields, NEW q, q # h
      PROVE  supports(set', base, fields, q) <=> supports(set, base, fields, q)
  BY <1>1, <1>3, SupportsOther
<1> SUFFICES ASSUME NEW k \in Current
             PROVE  SpreadOver(k, objs'[k], has', known', set', refused', refused' \cup due')
  BY <1>2 DEF SpreadInv
<1> DEFINE o == objs[k]
           n == objs'[k]
<1>4. k \in DOMAIN objs /\ SpreadOver(k, o, has, known, set, refused, refused \cup due) /\ Placed(k, o, hosts, known)
  BY DEF ObjectsInv, Meant, Current, SpreadInv, AllPlaced
<1>5. CASE objs' = objs /\ refused' = refused \cup {h}
  <2>1. n = o
    BY <1>5
  <2> HIDE DEF n, o
  <2>2. Believed(k[1], o, has', refused' \cup due')
    BY <1>1, <1>4, <1>5 DEF SpreadOver, Believed
  <2>3. ~Pending(o) => Covered(k, o, known', set', refused', refused' \cup due')
    BY <1>1, <1>3, <1>4, <1>5 DEF SpreadOver, Covered, WantedIn
  <2> QED BY <2>1, <2>2, <2>3 DEF SpreadOver, n
<1>6. CASE objs' = [q \in DOMAIN objs |-> Told(q, h)] /\ refused' = refused
  <2>1. /\ n.zones = o.zones /\ n.base = o.base /\ Fields(n) = Fields(o) /\ n.at = o.at
        /\ (Creating(n) <=> Creating(o))
        /\ DOMAIN n.on = DOMAIN o.on
        /\ \A q \in DOMAIN o.on \ {h} : n.on[q] = o.on[q]
        /\ h \in DOMAIN o.on => ~n.on[h] /\ Queued(n.tasks, "instrs")
        /\ k[1][1] = Global /\ h \notin known => Queued(n.tasks, "zones")
        /\ \A t : Queued(o.tasks, t) => Queued(n.tasks, t)
        /\ o.missed \ {h} \subseteq n.missed
    <3>1. n = Told(k, h)
      BY <1>4, <1>6
    <3>2. k[1][1] = Global => k \in Globals
      BY DEF Globals
    <3>3. Tells(k, h, o, n)
      BY <1>4, <3>1, ToldIs
    <3> QED BY <3>2, <3>3 DEF Tells, Fields
  <2> HIDE DEF n, o
  <2>2. Believed(k[1], n, has', refused' \cup due')
    BY <1>1, <1>4, <1>6, <2>1 DEF SpreadOver, Believed
  <2>3. ASSUME ~Pending(n)
        PROVE  Covered(k, n, known', set', refused', refused' \cup due')
    <3>1. /\ ~Pending(o) /\ h \notin DOMAIN o.on /\ (k[1][1] = Global => h \in known)
          /\ Covered(k, o, known, set, refused, refused \cup due)
      BY <1>4, <2>1, <2>3 DEF Pending, SpreadOver
    <3>3. WantedIn(n, known') = WantedIn(o, known)
      <4>1. CASE o.zones = Undefined
        BY <1>1, <2>1, <3>1, <4>1 DEF WantedIn, Covered
      <4>2. CASE o.zones # Undefined
        BY <2>1, <4>2 DEF WantedIn
      <4> QED BY <4>1, <4>2
    <3>4. WantedIn(n, known') \ refused' \subseteq DOMAIN n.on
      BY <1>6, <2>1, <3>1, <3>3 DEF Covered
    <3>5. ASSUME NEW q \in (WantedIn(n, known') \cap known') \ (refused' \cup due' \cup n.missed),
                 supports(set', n.base, Fields(n), q)
          PROVE  n.on[q]
      <4>1. q \in DOMAIN o.on /\ q # h
        BY <2>1, <3>1, <3>4
      <4>2. q \in (WantedIn(o, known) \cap known) \ (refused \cup due \cup o.missed)
        BY <1>1, <1>6, <2>1, <3>3, <4>1
      <4>3. supports(set, o.base, Fields(o), q)
        BY <1>3, <2>1, <3>5, <4>1
      <4> QED BY <2>1, <3>1, <4>1, <4>2, <4>3 DEF Covered
    <3> QED BY <2>1, <3>1, <3>4, <3>5 DEF Covered
  <2> QED BY <2>2, <2>3 DEF SpreadOver, n
<1> QED BY <1>1, <1>5, <1>6


LEMMA SpreadUpdate ==
  ASSUME NEW hosts, ObjectsInv, AgentsInv, AllPlaced(hosts, known), SpreadInv,
         NEW k \in DOMAIN objs, InstrsUpdate(k)
  PROVE  SpreadInv'
<1>1. PICK n, ok : Updates(k, n, ok)
  BY InstrsUpdateIs
<1>2. UNCHANGED <<known, set, refused, due, instns>> /\ Current' = Current
  BY DEF InstrsUpdate, Current
<1>3. /\ DOMAIN has' = DOMAIN has /\ ok \subseteq DOMAIN has
      /\ \A h \in DOMAIN has : has[h] \subseteq has'[h] /\ (h \in ok => k[1] \in has'[h])
  BY <1>1 DEF Updates, AgentsInv
<1>4. objs'[k] = n /\ \A q \in DOMAIN objs \ {k} : objs'[q] = objs[q]
  BY <1>1 DEF Updates, Set
<1> SUFFICES ASSUME NEW q \in Current
             PROVE  SpreadOver(q, objs'[q], has', known', set', refused', refused' \cup due')
  BY <1>2 DEF SpreadInv
<1>5. q \in DOMAIN objs /\ SpreadOver(q, objs[q], has, known, set, refused, refused \cup due)
  BY DEF ObjectsInv, Meant, Current, SpreadInv
<1>6. CASE q # k
  <2> DEFINE o == objs[q]
  <2>1. objs'[q] = o
    BY <1>4, <1>5, <1>6
  <2> HIDE DEF o
  <2>2. Believed(q[1], o, has', refused' \cup due')
    BY <1>2, <1>3, <1>5 DEF SpreadOver, Believed, o
  <2>3. ~Pending(o) => Covered(q, o, known', set', refused', refused' \cup due')
    BY <1>2, <1>3, <1>5 DEF SpreadOver, Covered, o
  <2> QED BY <2>1, <2>2, <2>3 DEF SpreadOver
<1>7. CASE q = k
  <2> DEFINE o == objs[k]
  <2>1. /\ n.zones = o.zones /\ n.base = o.base /\ Fields(n) = Fields(o)
        /\ DOMAIN n.on = WantedIn(o, known) /\ WantedIn(n, known) = WantedIn(o, known)
        /\ \A h \in DOMAIN n.on : n.on[h] <=> Enabled(o, h) \/ h \in ok
        /\ \A h \in DOMAIN n.on \cap known :
               supports(set, o.base, Fields(o), h) => Enabled(o, h) \/ h \in ok \/ h \in n.missed
        /\ Queued(o.tasks, "instrs")
    BY <1>1 DEF Updates, Fields, WantedIn
  <2>2. k[1][1] = Global \/ o.zones # Undefined
    BY <2>1 DEF AllPlaced, Placed
  <2>3. Believed(k[1], o, has, refused \cup due)
    BY <1>5, <1>7 DEF SpreadOver
  <2> HIDE DEF o
  <2>4. Believed(k[1], n, has', refused' \cup due')
    BY <1>2, <1>3, <2>1, <2>3 DEF Believed, Enabled, Has
  <2>5. Covered(k, n, known', set', refused', refused' \cup due')
    BY <1>2, <2>1, <2>2 DEF Covered
  <2> QED BY <1>4, <1>7, <2>4, <2>5 DEF SpreadOver
<1> QED BY <1>6, <1>7

SpreadAll == BaseInv /\ SavedInv /\ HostsInv /\ PlacedInv /\ SpreadInv

LEMMA SpreadNext ==
  ASSUME SpreadAll, [Next]_vars
  PROVE  SpreadAll'
<1>1. BaseInv /\ SavedInv /\ HostsInv /\ PlacedInv /\ SpreadInv
  BY DEF SpreadAll
<1>2. BaseInv' /\ SavedInv' /\ CacheInv' /\ Sure \subseteq Sure' /\ AgentsInv'
  BY <1>1, BaseNext, SavedNext, SureNext, AgentsNext DEF HostsInv
<1>3. PlacedInv'
  <2>1. Sure \subseteq Sure'
    BY <1>2
  <2> QED BY <1>1, <2>1, PlacedNext
<1>4. ObjectsInv /\ Meant' /\ AgentsInv
  BY <1>1, <1>2 DEF BaseInv, PartsInv, ObjectsInv, HostsInv
<1>5. SpreadInv'
  <2>1. CASE Turns(HostsOf(Sure'), known) /\ Quiet
    BY <1>1, <1>4, <2>1, SpreadQuiet
  <2>2. AllPlaced(HostsOf(Sure), known)
    BY <1>1 DEF PlacedInv
  <2>3. CASE \E h \in DOMAIN doc : InstrOnline(h)
    BY <1>1, <1>4, <2>2, <2>3, SpreadOnline
  <2>4. CASE \E k \in DOMAIN objs : InstrsUpdate(k)
    BY <1>1, <1>4, <2>2, <2>4, SpreadUpdate
  <2>5. Sure \subseteq Sure'
    BY <1>2
  <2> QED BY <1>1, <2>1, <2>3, <2>4, <2>5, TurnsNext
<1> QED BY <1>2, <1>3, <1>5 DEF SpreadAll, HostsInv

LEMMA SpreadInit ==
  ASSUME Init
  PROVE  SpreadAll
<1>1. PICK s \in Setups : legacy = s.legacy /\ buckets = s.buckets /\ registered = s.registered
  BY DEF Init
<1>2. DOMAIN objs = {} /\ DOMAIN instns = {} /\ Sure = registered
  BY DEF Init, Nothing, Sure, Running
<1>3. ASSUME NEW conf, NEW id, Saved(conf, id, registered) PROVE Config(id, conf, HostsOf(Sure))
  BY <1>2, <1>3, ByHostIs DEF Saved, Config, Shape
<1>4. Configs(buckets, HostsOf(Sure)) /\ Configs(legacy, HostsOf(Sure))
  BY <1>1, <1>3, SetupsAssumption DEF Configs
<1>5. PlacedInv /\ SpreadInv
  BY <1>2, <1>4 DEF PlacedInv, AllPlaced, SpreadInv, Current
<1> QED BY <1>5, BaseInit, SavedInit, HostsInit DEF SpreadAll

\* However the service, CNAPI and instrumenters fail, restart and announce themselves: once there
\* is nothing left to do, each instrumentation runs wherever it is wanted and supported, except
\* on an instrumenter whose metadata were refused, that is about to announce itself, or that
\* has not announced itself since the last command to it for this instrumentation failed: such
\* commands are not tried again (lib/ca/ca-svc-config.js:2073).
THEOREM InstrumentationsSpread == Spec => []Spread
<1>1. SpreadAll => Spread
  <2> SUFFICES ASSUME SpreadAll, phase = "up", \A k \in DOMAIN objs : Idle(k),
                      NEW k \in Current,
                      NEW h \in (Wanted(objs[k]) \cap known) \ (refused \cup due \cup objs[k].missed),
                      supports(set, objs[k].base, Fields(objs[k]), h)
               PROVE  k[1] \in has[h]
    BY DEF Spread
  <2> DEFINE o == objs[k]
  <2>1. k \in DOMAIN objs /\ SpreadOver(k, o, has, known, set, refused, refused \cup due)
    BY DEF SpreadAll, BaseInv, PartsInv, ObjectsInv, Meant, Current, SpreadInv
  <2>2. ~Pending(o)
    BY <2>1 DEF Idle, Pending, Creating, Front, Queued
  <2>3. h \in WantedIn(o, known)
    BY DEF Wanted, WantedIn
  <2>4. h \in DOMAIN o.on /\ o.on[h]
    BY <2>1, <2>2, <2>3 DEF SpreadOver, Covered
  <2> QED BY <2>1, <2>4 DEF SpreadOver, Believed
<1> QED BY <1>1, SpreadInit, SpreadNext, PTL DEF Spec


=============================================================================
