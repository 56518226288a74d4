--------------------------- MODULE ConfigSvc_proofs ---------------------------
(***************************************************************************)
(* Proofs about the configuration service, for any number of               *)
(* instrumentations, aggregators, instrumenters, requests and failures:    *)
(* the type invariant, that a deleted instrumentation is only ever         *)
(* disabled, and that a customer's instrumentation stays in its zones; in  *)
(* the second part, what the service keeps across crashes: the count of    *)
(* each aggregator, the ids it hands out, and what it told its clients     *)
(* against what the stash has; and in the third, what it waits for and     *)
(* believes of the others: one answer at most of each target, that what it *)
(* believes about an instrumenter is true or about to be corrected, and    *)
(* that until it crashes or stops, what it has deleted is gone from the    *)
(* aggregators.                                                            *)
(***************************************************************************)
EXTENDS ConfigSvc, SequenceTheorems, FiniteSetTheorems, TLAPS

-----------------------------------------------------------------------------
(* The inductive invariant, about one object o at a time.                  *)

DeadFuncs == {"aggrDisable", "instrsUpdate"}
Has(o, f) == \E k \in DOMAIN o.tasks : o.tasks[k].f = f
Does(o, f) == o.cur # None /\ o.cur.f = f

\* An object that is not in use has no tasks; any other has its aggregator.
Placed(o) ==
    /\ o.where = "none" => o.tasks = <<>> /\ o.cur = None
    /\ o.where # "none" => o.aggr \in Aggrs

\* While the bucket is deleted, and once it is, cfi_deleted is set.
Marked(o) == Does(o, "delete") => o.deleted

DeadOK(o) ==
    o.where = "dead" =>
        /\ o.deleted
        /\ o.zones = {}
        /\ \A k \in DOMAIN o.tasks : o.tasks[k].f \in DeadFuncs
        /\ o.cur # None => o.cur.f \in DeadFuncs
        /\ Does(o, "instrsUpdate") => o.want = {}

\* The zones of a customer's instrumentation are known before any entry for an
\* instrumenter is made, and do not change while the entries are updated.
ScopeOK(i, o) ==
    Scope(i) # Global =>
        /\ (\/ Has(o, "instrsUpdate")
            \/ Does(o, "instrsUpdate")
            \/ \E h \in Hosts : o.state[h] # "absent") => o.zones # None
        /\ Does(o, "instrsUpdate") => o.want = o.zones

ObjectInv(i, o) == o \in Objects /\ Placed(o) /\ Marked(o) /\ DeadOK(o) /\ ScopeOK(i, o)

ObjectsInv == \A i \in Instns : ObjectInv(i, instn[i])

IInv == TypeOK /\ ObjectsInv

-----------------------------------------------------------------------------
(* What the operations on an object keep.                                  *)

\* Appending a task.
LEMMA EnqueueObject ==
    ASSUME NEW i \in Instns, NEW o, ObjectInv(i, o), NEW t \in Tasks,
           o.where # "none",
           o.where = "dead" => t.f \in DeadFuncs,
           Scope(i) # Global /\ t.f = "instrsUpdate" => o.zones # None
    PROVE  /\ ObjectInv(i, Enqueue(o, t))
           /\ Enqueue(o, t).where = o.where /\ Enqueue(o, t).zones = o.zones
           /\ Enqueue(o, t).cur = o.cur /\ Enqueue(o, t).deleted = o.deleted
<1> DEFINE n == [o EXCEPT !.tasks = Append(@, t)]
<1>1. CASE svc = "stopping"
  BY <1>1 DEF Enqueue
<1>2. CASE svc # "stopping"
  <2>1. o.tasks \in Seq(Tasks)
    BY DEF ObjectInv, Objects
  <2>2. /\ Append(o.tasks, t) \in Seq(Tasks)
        /\ \A k \in DOMAIN Append(o.tasks, t) :
              \/ Append(o.tasks, t)[k] = t
              \/ (k \in DOMAIN o.tasks /\ Append(o.tasks, t)[k] = o.tasks[k])
    BY <2>1, AppendProperties, LenProperties
  <2>3. n \in Objects
    BY <2>2 DEF ObjectInv, Objects
  <2>4. /\ n.where = o.where /\ n.zones = o.zones /\ n.cur = o.cur /\ n.deleted = o.deleted
        /\ n.want = o.want /\ n.state = o.state /\ n.aggr = o.aggr
        /\ n.tasks = Append(o.tasks, t)
    BY DEF ObjectInv, Objects
  <2>5. Placed(n) /\ Marked(n)
    BY <2>4 DEF ObjectInv, Placed, Marked, Does
  <2>6. DeadOK(n)
    BY <2>2, <2>4 DEF ObjectInv, DeadOK, Does
  <2>7. ScopeOK(i, n)
    BY <2>2, <2>4 DEF ObjectInv, ScopeOK, Does, Has
  <2> QED BY <1>2, <2>3, <2>4, <2>5, <2>6, <2>7 DEF Enqueue, ObjectInv
<1> QED BY <1>1, <1>2

\* The empty object.
LEMMA BlankObject == ASSUME NEW i \in Instns PROVE ObjectInv(i, Blank)
<1>1. Blank \in Objects
  BY EmptySeq DEF Blank, Objects, Confs, Zones
<1> QED BY <1>1 DEF ObjectInv, Placed, Marked, DeadOK, ScopeOK, Has, Does, Blank

\* The end of a task.
LEMMA SettleObject ==
    ASSUME NEW i \in Instns, NEW o, ObjectInv(i, o)
    PROVE  ObjectInv(i, Settle(o))
<1> DEFINE n == [o EXCEPT !.cur = None, !.wait = {}]
<1>1. CASE o.where = "dead" /\ o.tasks = <<>>
  BY <1>1, BlankObject DEF Settle
<1>2. CASE ~(o.where = "dead" /\ o.tasks = <<>>)
  <2>1. n \in Objects
    BY DEF ObjectInv, Objects
  <2>2. /\ n.where = o.where /\ n.zones = o.zones /\ n.cur = None /\ n.deleted = o.deleted
        /\ n.want = o.want /\ n.state = o.state /\ n.aggr = o.aggr /\ n.tasks = o.tasks
    BY DEF ObjectInv, Objects
  <2>3. Placed(n) /\ Marked(n) /\ DeadOK(n) /\ ScopeOK(i, n)
    BY <2>2 DEF ObjectInv, Placed, Marked, DeadOK, ScopeOK, Does, Has
  <2> QED BY <1>2, <2>1, <2>3 DEF Settle, ObjectInv
<1> QED BY <1>1, <1>2

\* Taking the next task off the queue.
LEMMA ShiftedObject ==
    ASSUME NEW i \in Instns, ObjectInv(i, instn[i]), instn[i].tasks # <<>>
    PROVE  LET o == instn[i] n == Shifted(i)
           IN /\ n \in Objects
              /\ n.where = o.where /\ n.zones = o.zones /\ n.deleted = o.deleted
              /\ n.want = o.want /\ n.state = o.state /\ n.aggr = o.aggr
              /\ n.conf = o.conf /\ n.wait = o.wait
              /\ n.cur = Head(o.tasks) /\ n.cur \in Tasks /\ n.cur.f \in Funcs
              /\ n.where # "none" /\ n.aggr \in Aggrs
              /\ n.where = "dead" => n.cur.f \in DeadFuncs
              /\ \A k \in DOMAIN n.tasks : k + 1 \in DOMAIN o.tasks /\ n.tasks[k] = o.tasks[k + 1]
              /\ o.tasks[1] = n.cur /\ 1 \in DOMAIN o.tasks
<1> DEFINE o == instn[i] n == Shifted(i)
<1>1. o \in Objects /\ o.tasks \in Seq(Tasks) /\ o.tasks # <<>>
  BY DEF ObjectInv, Objects
<1>2. /\ Head(o.tasks) \in Tasks /\ Tail(o.tasks) \in Seq(Tasks)
      /\ Len(o.tasks) \in Nat \ {0} /\ Len(Tail(o.tasks)) = Len(o.tasks) - 1
      /\ \A k \in 1..Len(Tail(o.tasks)) : Tail(o.tasks)[k] = o.tasks[k + 1]
      /\ Head(o.tasks) = o.tasks[1]
  BY <1>1, HeadTailProperties, EmptySeq
<1>3. n \in Objects
  BY <1>1, <1>2 DEF Objects, Shifted
<1>4. /\ n.where = o.where /\ n.zones = o.zones /\ n.deleted = o.deleted
      /\ n.want = o.want /\ n.state = o.state /\ n.aggr = o.aggr
      /\ n.conf = o.conf /\ n.wait = o.wait
      /\ n.cur = Head(o.tasks) /\ n.tasks = Tail(o.tasks)
  BY <1>1 DEF Objects, Shifted
<1>5. DOMAIN o.tasks = 1..Len(o.tasks) /\ DOMAIN Tail(o.tasks) = 1..(Len(o.tasks) - 1)
  BY <1>1, <1>2, LenProperties
<1>6. \A k \in DOMAIN n.tasks : k + 1 \in DOMAIN o.tasks /\ n.tasks[k] = o.tasks[k + 1]
  BY <1>2, <1>4, <1>5
<1>7. o.tasks[1] = n.cur /\ 1 \in DOMAIN o.tasks
  BY <1>2, <1>4, <1>5
<1>8. n.where # "none" /\ n.aggr \in Aggrs
  BY <1>1, <1>4 DEF ObjectInv, Placed
<1>9. n.where = "dead" => n.cur.f \in DeadFuncs
  BY <1>4, <1>7 DEF ObjectInv, DeadOK
<1>10. n.cur \in Tasks /\ n.cur.f \in Funcs
  BY <1>2, <1>4 DEF Tasks
<1> QED BY <1>3, <1>4, <1>6, <1>7, <1>8, <1>9, <1>10

\* Commands and acknowledgements have their types after every operation on them.
LEMMA UseType ==
    ASSUME UsedType, NEW w \in Bounded, Use(w)
    PROVE  UsedType'
BY DEF UsedType, Use

LEMMA SendType ==
    ASSUME NetType, NEW i \in Instns, NEW cmds, Send(cmds, i),
           \A t \in DOMAIN cmds \cap Targets : cmds[t] \in Messages(t)
    PROVE  NetType'
<1>1. net' = [t \in Targets |-> net'[t]]
  BY DEF Send
<1>2. ASSUME NEW t \in Targets PROVE net'[t] \in [Instns -> Seq(Messages(t))]
  <2>1. CASE t \in DOMAIN cmds \cap up
    <3>1. net[t] \in [Instns -> Seq(Messages(t))] /\ cmds[t] \in Messages(t)
      BY <2>1 DEF NetType
    <3>2. Append(net[t][i], cmds[t]) \in Seq(Messages(t))
      BY <3>1, AppendProperties
    <3>3. net'[t] = [net[t] EXCEPT ![i] = Append(@, cmds[t])]
      BY <2>1 DEF Send
    <3> QED BY <3>1, <3>2, <3>3
  <2>2. CASE t \notin DOMAIN cmds \cap up
    BY <2>2 DEF Send, NetType
  <2> QED BY <2>1, <2>2
<1> QED BY <1>1, <1>2 DEF NetType

LEMMA TailType ==
    ASSUME NetType, NEW i \in Instns, NEW t, net' = [net EXCEPT ![t][i] = Tail(@)],
           t \in Targets => net[t][i] # <<>>
    PROVE  NetType'
<1>1. net' = [u \in Targets |-> net'[u]]
  BY DEF NetType
<1>2. ASSUME NEW u \in Targets PROVE net'[u] \in [Instns -> Seq(Messages(u))]
  <2>1. CASE u = t
    <3>1. net[t] \in [Instns -> Seq(Messages(t))]
      BY <2>1 DEF NetType
    <3>2. Tail(net[t][i]) \in Seq(Messages(t))
      BY <2>1, <3>1, HeadTailProperties
    <3>3. net'[t] = [net[t] EXCEPT ![i] = Tail(@)]
      BY <2>1 DEF NetType
    <3> QED BY <2>1, <3>1, <3>2, <3>3
  <2>2. CASE u # t
    BY <2>2 DEF NetType
  <2> QED BY <2>1, <2>2
<1> QED BY <1>1, <1>2 DEF NetType

LEMMA ForgetType ==
    ASSUME NEW t, NEW q \in Seq(Messages(t))
    PROVE  Forget(q) \in Seq(Messages(t))
<1>1. /\ Len(q) \in Nat /\ DOMAIN q = 1..Len(q)
      /\ \A k \in 1..Len(q) : q[k] \in Messages(t)
  BY LenProperties
<1>2. \A k \in 1..Len(q) : [q[k] EXCEPT !.live = FALSE] \in Messages(t)
  BY <1>1 DEF Messages
<1> QED BY <1>1, <1>2 DEF Forget

LEMMA DisownType ==
    ASSUME NEW i, NEW q \in Seq(Replies)
    PROVE  Disown(q, i) \in Seq(Replies)
<1>1. /\ Len(q) \in Nat /\ DOMAIN q = 1..Len(q)
      /\ \A k \in 1..Len(q) : q[k] \in Replies
  BY LenProperties
<1>2. LateAck \in Replies
  BY DEF LateAck, Replies
<1> QED BY <1>1, <1>2 DEF Disown

LEMMA ResultType ==
    ASSUME NetType, InqType, UsedType, NEW i \in Instns, NEW t, NEW ok, Result(t, i, ok),
           t \in Targets
    PROVE  NetType' /\ InqType' /\ UsedType'
<1>1. CASE Acknowledged(t, i)
  <2>1. Tail(inq[t]) \in Seq(Replies)
    BY <1>1, HeadTailProperties DEF Acknowledged, InqType
  <2>2. inq' = [inq EXCEPT ![t] = Tail(@)] /\ UNCHANGED <<net, used>>
    BY <1>1 DEF Acknowledged
  <2>3. InqType'
    BY <2>1, <2>2 DEF InqType
  <2> QED BY <2>2, <2>3 DEF NetType, UsedType
<1>2. CASE Failed(t, i)
  <2>1. InqType'
    <3>1. Disown(inq[t], i) \in Seq(Replies)
      BY DisownType DEF InqType
    <3>2. inq' = [inq EXCEPT ![t] = Disown(@, i)]
      BY <1>2 DEF Failed
    <3> QED BY <3>1, <3>2 DEF InqType
  <2>2. CASE Refused(t, i)
    <3>1. NetType'
      BY <2>2, TailType DEF Refused
    <3>2. UsedType'
      BY <2>2, UseType DEF Refused, Bounded
    <3> QED BY <2>1, <3>1, <3>2
  <2>3. CASE LateAnswer(t, i)
    <3>1. UsedType'
      BY <2>3, UseType DEF LateAnswer, Bounded
    <3>2. net[t] \in [Instns -> Seq(Messages(t))]
      BY DEF NetType
    <3>3. Forget(net[t][i]) \in Seq(Messages(t))
      BY <3>2, ForgetType
    <3>4. net' = [net EXCEPT ![t] = [net[t] EXCEPT ![i] = Forget(net[t][i])]]
      BY <2>3 DEF LateAnswer
    <3>5. [net[t] EXCEPT ![i] = Forget(net[t][i])] \in [Instns -> Seq(Messages(t))]
      BY <3>2, <3>3
    <3>6. NetType'
      BY <3>4, <3>5 DEF NetType
    <3> QED BY <2>1, <3>1, <3>6
  <2>4. CASE NoAnswer(t, i)
    BY <2>1, <2>4 DEF NoAnswer, NetType, UsedType
  <2> QED BY <1>2, <2>2, <2>3, <2>4 DEF Failed
<1> QED BY <1>1, <1>2 DEF Result

LEMMA CarryType ==
    ASSUME NetType, InqType, NEW i \in Instns, NEW t \in Targets, Carry(t, i)
    PROVE  NetType' /\ InqType' /\ Head(net[t][i]) \in Messages(t)
<1>1. NetType'
  BY TailType DEF Carry
<1>2. Head(net[t][i]) \in Messages(t)
  <2>1. net[t][i] \in Seq(Messages(t)) /\ net[t][i] # <<>>
    BY DEF NetType, Carry
  <2> QED BY <2>1, HeadTailProperties
<1>3. InqType'
  <2>1. Ack(i) \in Replies
    BY DEF Ack, Replies
  <2>2. Append(inq[t], Ack(i)) \in Seq(Replies)
    BY <2>1, AppendProperties DEF InqType
  <2> QED BY <2>2 DEF Carry, InqType
<1> QED BY <1>1, <1>2, <1>3

-----------------------------------------------------------------------------
(* The tasks.                                                              *)

\* A step that changes one object.
LEMMA OneObject ==
    ASSUME IInv, NEW i \in Instns, NEW n, ObjectInv(i, n), instn' = [instn EXCEPT ![i] = n]
    PROVE  instn' \in [Instns -> Objects] /\ ObjectsInv'
<1>1. instn \in [Instns -> Objects] /\ n \in Objects
  BY DEF IInv, TypeOK, ObjectInv
<1>2. ASSUME NEW j \in Instns PROVE ObjectInv(j, instn'[j])
  <2>1. CASE j = i
    <3>1. instn'[j] = n
      BY <1>1, <2>1
    <3> QED BY <2>1, <3>1
  <2>2. CASE j # i
    <3>1. instn'[j] = instn[j]
      BY <1>1, <2>2
    <3> QED BY <3>1 DEF IInv, ObjectsInv
  <2> QED BY <2>1, <2>2
<1> QED BY <1>1, <1>2 DEF ObjectsInv

\* The number of requests in a queue.
LEMMA RequestsType ==
    ASSUME NEW q \in Seq(Tasks)
    PROVE  Requests(q) \in Nat
<1>1. Len(q) \in Nat /\ DOMAIN q = 1..Len(q)
  BY LenProperties
<1>2. IsFiniteSet(1..Len(q))
  BY <1>1, FS_Interval
<1>3. IsFiniteSet({k \in DOMAIN q : q[k].rq})
  BY <1>1, <1>2, FS_Subset
<1> QED BY <1>3, FS_CardinalityType DEF Requests

LEMMA SourcesType ==
    ASSUME NEW hosts \in SUBSET Hosts
    PROVE  Cardinality(hosts) \in 0..Cardinality(Hosts)
<1>1. IsFiniteSet(Hosts)
  BY ConstantsAssumption
<1>2. IsFiniteSet(hosts) /\ Cardinality(hosts) <= Cardinality(Hosts)
  BY <1>1, FS_Subset
<1>3. Cardinality(hosts) \in Nat /\ Cardinality(Hosts) \in Nat
  BY <1>1, <1>2, FS_CardinalityType
<1> QED BY <1>2, <1>3

LEMMA ReadyObject ==
    ASSUME IInv, NEW i \in Instns, NEW funcs, Ready(i, funcs)
    PROVE  /\ ObjectInv(i, instn[i]) /\ instn[i].tasks # <<>>
           /\ Shifted(i).cur.f \in funcs
<1>1. ObjectInv(i, instn[i]) /\ instn[i].tasks # <<>>
  BY DEF IInv, ObjectsInv, Ready
<1> QED BY <1>1, ShiftedObject DEF Ready

LEMMA StartSaveInv ==
    ASSUME IInv, NEW i \in Instns, StartSave(i)
    PROVE  IInv'
<1> DEFINE o == Shifted(i)
           n == [o EXCEPT !.deleted = Deleted(o), !.wait = {Stash}]
           conf == IF o.cur.f = "setprops" THEN [o.conf EXCEPT !.val = o.cur.val] ELSE o.conf
           cmd == IF Deleted(o) THEN Command("del", None)
                  ELSE Command("put", SaveRequest(o, conf))
<1>1. ObjectInv(i, instn[i]) /\ instn[i].tasks # <<>> /\ o.cur.f \in StashFuncs
  BY ReadyObject DEF StartSave
<1>2. /\ o \in Objects /\ o.aggr \in Aggrs /\ o.cur \in Tasks
      /\ o.where # "dead" /\ o.where # "none"
  BY <1>1, ShiftedObject DEF StashFuncs, DeadFuncs
<1>3. ObjectInv(i, n)
  <2>1. Deleted(o) \in BOOLEAN /\ {Stash} \subseteq Targets
    BY <1>2 DEF Deleted, Objects, Targets
  <2>2. n \in Objects
    BY <1>2, <2>1 DEF Objects
  <2>3. /\ n.where = o.where /\ n.zones = o.zones /\ n.cur = o.cur /\ n.deleted = Deleted(o)
        /\ n.want = o.want /\ n.state = o.state /\ n.aggr = o.aggr /\ n.tasks = o.tasks
    BY <1>2 DEF Objects
  <2>4. Placed(n) /\ Marked(n) /\ DeadOK(n)
    BY <1>2, <2>3 DEF Placed, Marked, Does, Deleted, DeadOK
  <2>5. ScopeOK(i, n)
    BY <1>1, <2>3, ShiftedObject DEF ScopeOK, ObjectInv, Has, Does, StashFuncs
  <2> QED BY <2>2, <2>4, <2>5 DEF ObjectInv
<1>4. cmd \in Messages(Stash)
  <2>1. conf \in Confs /\ o.zones \in Zones
    BY <1>2 DEF Objects, Confs, Tasks
  <2>2. SaveRequest(o, conf) \in Buckets
    BY <1>2, <2>1 DEF SaveRequest, Buckets
  <2> QED BY <2>2 DEF Command, Messages
<1>5. NetType'
  <2>1. Send([t \in {Stash} |-> cmd], i)
    BY DEF StartSave
  <2> QED BY <1>4, <2>1, SendType DEF IInv, TypeOK
<1>6. instn' = [instn EXCEPT ![i] = n]
  BY DEF StartSave
<1>7. instn' \in [Instns -> Objects] /\ ObjectsInv'
  BY <1>3, <1>6, OneObject
<1>8. UNCHANGED <<svcVars, extVars, inq, userVars, used>>
  BY DEF StartSave
<1> QED BY <1>5, <1>7, <1>8 DEF IInv, TypeOK, ServiceType, ExternalType, InqType, UserType,
           UsedType, svcVars, extVars, userVars

LEMMA ShiftedInv ==
    ASSUME NEW i \in Instns, ObjectInv(i, instn[i]), instn[i].tasks # <<>>,
           Shifted(i).cur.f \notin {"delete", "instrsUpdate"}
    PROVE  ObjectInv(i, Shifted(i))
<1> DEFINE o == instn[i] n == Shifted(i)
<1>1. /\ n \in Objects
      /\ n.where = o.where /\ n.zones = o.zones /\ n.deleted = o.deleted
      /\ n.want = o.want /\ n.state = o.state
      /\ n.where # "none" /\ n.aggr \in Aggrs
      /\ n.where = "dead" => n.cur.f \in DeadFuncs
      /\ \A k \in DOMAIN n.tasks : k + 1 \in DOMAIN o.tasks /\ n.tasks[k] = o.tasks[k + 1]
  BY ShiftedObject
<1>2. Placed(n) /\ Marked(n)
  BY <1>1 DEF Placed, Marked, Does
<1>3. DeadOK(n)
  BY <1>1 DEF DeadOK, ObjectInv, Does
<1>4. ScopeOK(i, n)
  BY <1>1 DEF ScopeOK, ObjectInv, Does, Has
<1> QED BY <1>1, <1>2, <1>3, <1>4 DEF ObjectInv

LEMMA WaitObject ==
    ASSUME NEW i \in Instns, NEW o, ObjectInv(i, o), NEW w \in SUBSET Targets
    PROVE  ObjectInv(i, [o EXCEPT !.wait = w])
<1> DEFINE n == [o EXCEPT !.wait = w]
<1>1. n \in Objects
  BY DEF ObjectInv, Objects
<1>2. /\ n.where = o.where /\ n.zones = o.zones /\ n.cur = o.cur /\ n.deleted = o.deleted
      /\ n.want = o.want /\ n.state = o.state /\ n.aggr = o.aggr /\ n.tasks = o.tasks
  BY DEF ObjectInv, Objects
<1> QED BY <1>1, <1>2 DEF ObjectInv, Placed, Marked, DeadOK, ScopeOK, Does, Has

LEMMA StartAggrInv ==
    ASSUME IInv, NEW i \in Instns, StartAggr(i)
    PROVE  IInv'
<1> DEFINE o == Shifted(i)
           cmd == IF o.cur.f = "aggrUpdate" THEN Command("enable", o.conf)
                  ELSE Command("disable", None)
<1>1. /\ ObjectInv(i, instn[i]) /\ instn[i].tasks # <<>>
      /\ o.cur.f \in {"aggrUpdate", "aggrDisable"}
  BY ReadyObject DEF StartAggr
<1>2. o \in Objects /\ o.aggr \in Aggrs
  BY <1>1, ShiftedObject
<1>3. ObjectInv(i, o)
  BY <1>1, ShiftedInv
<1>4. UNCHANGED <<svcVars, extVars, inq, userVars, used>>
  BY DEF StartAggr
<1>5. CASE o.aggr \in known
  <2>1. /\ instn' = [instn EXCEPT ![i] = [o EXCEPT !.wait = {o.aggr}]]
        /\ Send([t \in {o.aggr} |-> cmd], i)
    BY <1>5 DEF StartAggr
  <2>2. o.aggr \in Targets /\ o.aggr # Stash
    BY <1>2, ConstantsAssumption DEF Targets
  <2>3. ObjectInv(i, [o EXCEPT !.wait = {o.aggr}])
    BY <1>3, <2>2, WaitObject
  <2>4. instn' \in [Instns -> Objects] /\ ObjectsInv'
    BY <2>1, <2>3, OneObject
  <2>5. cmd \in Messages(o.aggr)
    BY <1>2, <2>2 DEF Command, Messages, Objects
  <2>6. NetType'
    BY <2>1, <2>5, SendType DEF IInv, TypeOK
  <2> QED BY <1>4, <2>4, <2>6 DEF IInv, TypeOK, ServiceType, ExternalType, InqType,
             UserType, UsedType, svcVars, extVars, userVars
<1>6. CASE o.aggr \notin known
  <2>1. instn' = [instn EXCEPT ![i] = Settle(o)] /\ UNCHANGED net
    BY <1>6 DEF StartAggr
  <2>2. ObjectInv(i, Settle(o))
    BY <1>3, SettleObject
  <2>3. instn' \in [Instns -> Objects] /\ ObjectsInv'
    BY <2>1, <2>2, OneObject
  <2> QED BY <1>4, <2>1, <2>3 DEF IInv, TypeOK, ServiceType, ExternalType, NetType, InqType,
             UserType, UsedType, svcVars, extVars, userVars
<1> QED BY <1>5, <1>6

LEMMA StartZonesInv ==
    ASSUME IInv, NEW i \in Instns, StartZonesGlobal(i) \/ StartZonesCust(i)
    PROVE  IInv'
<1> DEFINE o == Shifted(i)
           n == [o EXCEPT !.zones = None]
<1>1. ObjectInv(i, instn[i]) /\ instn[i].tasks # <<>> /\ o.cur.f = "zonesUpdate"
  BY ReadyObject DEF StartZonesGlobal, StartZonesCust
<1>2. ObjectInv(i, o) /\ o.where # "none" /\ o.where # "dead" /\ o \in Objects
  BY <1>1, ShiftedInv, ShiftedObject DEF DeadFuncs
<1>3. UNCHANGED <<svcVars, extVars, msgVars, userVars, used>>
  BY DEF StartZonesGlobal, StartZonesCust
<1>4. CASE StartZonesGlobal(i)
  <2>1. /\ Scope(i) = Global
        /\ instn' = [instn EXCEPT ![i] = Settle(Enqueue(n, Task("instrsUpdate")))]
    BY <1>4 DEF StartZonesGlobal
  <2>2. n \in Objects
    BY <1>2 DEF Objects, Zones
  <2>3. /\ n.where = o.where /\ n.cur = o.cur /\ n.deleted = o.deleted
        /\ n.aggr = o.aggr /\ n.tasks = o.tasks
    BY <1>2 DEF Objects
  <2>4. ObjectInv(i, n)
    BY <1>2, <2>1, <2>2, <2>3 DEF ObjectInv, Placed, Marked, DeadOK, ScopeOK, Does
  <2>5. Task("instrsUpdate") \in Tasks /\ Task("instrsUpdate").f \in DeadFuncs
    BY DEF Task, Tasks, Funcs, DeadFuncs
  <2>6. ObjectInv(i, Enqueue(n, Task("instrsUpdate")))
    BY <1>2, <2>1, <2>3, <2>4, <2>5, EnqueueObject
  <2>7. ObjectInv(i, Settle(Enqueue(n, Task("instrsUpdate"))))
    BY <2>6, SettleObject
  <2>8. instn' \in [Instns -> Objects] /\ ObjectsInv'
    BY <2>1, <2>7, OneObject
  <2> QED BY <1>3, <2>8 DEF IInv, TypeOK, ServiceType, ExternalType, NetType, InqType,
             UserType, UsedType, svcVars, extVars, msgVars, userVars
<1>5. CASE StartZonesCust(i)
  <2>1. instn' = [instn EXCEPT ![i] = o]
    BY <1>5 DEF StartZonesCust
  <2>2. instn' \in [Instns -> Objects] /\ ObjectsInv'
    BY <1>2, <2>1, OneObject
  <2> QED BY <1>3, <2>2 DEF IInv, TypeOK, ServiceType, ExternalType, NetType, InqType,
             UserType, UsedType, svcVars, extVars, msgVars, userVars
<1> QED BY <1>4, <1>5

LEMMA StartInstrsInv ==
    ASSUME IInv, NEW i \in Instns, StartInstrs(i)
    PROVE  IInv'
<1> DEFINE o == Shifted(i)
           hosts == IF o.zones = None THEN known \cap Hosts ELSE o.zones
           state == [h \in Hosts |-> IF h \in hosts /\ o.state[h] = "absent"
                                     THEN "off" ELSE o.state[h]]
           stale == o.conf.nsrc # Cardinality(hosts) /\ ~o.deleted
           o1 == [o EXCEPT !.state = state, !.want = hosts]
           p == [o1 EXCEPT !.conf.nsrc = Cardinality(hosts)]
           o2 == IF stale THEN Enqueue(p, Task("aggrUpdate")) ELSE o1
           todo == {h \in known \cap supports : state[h] = IF h \in hosts THEN "off" ELSE "on"}
           cmd(h) == Command(IF h \in hosts THEN "enable" ELSE "disable", None)
<1>1. ObjectInv(i, instn[i]) /\ instn[i].tasks # <<>> /\ o.cur.f = "instrsUpdate"
  <2>1. Ready(i, {"instrsUpdate"})
    BY DEF StartInstrs
  <2> QED BY <2>1, ReadyObject
<1>2. /\ o \in Objects /\ o.where # "none" /\ o.aggr \in Aggrs
      /\ o.where = instn[i].where /\ o.zones = instn[i].zones /\ o.deleted = instn[i].deleted
      /\ \A k \in DOMAIN o.tasks : k + 1 \in DOMAIN instn[i].tasks
                                   /\ o.tasks[k] = instn[i].tasks[k + 1]
      /\ instn[i].tasks[1] = o.cur /\ 1 \in DOMAIN instn[i].tasks
  BY <1>1, ShiftedObject
<1>3. hosts \in SUBSET Hosts /\ (o.zones # None => hosts = o.zones)
  <2>1. o.zones \in SUBSET Hosts \/ o.zones = None
    BY <1>2 DEF Objects, Zones
  <2> QED BY <2>1
<1>4. Scope(i) # Global => o.zones # None
  BY <1>1, <1>2 DEF ObjectInv, ScopeOK, Has
<1>5. ObjectInv(i, o1)
  <2>1. state \in [Hosts -> {"absent", "off", "on"}]
    BY <1>2 DEF Objects
  <2>2. o1 \in Objects
    BY <1>2, <1>3, <2>1 DEF Objects
  <2>3. /\ o1.where = o.where /\ o1.zones = o.zones /\ o1.cur = o.cur
        /\ o1.deleted = o.deleted /\ o1.want = hosts
        /\ o1.aggr = o.aggr /\ o1.tasks = o.tasks
    BY <1>2 DEF Objects
  <2>4. Placed(o1) /\ Marked(o1)
    BY <1>1, <1>2, <2>3 DEF Placed, Marked, Does
  <2>5. DeadOK(o1)
    <3>1. o.where = "dead" => hosts = {}
      BY <1>1, <1>2, <1>3, ConstantsAssumption DEF ObjectInv, DeadOK
    <3> QED BY <1>1, <1>2, <2>3, <3>1 DEF ObjectInv, DeadOK, DeadFuncs, Does
  <2>6. ScopeOK(i, o1)
    BY <1>3, <1>4, <2>3 DEF ScopeOK
  <2> QED BY <2>2, <2>4, <2>5, <2>6 DEF ObjectInv
<1>6. ObjectInv(i, o2)
  <2>1. CASE ~stale
    BY <1>5, <2>1
  <2>2. CASE stale
    <3>1. o1 \in Objects /\ o1.where = o.where /\ o1.deleted = o.deleted
      BY <1>2, <1>5 DEF ObjectInv, Objects
    <3>2. p \in Objects
      <4>1. Cardinality(hosts) \in 0..Cardinality(Hosts)
        BY <1>3, SourcesType
      <4>2. [o1.conf EXCEPT !.nsrc = Cardinality(hosts)] \in Confs
        BY <3>1, <4>1 DEF Objects, Confs
      <4>3. p = [o1 EXCEPT !.conf = [o1.conf EXCEPT !.nsrc = Cardinality(hosts)]]
        OBVIOUS
      <4> QED BY <3>1, <4>2, <4>3 DEF Objects
    <3>3. /\ p.where = o1.where /\ p.zones = o1.zones /\ p.cur = o1.cur
          /\ p.deleted = o1.deleted /\ p.want = o1.want /\ p.state = o1.state
          /\ p.aggr = o1.aggr /\ p.tasks = o1.tasks
      BY <3>1 DEF Objects
    <3>4. ObjectInv(i, p)
      BY <1>5, <3>2, <3>3 DEF ObjectInv, Placed, Marked, DeadOK, ScopeOK, Does, Has
    <3>5. p.where # "none" /\ p.where # "dead"
      BY <1>1, <1>2, <2>2, <3>1, <3>3 DEF ObjectInv, DeadOK
    <3>6. Task("aggrUpdate") \in Tasks /\ Task("aggrUpdate").f = "aggrUpdate"
      BY DEF Task, Tasks, Funcs
    <3>7. ObjectInv(i, Enqueue(p, Task("aggrUpdate")))
      <4> HIDE DEF p
      <4> QED BY <3>2, <3>4, <3>5, <3>6, EnqueueObject
    <3> QED BY <2>2, <3>7
  <2> QED BY <2>1, <2>2
<1>7. todo \in SUBSET Targets /\ todo \subseteq Hosts
  BY DEF IInv, TypeOK, ServiceType, Targets
<1>8. \E n : ObjectInv(i, n) /\ instn' = [instn EXCEPT ![i] = n]
  <2>1. instn' = [instn EXCEPT ![i] = IF todo = {} THEN Settle(o2) ELSE [o2 EXCEPT !.wait = todo]]
    BY DEF StartInstrs
  <2>2. ObjectInv(i, Settle(o2)) /\ ObjectInv(i, [o2 EXCEPT !.wait = todo])
    BY <1>6, <1>7, SettleObject, WaitObject
  <2> QED BY <2>1, <2>2
<1>9. instn' \in [Instns -> Objects] /\ ObjectsInv'
  BY <1>8, OneObject
<1>10. NetType'
  <2>1. Send([h \in todo |-> cmd(h)], i)
    BY DEF StartInstrs
  <2>2. \A h \in todo : cmd(h) \in Messages(h)
    BY <1>7, ConstantsAssumption DEF Command, Messages
  <2> QED BY <2>1, <2>2, SendType DEF IInv, TypeOK
<1>11. UNCHANGED <<svcVars, extVars, inq, userVars, used>>
  BY DEF StartInstrs
<1> QED BY <1>9, <1>10, <1>11 DEF IInv, TypeOK, ServiceType, ExternalType, InqType,
           UserType, UsedType, svcVars, extVars, userVars

-----------------------------------------------------------------------------
(* The continuations.                                                      *)

LEMMA RunningObject ==
    ASSUME IInv, NEW i \in Instns, NEW funcs, Running(i, funcs)
    PROVE  /\ ObjectInv(i, instn[i]) /\ instn[i] \in Objects
           /\ instn[i].cur \in Tasks /\ instn[i].cur.f \in funcs /\ instn[i].cur # None
           /\ instn[i].where # "none" /\ instn[i].aggr \in Aggrs
           /\ instn[i].where = "dead" => instn[i].cur.f \in DeadFuncs
<1>1. ObjectInv(i, instn[i]) /\ instn[i] \in Objects
  BY DEF IInv, ObjectsInv, ObjectInv
<1> QED BY <1>1 DEF Running, Objects, ObjectInv, Placed, DeadOK

\* Every function has its task.
LEMMA TaskType ==
    /\ \A f \in Funcs : Task(f) \in Tasks /\ Task(f).f = f
    /\ \A f \in Funcs, v \in PropVals \cup {None} :
          Request(f, v) \in Tasks /\ Request(f, v).f = f
BY DEF Task, Tasks, Request

LEMMA StashResult ==
    ASSUME IInv, NEW i \in Instns, NEW ok, NEW t \in Targets, Result(t, i, ok)
    PROVE  NetType' /\ InqType' /\ UsedType'
BY ResultType DEF IInv, TypeOK

LEMMA RespondType ==
    ASSUME IInv, NEW i \in Instns, NEW n \in Int, Respond(i, n)
    PROVE  owed' \in [Instns -> Int]
BY DEF IInv, TypeOK, UserType, Respond

LEMMA CountType ==
    ASSUME IInv, NEW a \in Aggrs
    PROVE  CountLess(a) \in [Aggrs -> Int]
BY DEF IInv, TypeOK, ServiceType, CountLess

\* A new task for an active instrumentation, other than an update of the
\* instrumenters.
LEMMA EnqueueLive ==
    ASSUME NEW i \in Instns, NEW o, ObjectInv(i, o), o.where # "none", o.where # "dead",
           NEW f \in Funcs \ {"instrsUpdate"}
    PROVE  /\ ObjectInv(i, Enqueue(o, Task(f)))
           /\ Enqueue(o, Task(f)).where = o.where
           /\ Enqueue(o, Task(f)).zones = o.zones
<1>1. Task(f) \in Tasks /\ Task(f).f # "instrsUpdate"
  BY DEF Task, Tasks
<1> QED BY <1>1, EnqueueObject

LEMMA CreateDoneInv ==
    ASSUME IInv, NEW i \in Instns, NEW ok \in BOOLEAN, CreateDone(i, ok)
    PROVE  IInv'
<1> DEFINE o == instn[i]
           n == [o EXCEPT !.where = "live"]
           m == Enqueue(n, Task("aggrUpdate"))
<1>1. /\ ObjectInv(i, o) /\ o \in Objects /\ o.cur \in Tasks /\ o.cur.f = "create"
      /\ o.where # "none" /\ o.aggr \in Aggrs /\ o.where # "dead"
  BY RunningObject DEF CreateDone, DeadFuncs
<1>2. NetType' /\ InqType' /\ UsedType'
  BY StashResult DEF CreateDone, Targets
<1>3. owed' \in [Instns -> Int]
  BY RespondType DEF CreateDone
<1>4. UNCHANGED <<svc, nextid, known, supports, listed, extVars, delreq, deadOK, twice>>
  BY DEF CreateDone
<1>5. CASE ok
  <2>1. /\ instn' = [instn EXCEPT ![i] = Settle(Enqueue(m, Task("zonesUpdate")))]
        /\ acked' = acked \cup {i} /\ UNCHANGED ninsts
    BY <1>5 DEF CreateDone
  <2>2. n \in Objects
    BY <1>1 DEF Objects
  <2>3. /\ n.where = "live" /\ n.zones = o.zones /\ n.cur = o.cur /\ n.deleted = o.deleted
        /\ n.want = o.want /\ n.state = o.state /\ n.aggr = o.aggr /\ n.tasks = o.tasks
    BY <1>1 DEF Objects
  <2>4. ObjectInv(i, n)
    BY <1>1, <2>2, <2>3 DEF ObjectInv, Placed, Marked, DeadOK, ScopeOK, Does, Has
  <2>5. ObjectInv(i, m) /\ m.where = "live"
    <3>1. n.where # "none" /\ n.where # "dead" /\ n.where = "live"
      BY <2>3
    <3>2. "aggrUpdate" \in Funcs \ {"instrsUpdate"}
      BY DEF Funcs
    <3> HIDE DEF n
    <3> QED BY <2>4, <3>1, <3>2, EnqueueLive
  <2>6. ObjectInv(i, Enqueue(m, Task("zonesUpdate")))
    BY <2>5, EnqueueLive DEF Funcs
  <2>7. ObjectInv(i, Settle(Enqueue(m, Task("zonesUpdate"))))
    BY <2>6, SettleObject
  <2>8. instn' \in [Instns -> Objects] /\ ObjectsInv'
    BY <2>1, <2>7, OneObject
  <2> QED BY <1>2, <1>3, <1>4, <2>1, <2>8 DEF IInv, TypeOK, ServiceType, ExternalType,
             UserType, extVars
<1>6. CASE ~ok
  <2>1. /\ instn' = [instn EXCEPT ![i] = Blank]
        /\ ninsts' = CountLess(o.aggr) /\ UNCHANGED acked
    BY <1>6 DEF CreateDone
  <2>2. instn' \in [Instns -> Objects] /\ ObjectsInv'
    BY <2>1, BlankObject, OneObject
  <2>3. ninsts' \in [Aggrs -> Int]
    BY <1>1, <2>1, CountType
  <2> QED BY <1>2, <1>3, <1>4, <2>1, <2>2, <2>3 DEF IInv, TypeOK, ServiceType, ExternalType,
             UserType, extVars
<1> QED BY <1>5, <1>6

LEMMA SaveDoneInv ==
    ASSUME IInv, NEW i \in Instns, NEW ok \in BOOLEAN, SaveDone(i, ok)
    PROVE  IInv'
<1>1. ObjectInv(i, Settle(instn[i]))
  BY RunningObject, SettleObject DEF SaveDone
<1>2. NetType' /\ InqType' /\ UsedType'
  BY StashResult DEF SaveDone, Targets
<1>3. /\ instn' = [instn EXCEPT ![i] = Settle(instn[i])]
      /\ UNCHANGED <<svcVars, extVars, userVars>>
  BY DEF SaveDone
<1>4. instn' \in [Instns -> Objects] /\ ObjectsInv'
  BY <1>1, <1>3, OneObject
<1> QED BY <1>2, <1>3, <1>4 DEF IInv, TypeOK, ServiceType, ExternalType, UserType,
           svcVars, extVars, userVars

LEMMA SetPropsDoneInv ==
    ASSUME IInv, NEW i \in Instns, NEW ok \in BOOLEAN, SetPropsDone(i, ok)
    PROVE  IInv'
<1> DEFINE o == instn[i]
           n == [o EXCEPT !.conf.val = o.cur.val]
           m == IF ok THEN Enqueue(n, Task("aggrUpdate")) ELSE o
<1>1. /\ ObjectInv(i, o) /\ o \in Objects /\ o.cur \in Tasks
      /\ o.where # "none" /\ o.where # "dead"
  <2>1. Running(i, {"setprops"})
    BY DEF SetPropsDone
  <2> QED BY <2>1, RunningObject DEF DeadFuncs
<1>2. NetType' /\ InqType' /\ UsedType'
  BY StashResult DEF SetPropsDone, Targets
<1>3. owed' \in [Instns -> Int]
  BY RespondType DEF SetPropsDone
<1>4. n \in Objects
  <2>1. [o.conf EXCEPT !.val = o.cur.val] \in Confs
    BY <1>1 DEF Objects, Confs, Tasks
  <2>2. n = [o EXCEPT !.conf = [o.conf EXCEPT !.val = o.cur.val]]
    OBVIOUS
  <2> QED BY <1>1, <2>1, <2>2 DEF Objects
<1>5. /\ n.where = o.where /\ n.zones = o.zones /\ n.cur = o.cur /\ n.deleted = o.deleted
      /\ n.want = o.want /\ n.state = o.state /\ n.aggr = o.aggr /\ n.tasks = o.tasks
  BY <1>1 DEF Objects
<1>6. ObjectInv(i, n) /\ n.where # "none" /\ n.where # "dead"
  BY <1>1, <1>4, <1>5 DEF ObjectInv, Placed, Marked, DeadOK, ScopeOK, Does, Has
<1>7. ObjectInv(i, m)
  <2>1. "aggrUpdate" \in Funcs \ {"instrsUpdate"}
    BY DEF Funcs
  <2> HIDE DEF n, o
  <2> QED BY <1>1, <1>6, <2>1, EnqueueLive
<1>8. instn' = [instn EXCEPT ![i] = Settle(m)]
  BY DEF SetPropsDone
<1>9. instn' \in [Instns -> Objects] /\ ObjectsInv'
  BY <1>7, <1>8, SettleObject, OneObject
<1>10. UNCHANGED <<svcVars, extVars, acked, delreq, deadOK, twice>>
  BY DEF SetPropsDone
<1> QED BY <1>2, <1>3, <1>9, <1>10 DEF IInv, TypeOK, ServiceType, ExternalType,
           UserType, svcVars, extVars

LEMMA DeleteDoneInv ==
    ASSUME IInv, NEW i \in Instns, NEW ok \in BOOLEAN, DeleteDone(i, ok)
    PROVE  IInv'
<1> DEFINE o == instn[i]
           n == Flush([o EXCEPT !.where = "dead", !.zones = {}])
           e == Enqueue(n, Task("aggrDisable"))
           gone == Enqueue(e, Task("instrsUpdate"))
<1>1. /\ ObjectInv(i, o) /\ o \in Objects /\ o.cur \in Tasks /\ o.cur.f = "delete"
      /\ o.cur # None /\ o.where # "none" /\ o.where # "dead" /\ o.aggr \in Aggrs /\ o.deleted
  <2>1. Running(i, {"delete"})
    BY DEF DeleteDone
  <2> QED BY <2>1, RunningObject DEF DeadFuncs, ObjectInv, Marked, Does
<1>2. NetType' /\ InqType' /\ UsedType'
  BY StashResult DEF DeleteDone, Targets
<1>3. o.tasks \in Seq(Tasks) /\ Requests(o.tasks) \in Nat /\ Answers(o.cur) \in Nat
  BY <1>1, RequestsType DEF Objects, Answers
<1>4. UNCHANGED <<svc, nextid, known, supports, listed, extVars, acked, delreq, twice>>
  BY DEF DeleteDone
<1>5. CASE ok
  <2>1. /\ instn' = [instn EXCEPT ![i] = Settle(gone)]
        /\ ninsts' = CountLess(o.aggr)
        /\ Respond(i, Answers(o.cur) + Requests(o.tasks))
        /\ deadOK' = IF o.cur.rq THEN deadOK \cup {i} ELSE deadOK
    BY <1>5 DEF DeleteDone
  <2>2. ninsts' \in [Aggrs -> Int] /\ owed' \in [Instns -> Int]
    BY <1>1, <1>3, <2>1, CountType, RespondType
  <2>3. ObjectInv(i, Settle(gone))
    (* Until the task ends the object is not yet that of a dead one. *)
    <3>1. n \in Objects /\ n.where = "dead" /\ n.zones = {} /\ n.deleted /\ n.tasks = <<>>
          /\ n.aggr \in Aggrs /\ n.state = o.state /\ n.cur = o.cur
      BY <1>1, EmptySeq DEF Flush, Objects, Zones
    <3>2. gone = [n EXCEPT !.tasks = gone.tasks] /\ gone.tasks \in Seq(Tasks)
          /\ (\A k \in DOMAIN gone.tasks : gone.tasks[k].f \in DeadFuncs)
      <4>1. CASE svc = "stopping"
        <5>1. gone = n
          BY <4>1 DEF Enqueue
        <5> QED BY <3>1, <5>1, EmptySeq DEF Objects
      <4>2. CASE svc # "stopping"
        <5> DEFINE t1 == Append(n.tasks, Task("aggrDisable"))
                   t2 == Append(t1, Task("instrsUpdate"))
        <5>1. t1 \in Seq(Tasks) /\ Len(t1) = 1 /\ t1[1] = Task("aggrDisable")
          <6>1. n.tasks = <<>> /\ Task("aggrDisable") \in Tasks
            BY <3>1, TaskType DEF Funcs
          <6> HIDE DEF n
          <6>2. t1 = Append(<<>>, Task("aggrDisable"))
            BY <6>1
          <6> HIDE DEF t1
          <6> QED BY <6>1, <6>2, EmptySeq, AppendProperties
        <5>2. t2 \in Seq(Tasks) /\ Len(t2) = 2 /\ t2[1] = t1[1] /\ t2[2] = Task("instrsUpdate")
          BY <5>1, AppendProperties, TaskType DEF Funcs
        <5>3. e = [n EXCEPT !.tasks = t1]
          BY <4>2 DEF Enqueue
        <5>4. gone = [e EXCEPT !.tasks = Append(e.tasks, Task("instrsUpdate"))]
          BY <4>2 DEF Enqueue
        <5>5. e.tasks = t1 /\ gone = [n EXCEPT !.tasks = t2] /\ gone.tasks = t2
          <6> HIDE DEF t1, t2, n, gone, e
          <6>1. e.tasks = t1
            BY <3>1, <5>3 DEF Objects
          <6>2. gone = [n EXCEPT !.tasks = Append(t1, Task("instrsUpdate"))]
            BY <3>1, <5>3, <5>4, <6>1 DEF Objects
          <6> QED BY <3>1, <6>1, <6>2 DEF Objects, t2
        <5>6. DOMAIN t2 = 1..2
          BY <5>2, LenProperties
        <5>7. \A k \in 1..2 : t2[k].f \in DeadFuncs
          BY <5>1, <5>2, TaskType DEF Funcs, DeadFuncs
        <5> HIDE DEF t1, t2
        <5> QED BY <5>2, <5>5, <5>6, <5>7
      <4> QED BY <4>1, <4>2
    <3> HIDE DEF n, gone, e, o
    <3>3. CASE gone.tasks = <<>>
      <4>1. Settle(gone) = Blank
        BY <3>1, <3>2, <3>3 DEF Settle, Objects
      <4> QED BY <4>1, BlankObject
    <3>4. CASE gone.tasks # <<>>
      <4> DEFINE s == [gone EXCEPT !.cur = None, !.wait = {}]
      <4>1. Settle(gone) = s
        BY <3>4 DEF Settle
      <4>2. gone \in Objects
        BY <3>1, <3>2 DEF Objects
      <4>3. s \in Objects
        BY <4>2 DEF Objects
      <4>4. /\ s.where = "dead" /\ s.zones = {} /\ s.deleted /\ s.tasks = gone.tasks
            /\ s.aggr \in Aggrs /\ s.cur = None
        BY <3>1, <3>2, <4>2 DEF Objects
      <4>5. Placed(s) /\ Marked(s) /\ DeadOK(s)
        BY <3>2, <4>4 DEF Placed, Marked, DeadOK, Does
      <4>6. ScopeOK(i, s)
        BY <4>4, ConstantsAssumption DEF ScopeOK, Does
      <4> QED BY <4>1, <4>3, <4>5, <4>6 DEF ObjectInv
    <3> QED BY <3>3, <3>4
  <2>4. instn' \in [Instns -> Objects] /\ ObjectsInv'
    BY <2>1, <2>3, OneObject
  <2> QED BY <1>2, <1>4, <2>1, <2>2, <2>4 DEF IInv, TypeOK, ServiceType, ExternalType,
             UserType, extVars
<1>6. CASE ~ok
  <2> DEFINE m == [o EXCEPT !.deleted = FALSE]
  <2>1. /\ instn' = [instn EXCEPT ![i] = Settle(m)]
        /\ Respond(i, Answers(o.cur))
        /\ UNCHANGED <<ninsts, deadOK>>
    BY <1>6 DEF DeleteDone
  <2>2. owed' \in [Instns -> Int]
    BY <1>3, <2>1, RespondType
  <2>3. m \in Objects
    BY <1>1 DEF Objects
  <2>4. /\ m.where = o.where /\ m.zones = o.zones /\ m.cur = o.cur /\ m.deleted = FALSE
        /\ m.want = o.want /\ m.state = o.state /\ m.aggr = o.aggr /\ m.tasks = o.tasks
    BY <1>1 DEF Objects
  <2> DEFINE s == [m EXCEPT !.cur = None, !.wait = {}]
  <2>5. Settle(m) = s
    BY <1>1, <2>4 DEF Settle
  <2>6. s \in Objects
    BY <2>3 DEF Objects
  <2>7. /\ s.where = o.where /\ s.zones = o.zones /\ s.cur = None
        /\ s.state = o.state /\ s.aggr = o.aggr /\ s.tasks = o.tasks
    BY <2>3, <2>4 DEF Objects
  <2>8. ObjectInv(i, s)
    BY <1>1, <2>6, <2>7 DEF ObjectInv, Placed, Marked, DeadOK, ScopeOK, Does, Has
  <2>9. instn' \in [Instns -> Objects] /\ ObjectsInv'
    BY <2>1, <2>5, <2>8, OneObject
  <2> QED BY <1>2, <1>4, <2>1, <2>2, <2>9 DEF IInv, TypeOK, ServiceType, ExternalType,
             UserType, extVars
<1> QED BY <1>5, <1>6

LEMMA AggrDoneInv ==
    ASSUME IInv, NEW i \in Instns, NEW ok \in BOOLEAN, AggrDone(i, ok)
    PROVE  IInv'
<1> DEFINE o == instn[i]
<1>1. /\ ObjectInv(i, o) /\ o \in Objects /\ o.where # "none" /\ o.aggr \in Aggrs
      /\ o.cur.f \in {"aggrUpdate", "aggrDisable"}
      /\ o.where = "dead" => o.cur.f \in DeadFuncs
  <2>1. Running(i, {"aggrUpdate", "aggrDisable"})
    BY DEF AggrDone
  <2> QED BY <2>1, RunningObject
<1>2. NetType' /\ InqType' /\ UsedType'
  BY <1>1, StashResult DEF AggrDone, Targets
<1>3. ObjectInv(i, Enqueue(o, Task("aggrDisable")))
  <2>1. /\ Task("aggrDisable") \in Tasks /\ Task("aggrDisable").f \in DeadFuncs
        /\ Task("aggrDisable").f # "instrsUpdate"
    BY DEF Task, Tasks, Funcs, DeadFuncs
  <2> QED BY <1>1, <2>1, EnqueueObject
<1>4. ObjectInv(i, Settle(Retried(o, ok)))
  BY <1>1, <1>3, SettleObject DEF Retried
<1>5. instn' = [instn EXCEPT ![i] = Settle(Retried(o, ok))]
      /\ UNCHANGED <<svcVars, extVars, userVars>>
  BY DEF AggrDone
<1>6. instn' \in [Instns -> Objects] /\ ObjectsInv'
  BY <1>4, <1>5, OneObject
<1> QED BY <1>2, <1>5, <1>6 DEF IInv, TypeOK, ServiceType, ExternalType, UserType,
           svcVars, extVars, userVars

LEMMA ZonesDoneInv ==
    ASSUME IInv, NEW i \in Instns, NEW zs \in SUBSET Hosts, ZonesDone(i, zs)
    PROVE  IInv'
<1> DEFINE o == instn[i]
           n == [o EXCEPT !.zones = zs]
           e == Enqueue(n, Task("save"))
           r == Enqueue(e, Task("instrsUpdate"))
<1>1. /\ ObjectInv(i, o) /\ o \in Objects /\ o.where # "none" /\ o.where # "dead"
      /\ o.cur.f = "zonesUpdate"
  <2>1. Running(i, {"zonesUpdate"})
    BY DEF ZonesDone
  <2> QED BY <2>1, RunningObject DEF DeadFuncs
<1>2. n \in Objects /\ zs # None
  BY <1>1, ConstantsAssumption DEF Objects, Zones
<1>3. /\ n.where = o.where /\ n.zones = zs /\ n.cur = o.cur /\ n.deleted = o.deleted
      /\ n.want = o.want /\ n.state = o.state /\ n.aggr = o.aggr /\ n.tasks = o.tasks
  BY <1>1 DEF Objects
<1>4. ObjectInv(i, n) /\ n.where # "none" /\ n.where # "dead" /\ n.zones = zs
  BY <1>1, <1>2, <1>3 DEF ObjectInv, Placed, Marked, DeadOK, ScopeOK, Does, Has
<1>5. "save" \in Funcs \ {"instrsUpdate"}
  BY DEF Funcs, StashFuncs
<1>6. /\ Task("instrsUpdate") \in Tasks
      /\ Task("instrsUpdate").f \in DeadFuncs
  BY DEF Task, Tasks, Funcs, DeadFuncs
<1>7. instn' = [instn EXCEPT ![i] = Settle(r)]
      /\ UNCHANGED <<svcVars, extVars, msgVars, userVars, used>>
  BY DEF ZonesDone
<1>8. ObjectInv(i, r)
  <2> HIDE DEF n
  <2>1. ObjectInv(i, e) /\ e.where = n.where /\ e.zones = n.zones
    BY <1>4, <1>5, EnqueueLive
  <2> HIDE DEF e
  <2> QED BY <1>2, <1>4, <1>6, <2>1, EnqueueObject
<1>9. instn' \in [Instns -> Objects] /\ ObjectsInv'
  BY <1>7, <1>8, SettleObject, OneObject
<1> QED BY <1>7, <1>9 DEF IInv, TypeOK, ServiceType, ExternalType, NetType, InqType,
           UserType, UsedType, svcVars, extVars, msgVars, userVars

LEMMA ZonesFailInv ==
    ASSUME IInv, NEW i \in Instns, ZonesFail(i)
    PROVE  IInv'
<1>1. /\ ObjectInv(i, instn[i]) /\ instn[i].where # "none" /\ instn[i].where # "dead"
  <2>1. Running(i, {"zonesUpdate"})
    BY DEF ZonesFail
  <2> QED BY <2>1, RunningObject DEF DeadFuncs
<1>2. "zonesUpdate" \in Funcs \ {"instrsUpdate"}
  BY DEF Funcs
<1>3. ObjectInv(i, Settle(Enqueue(instn[i], Task("zonesUpdate"))))
  BY <1>1, <1>2, EnqueueLive, SettleObject
<1>4. instn' = [instn EXCEPT ![i] = Settle(Enqueue(instn[i], Task("zonesUpdate")))]
      /\ UNCHANGED <<svcVars, extVars, msgVars, userVars>> /\ Use("timeouts")
  BY DEF ZonesFail
<1>5. instn' \in [Instns -> Objects] /\ ObjectsInv'
  BY <1>3, <1>4, OneObject
<1>6. UsedType'
  BY <1>4, UseType DEF IInv, TypeOK, Bounded
<1> QED BY <1>4, <1>5, <1>6 DEF IInv, TypeOK, ServiceType, ExternalType, NetType, InqType,
           UserType, svcVars, extVars, msgVars, userVars

LEMMA InstrDoneInv ==
    ASSUME IInv, NEW i \in Instns, NEW h \in Hosts, NEW ok \in BOOLEAN, InstrDone(i, h, ok)
    PROVE  IInv'
<1> DEFINE o == instn[i]
           o1 == [o EXCEPT !.wait = @ \ {h},
                           !.state[h] = IF ~ok THEN @ ELSE IF h \in o.want THEN "on" ELSE "absent"]
<1>1. /\ ObjectInv(i, o) /\ o \in Objects /\ o.where # "none"
      /\ o.cur.f = "instrsUpdate" /\ o.cur # None
  <2>1. Running(i, {"instrsUpdate"})
    BY DEF InstrDone
  <2> QED BY <2>1, RunningObject
<1>2. NetType' /\ InqType' /\ UsedType'
  BY StashResult DEF InstrDone, Targets
<1>3. o1 \in Objects
  BY <1>1 DEF Objects
<1>4. /\ o1.where = o.where /\ o1.zones = o.zones /\ o1.cur = o.cur /\ o1.deleted = o.deleted
      /\ o1.want = o.want /\ o1.aggr = o.aggr /\ o1.tasks = o.tasks
  BY <1>1 DEF Objects
<1>5. ObjectInv(i, o1)
  BY <1>1, <1>3, <1>4 DEF ObjectInv, Placed, Marked, DeadOK, ScopeOK, Does, Has
<1>6. instn' = [instn EXCEPT ![i] = IF o1.wait = {} THEN Settle(o1) ELSE o1]
      /\ UNCHANGED <<svcVars, extVars, userVars>>
  BY DEF InstrDone
<1>7. instn' \in [Instns -> Objects] /\ ObjectsInv'
  <2> HIDE DEF o1
  <2> QED BY <1>5, <1>6, SettleObject, OneObject
<1> QED BY <1>2, <1>6, <1>7 DEF IInv, TypeOK, ServiceType, ExternalType, UserType,
           svcVars, extVars, userVars

-----------------------------------------------------------------------------
(* Requests and notifications.                                             *)

LEMMA HttpTaskInv ==
    ASSUME IInv, NEW i \in Instns, NEW t \in Tasks, t.f \in {"setprops", "delete"},
           HttpTask(i, t)
    PROVE  IInv'
<1>1. ObjectInv(i, instn[i]) /\ instn[i].where = "live"
  BY DEF HttpTask, Live, IInv, ObjectsInv
<1>2. ObjectInv(i, Enqueue(instn[i], t))
  BY <1>1, EnqueueObject
<1>3. /\ instn' = [instn EXCEPT ![i] = Enqueue(@, t)]
      /\ owed' = [owed EXCEPT ![i] = @ + Answers(t)]
      /\ delreq' = IF t.f = "delete" THEN delreq \cup {i} ELSE delreq
      /\ UNCHANGED <<svcVars, extVars, msgVars, acked, deadOK, twice>>
      /\ Use("requests")
  BY DEF HttpTask, Admit
<1>4. instn' \in [Instns -> Objects] /\ ObjectsInv'
  BY <1>2, <1>3, OneObject
<1>5. owed' \in [Instns -> Int] /\ delreq' \subseteq Instns
  BY <1>3 DEF IInv, TypeOK, UserType, Answers
<1>6. UsedType'
  BY <1>3, UseType DEF IInv, TypeOK, Bounded
<1> QED BY <1>3, <1>4, <1>5, <1>6 DEF IInv, TypeOK, ServiceType, ExternalType, NetType,
           InqType, UserType, svcVars, extVars, msgVars

LEMMA HttpInv ==
    ASSUME IInv, NEW i \in Instns, Http(i)
    PROVE  IInv'
<1>1. CASE HttpDelete(i)
  <2>1. Request("delete", None) \in Tasks /\ Request("delete", None).f = "delete"
    BY DEF Request, Tasks, Funcs, StashFuncs
  <2> QED BY <1>1, <2>1, HttpTaskInv DEF HttpDelete
<1>2. CASE Reap(i)
  <2>1. Task("delete") \in Tasks /\ Task("delete").f = "delete"
    BY DEF Task, Tasks, Funcs, StashFuncs
  <2> QED BY <1>2, <2>1, HttpTaskInv DEF Reap
<1>3. ASSUME NEW v \in PropVals, HttpSetProps(i, v) PROVE IInv'
  <2>1. Request("setprops", v) \in Tasks /\ Request("setprops", v).f = "setprops"
    BY DEF Request, Tasks, Funcs, StashFuncs
  <2> QED BY <1>3, <2>1, HttpTaskInv DEF HttpSetProps
<1> QED BY <1>1, <1>2, <1>3 DEF Http

LEMMA HttpCreateInv ==
    ASSUME IInv, NEW s \in Scopes, NEW v \in PropVals, HttpCreate(s, v)
    PROVE  IInv'
<1> DEFINE i == <<s, nextid[s]>>
<1>1. nextid[s] \in 1..MaxId /\ MaxId \in Nat
  <2>1. nextid[s] <= MaxId
    BY DEF HttpCreate
  <2>2. nextid[s] \in 1..(MaxId + 1)
    BY DEF IInv, TypeOK, ServiceType
  <2> QED BY <2>1, <2>2, ConstantsAssumption
<1>2. i \in Instns
  BY <1>1 DEF Instns
<1>3. /\ UsedType'
      /\ nextid' \in [Scopes -> 1..(MaxId + 1)]
  <2>1. (Use("requests") \/ Use("early")) /\ nextid' = [nextid EXCEPT ![s] = @ + 1]
    BY DEF HttpCreate, Admit, AdmitEarly
  <2>2. UsedType'
    BY <2>1, UseType DEF IInv, TypeOK, Bounded
  <2> QED BY <1>1, <2>1, <2>2 DEF IInv, TypeOK, ServiceType
<1>4. UNCHANGED <<svc, known, supports, listed, extVars, msgVars>>
  BY DEF HttpCreate
<1>5. CASE UNCHANGED <<ninsts, instn, userVars>>
  BY <1>3, <1>4, <1>5 DEF IInv, TypeOK, ServiceType, ExternalType, NetType, InqType,
     UserType, ObjectsInv, extVars, msgVars, userVars
<1>6. ASSUME NEW a \in Aggrs,
             ninsts' = [ninsts EXCEPT ![a] = @ + 1],
             instn' = [instn EXCEPT ![i] =
                 Enqueue([Blank EXCEPT !.where = "creating", !.aggr = a, !.conf.val = v],
                         Request("create", None))],
             owed' = [owed EXCEPT ![i] = @ + 1],
             acked' = acked \ {i}, delreq' = delreq \ {i}, deadOK' = deadOK \ {i},
             UNCHANGED twice
      PROVE  IInv'
  <2> DEFINE n == [Blank EXCEPT !.where = "creating", !.aggr = a, !.conf.val = v]
  <2>1. n \in Objects /\ n.where = "creating" /\ n.aggr = a /\ n.tasks = <<>> /\ n.cur = None
        /\ n.state = [h \in Hosts |-> "absent"]
    <3>1. Blank \in Objects
      BY <1>2, BlankObject DEF ObjectInv
    <3>2. [Blank.conf EXCEPT !.val = v] \in Confs
      BY <3>1 DEF Objects, Confs
    <3>3. n = [Blank EXCEPT !.where = "creating", !.aggr = a,
                            !.conf = [Blank.conf EXCEPT !.val = v]]
      OBVIOUS
    <3>4. n \in Objects
      BY <3>1, <3>2, <3>3 DEF Objects
    <3> QED BY <3>4 DEF Blank
  <2>2. ObjectInv(i, n)
    BY <2>1 DEF ObjectInv, Placed, Marked, DeadOK, ScopeOK, Does, Has
  <2>3. Request("create", None) \in Tasks /\ Request("create", None).f = "create"
    BY DEF Request, Tasks, Funcs, StashFuncs
  <2>4. ObjectInv(i, Enqueue(n, Request("create", None)))
    <3> HIDE DEF n
    <3> QED BY <1>2, <2>1, <2>2, <2>3, EnqueueObject
  <2>5. instn' \in [Instns -> Objects] /\ ObjectsInv'
    BY <1>2, <1>6, <2>4, OneObject
  <2> QED BY <1>3, <1>4, <1>6, <2>5 DEF IInv, TypeOK, ServiceType, ExternalType, NetType,
             InqType, UserType, extVars, msgVars
<1> QED BY <1>5, <1>6 DEF HttpCreate


LEMMA HeardType ==
    ASSUME IInv, NEW t \in Targets, Heard(t) \/ DropLate(t)
    PROVE  InqType'
<1>1. inq[t] \in Seq(Replies) /\ inq[t] # <<>> /\ inq' = [inq EXCEPT ![t] = Tail(@)]
  BY DEF Heard, DropLate, IInv, TypeOK, InqType
<1>2. Tail(inq[t]) \in Seq(Replies)
  BY <1>1, HeadTailProperties
<1> QED BY <1>1, <1>2 DEF IInv, TypeOK, InqType

LEMMA AggOnlineInv ==
    ASSUME IInv, NEW a \in Aggrs, AggOnline(a)
    PROVE  IInv'
<1> DEFINE n(i) == IF ToPoke(i, a) THEN Enqueue(instn[i], Task("aggrUpdate")) ELSE instn[i]
<1>1. /\ known' = known \cup {a} /\ instn' = [i \in Instns |-> n(i)]
      /\ UNCHANGED <<svc, ninsts, nextid, supports, listed, extVars, net, userVars, used>>
  BY DEF AggOnline
<1>2. InqType'
  BY HeardType DEF AggOnline, Targets
<1>3. ASSUME NEW i \in Instns PROVE ObjectInv(i, n(i))
  <2>1. ObjectInv(i, instn[i]) /\ (ToPoke(i, a) => instn[i].where = "live")
    BY DEF IInv, ObjectsInv, ToPoke, Live
  <2>2. "aggrUpdate" \in Funcs \ {"instrsUpdate"}
    BY DEF Funcs
  <2> QED BY <2>1, <2>2, EnqueueLive
<1>4. instn' \in [Instns -> Objects] /\ ObjectsInv'
  <2> HIDE DEF n
  <2> QED BY <1>1, <1>3 DEF ObjectInv, ObjectsInv
<1> QED BY <1>1, <1>2, <1>4 DEF IInv, TypeOK, ServiceType, ExternalType, NetType, UserType,
           UsedType, extVars, userVars

LEMMA HostOnlineInv ==
    ASSUME IInv, NEW h \in Hosts, NEW ok \in BOOLEAN, HostOnline(h, ok)
    PROVE  IInv'
<1> DEFINE n(i) == IF ok /\ Live(i) THEN Restarted(Refreshed(i, h), h) ELSE instn[i]
<1>1. /\ known' = known \cup {h}
      /\ supports' = IF ok THEN supports \cup {h} ELSE supports \ {h}
      /\ instn' = [i \in Instns |-> n(i)]
      /\ UNCHANGED <<svc, ninsts, nextid, listed, extVars, net, userVars, used>>
  BY DEF HostOnline
<1>2. InqType'
  BY HeardType DEF HostOnline, Targets
<1>3. ASSUME NEW i \in Instns PROVE ObjectInv(i, n(i))
  <2>1. ObjectInv(i, instn[i])
    BY DEF IInv, ObjectsInv
  <2>2. CASE Live(i)
    <3> DEFINE o == Refreshed(i, h)
               r == [o EXCEPT !.state[h] = "off"]
    <3>1. instn[i].where = "live"
      BY <2>2 DEF Live
    <3>2. ObjectInv(i, o) /\ o.where = "live"
      <4>1. "zonesUpdate" \in Funcs \ {"instrsUpdate"}
        BY DEF Funcs
      <4> QED BY <2>1, <3>1, <4>1, EnqueueLive DEF Refreshed
    <3>3. CASE o.state[h] # "absent"
      <4> HIDE DEF o
      <4>1. r \in Objects
        BY <3>2 DEF ObjectInv, Objects
      <4>2. /\ r.where = o.where /\ r.zones = o.zones /\ r.cur = o.cur
            /\ r.deleted = o.deleted /\ r.want = o.want /\ r.aggr = o.aggr /\ r.tasks = o.tasks
        BY <3>2 DEF ObjectInv, Objects
      <4>3. Scope(i) # Global => r.zones # None
        BY <3>2, <3>3, <4>2 DEF ObjectInv, ScopeOK
      <4>4. ObjectInv(i, r) /\ r.where = "live"
        BY <3>2, <4>1, <4>2, <4>3 DEF ObjectInv, Placed, Marked, DeadOK, ScopeOK, Does, Has
      <4>5. Task("instrsUpdate") \in Tasks /\ Task("instrsUpdate").f \in DeadFuncs
        BY DEF Task, Tasks, Funcs, DeadFuncs
      <4>6. ObjectInv(i, Enqueue(r, Task("instrsUpdate")))
        <5> HIDE DEF r
        <5> QED BY <4>3, <4>4, <4>5, EnqueueObject
      <4> QED BY <2>1, <3>3, <4>6 DEF Restarted, o
    <3>4. CASE o.state[h] = "absent"
      BY <2>1, <3>2, <3>4 DEF Restarted
    <3> QED BY <3>3, <3>4
  <2>3. CASE ~Live(i)
    BY <2>1, <2>3
  <2> QED BY <2>2, <2>3
<1>4. instn' \in [Instns -> Objects] /\ ObjectsInv'
  <2> HIDE DEF n
  <2> QED BY <1>1, <1>3 DEF ObjectInv, ObjectsInv
<1> QED BY <1>1, <1>2, <1>4 DEF IInv, TypeOK, ServiceType, ExternalType, NetType, UserType,
           UsedType, extVars, userVars

-----------------------------------------------------------------------------
(* The life of the service, and what it talks to.                          *)

\* There are finitely many instrumentations in any bounded life.
LEMMA InstnsFinite == IsFiniteSet(Instns)
<1>1. IsFiniteSet(Custs) /\ MaxId \in Nat
  BY ConstantsAssumption
<1>2. IsFiniteSet({Global} \cup Custs)
  BY <1>1, FS_Singleton, FS_Union
<1>3. IsFiniteSet(1..MaxId)
  BY <1>1, FS_Interval
<1> QED BY <1>2, <1>3, FS_Product DEF Instns, Scopes

LEMMA LoadedObject ==
    ASSUME IInv, NEW i \in Instns, disk[i] # None
    PROVE  ObjectInv(i, Loaded(i))
<1> DEFINE b == disk[i]
           n == Loaded(i)
           zones == IF Scope(i) # Global /\ b.zones = None THEN {} ELSE b.zones
           cached == Scope(i) = Global \/ b.zones # None
           tasks == <<Task("aggrUpdate")>> \o (IF cached THEN <<Task("instrsUpdate")>> ELSE <<>>)
                    \o <<Task("zonesUpdate")>>
<1>1. b \in Buckets
  BY DEF IInv, TypeOK, ExternalType
<1>2. tasks \in Seq(Tasks)
  <2>1. /\ Task("aggrUpdate") \in Tasks /\ Task("instrsUpdate") \in Tasks
        /\ Task("zonesUpdate") \in Tasks
    BY DEF Task, Tasks, Funcs
  <2>2. /\ <<Task("aggrUpdate")>> \in Seq(Tasks) /\ <<Task("zonesUpdate")>> \in Seq(Tasks)
        /\ (IF cached THEN <<Task("instrsUpdate")>> ELSE <<>>) \in Seq(Tasks)
    BY <2>1, EmptySeq
  <2> QED BY <2>2, ConcatProperties
<1>3. zones \in Zones /\ (Scope(i) # Global => zones # None)
  BY <1>1, ConstantsAssumption DEF Buckets, Zones
<1>4. Blank \in Objects
  BY BlankObject DEF ObjectInv
<1>5. n = [Blank EXCEPT !.where = "live", !.conf = b.conf, !.aggr = b.aggr, !.zones = zones,
                        !.tasks = tasks]
  BY DEF Loaded
<1> HIDE DEF tasks, zones, n
<1>6. n \in Objects
  BY <1>1, <1>2, <1>3, <1>4, <1>5 DEF Objects, Buckets
<1>7. n.where = "live" /\ n.aggr \in Aggrs /\ n.zones = zones /\ n.cur = None
  BY <1>1, <1>4, <1>5 DEF Objects, Buckets, Blank
<1> QED BY <1>3, <1>6, <1>7 DEF ObjectInv, Placed, Marked, DeadOK, ScopeOK, Does, n

\* Commands of displaced objects become nobody's.
LEMMA DisownAllType ==
    ASSUME NEW is, NEW q \in Seq(Replies)
    PROVE  DisownAll(q, is) \in Seq(Replies)
<1>1. /\ Len(q) \in Nat /\ DOMAIN q = 1..Len(q)
      /\ \A k \in 1..Len(q) : q[k] \in Replies
  BY LenProperties
<1>2. LateAck \in Replies
  BY DEF LateAck, Replies
<1> QED BY <1>1, <1>2 DEF DisownAll

LEMMA LoadFetchTypes ==
    ASSUME NetType, InqType, LoadFetch
    PROVE  NetType' /\ InqType'
<1>1. PICK taken :
         /\ net' = [t \in Targets |-> [i \in Instns |-> IF i \in taken THEN Forget(net[t][i])
                                                        ELSE net[t][i]]]
         /\ inq' = [t \in Targets |-> DisownAll(inq[t], taken)]
  BY DEF LoadFetch
<1>2. ASSUME NEW t \in Targets, NEW i \in Instns
      PROVE  (IF i \in taken THEN Forget(net[t][i]) ELSE net[t][i]) \in Seq(Messages(t))
  BY ForgetType DEF NetType
<1>3. ASSUME NEW t \in Targets PROVE DisownAll(inq[t], taken) \in Seq(Replies)
  BY DisownAllType DEF InqType
<1>4. NetType'
  BY <1>1, <1>2 DEF NetType
<1> QED BY <1>1, <1>3, <1>4 DEF InqType

LEMMA LoadFetchInv ==
    ASSUME IInv, LoadFetch
    PROVE  IInv'
<1> DEFINE found == {i \in listed : disk[i] # None}
           taken == {i \in found : instn[i].where # "none"}
           n(i) == IF i \in found THEN Loaded(i) ELSE instn[i]
<1>1. /\ instn' = [i \in Instns |-> n(i)] /\ svc' = "up"
      /\ ninsts' = [a \in Aggrs |-> ninsts[a] + Cardinality({i \in found : disk[i].aggr = a})]
      /\ nextid' \in [Scopes -> 1..(MaxId + 1)] /\ listed' = {}
      /\ twice' = twice \cup taken
      /\ UNCHANGED <<known, supports, extVars, owed, acked, delreq, deadOK, used>>
  BY DEF LoadFetch
<1>2. ASSUME NEW i \in Instns PROVE ObjectInv(i, n(i))
  BY LoadedObject DEF IInv, ObjectsInv
<1>3. instn' \in [Instns -> Objects] /\ ObjectsInv'
  <2> HIDE DEF n
  <2> QED BY <1>1, <1>2 DEF ObjectInv, ObjectsInv
<1>4. ninsts' \in [Aggrs -> Int]
  <2>1. ASSUME NEW a \in Aggrs PROVE Cardinality({i \in found : disk[i].aggr = a}) \in Nat
    <3>1. {i \in found : disk[i].aggr = a} \subseteq Instns
      BY DEF IInv, TypeOK, ServiceType
    <3> QED BY <3>1, InstnsFinite, FS_Subset, FS_CardinalityType
  <2> QED BY <1>1, <2>1 DEF IInv, TypeOK, ServiceType
<1>5. twice' \subseteq Instns
  BY <1>1 DEF IInv, TypeOK, ServiceType, UserType
<1>6. NetType' /\ InqType'
  BY LoadFetchTypes DEF IInv, TypeOK
<1> QED BY <1>1, <1>3, <1>4, <1>5, <1>6 DEF IInv, TypeOK, ServiceType, ExternalType, UserType,
           UsedType, extVars

LEMMA BootInv ==
    ASSUME IInv, Boot
    PROVE  IInv'
<1>1. CASE Start
  BY <1>1 DEF Start, IInv, TypeOK, ServiceType, ExternalType, NetType, InqType, UserType,
     UsedType, ObjectsInv, msgVars, userVars, Targets
<1>2. CASE LoadList
  BY <1>2 DEF LoadList, IInv, TypeOK, ServiceType, ExternalType, NetType, InqType, UserType,
     UsedType, ObjectsInv, extVars, msgVars, userVars
<1>3. CASE LoadFetch
  BY <1>3, LoadFetchInv
<1> QED BY <1>1, <1>2, <1>3 DEF Boot

LEMMA DieInv ==
    ASSUME IInv, Die, UsedType'
    PROVE  IInv'
<1>1. instn' \in [Instns -> Objects] /\ ObjectsInv'
  <2>1. instn' = [i \in Instns |-> Blank]
    BY DEF Die
  <2> QED BY <2>1, BlankObject DEF ObjectInv, ObjectsInv
<1>2. NetType'
  <2>1. net' = [t \in Targets |-> [i \in Instns |-> Forget(net[t][i])]]
    BY DEF Die
  <2>2. ASSUME NEW t \in Targets, NEW i \in Instns PROVE Forget(net[t][i]) \in Seq(Messages(t))
    BY ForgetType DEF IInv, TypeOK, NetType
  <2> QED BY <2>1, <2>2 DEF NetType
<1>3. InqType'
  BY EmptySeq DEF Die, InqType
<1>4. ServiceType'
  <2>1. 1 \in 1..(MaxId + 1)
    BY ConstantsAssumption
  <2> QED BY <2>1 DEF Die, ServiceType
<1>5. ExternalType' /\ UserType'
  BY DEF Die, IInv, TypeOK, ExternalType, UserType
<1> QED BY <1>1, <1>2, <1>3, <1>4, <1>5 DEF IInv, TypeOK

LEMMA StopInv ==
    ASSUME IInv, Stop
    PROVE  IInv'
<1> DEFINE reached(o) == o.where \in {"live", "dead"}
           dropped(o) == IF reached(o) THEN Requests(o.tasks) ELSE 0
           n(i) == IF reached(instn[i]) THEN Flush(instn[i]) ELSE instn[i]
<1>1. /\ svc' = "stopping" /\ instn' = [i \in Instns |-> n(i)]
      /\ owed' = [i \in Instns |-> owed[i] - dropped(instn[i])]
      /\ UNCHANGED <<ninsts, nextid, known, supports, listed, extVars, msgVars, acked, delreq,
                     deadOK, twice>>
      /\ Use("crashes")
  BY DEF Stop
<1>2. ASSUME NEW i \in Instns PROVE ObjectInv(i, n(i)) /\ dropped(instn[i]) \in Int
  <2> DEFINE o == instn[i] f == [o EXCEPT !.tasks = <<>>]
  <2>1. ObjectInv(i, o) /\ o \in Objects /\ o.tasks \in Seq(Tasks)
    BY DEF IInv, ObjectsInv, ObjectInv, Objects
  <2>2. dropped(o) \in Int
    BY <2>1, RequestsType
  <2>3. f \in Objects
    BY <2>1, EmptySeq DEF Objects
  <2>4. /\ f.where = o.where /\ f.zones = o.zones /\ f.cur = o.cur /\ f.deleted = o.deleted
        /\ f.want = o.want /\ f.state = o.state /\ f.aggr = o.aggr /\ f.tasks = <<>>
    BY <2>1 DEF Objects
  <2>5. ObjectInv(i, f)
    BY <2>1, <2>3, <2>4 DEF ObjectInv, Placed, Marked, DeadOK, ScopeOK, Does, Has
  <2> QED BY <2>1, <2>2, <2>5 DEF Flush
<1>3. instn' \in [Instns -> Objects] /\ ObjectsInv'
  <2> HIDE DEF n
  <2> QED BY <1>1, <1>2 DEF ObjectInv, ObjectsInv
<1>4. owed' \in [Instns -> Int]
  <2> HIDE DEF dropped
  <2> QED BY <1>1, <1>2 DEF IInv, TypeOK, UserType
<1>5. UsedType'
  BY <1>1, UseType DEF IInv, TypeOK, Bounded
<1> QED BY <1>1, <1>3, <1>4, <1>5 DEF IInv, TypeOK, ServiceType, ExternalType, NetType,
           InqType, UserType, extVars, msgVars

LEMMA ExecuteInv ==
    ASSUME IInv, NEW t \in Targets, NEW i \in Instns, Execute(t, i)
    PROVE  IInv'
<1>1. ASSUME Carry(t, i)
      PROVE  NetType' /\ InqType' /\ Head(net[t][i]) \in Messages(t)
  BY <1>1, CarryType DEF IInv, TypeOK
<1>2. ASSUME NEW ok \in BOOLEAN, t = Stash, StashCarry(i, ok) PROVE IInv'
  <2>1. NetType' /\ InqType' /\ Head(net[Stash][i]).arg \in Buckets \cup {None}
    BY <1>1, <1>2 DEF StashCarry, Messages
  <2> QED BY <1>2, <2>1 DEF StashCarry, IInv, TypeOK, ServiceType, ExternalType, UserType,
             UsedType, ObjectsInv, svcVars, userVars
<1>3. ASSUME t \in Aggrs, AggCarry(t, i) PROVE IInv'
  <2>1. NetType' /\ InqType' /\ Head(net[t][i]).arg \in Confs \cup {None}
    BY <1>1, <1>3, ConstantsAssumption DEF AggCarry, Messages
  <2> QED BY <1>3, <2>1 DEF AggCarry, IInv, TypeOK, ServiceType, ExternalType, UserType,
             UsedType, ObjectsInv, svcVars, userVars
<1>4. ASSUME t \in Hosts, HostCarry(t, i) PROVE IInv'
  BY <1>1, <1>4 DEF HostCarry, IInv, TypeOK, ServiceType, ExternalType, UserType,
     UsedType, ObjectsInv, svcVars, userVars
<1> QED BY <1>2, <1>3, <1>4 DEF Execute

LEMMA TargetInv ==
    ASSUME IInv, NEW t \in Targets, Notified(t) \/ Announce(t) \/ TargetDown(t) \/ TargetUp(t)
    PROVE  IInv'
<1>1. CASE Notified(t)
  <2>1. CASE DropLate(t)
    <3>1. InqType'
      BY <2>1, HeardType
    <3> QED BY <2>1, <3>1 DEF DropLate, IInv, TypeOK, ServiceType, ExternalType, NetType,
               UserType, UsedType, ObjectsInv, svcVars, extVars, userVars
  <2>2. ASSUME NEW ok \in Metadata, t \in Hosts, HostOnline(t, ok) PROVE IInv'
    BY <2>2, HostOnlineInv, ConstantsAssumption
  <2> QED BY <1>1, <2>1, <2>2, AggOnlineInv DEF Notified
<1>2. Append(inq[t], Online) \in Seq(Replies)
  <2>1. inq[t] \in Seq(Replies) /\ Online \in Replies
    BY DEF IInv, TypeOK, InqType, Online, Replies
  <2> QED BY <2>1, AppendProperties
<1>3. CASE Announce(t)
  <2>1. InqType'
    BY <1>2, <1>3 DEF Announce, IInv, TypeOK, InqType
  <2> QED BY <1>3, <2>1 DEF Announce, IInv, TypeOK, ServiceType, ExternalType, NetType,
             UserType, UsedType, ObjectsInv, svcVars, userVars
<1>4. CASE TargetDown(t)
  <2>1. UsedType'
    BY <1>4, UseType DEF TargetDown, IInv, TypeOK, Bounded
  <2>2. NetType'
    BY <1>4, EmptySeq DEF TargetDown, IInv, TypeOK, NetType
  <2> QED BY <1>4, <2>1, <2>2 DEF TargetDown, IInv, TypeOK, ServiceType, ExternalType, InqType,
             UserType, ObjectsInv, svcVars, userVars
<1>5. CASE TargetUp(t)
  <2>1. InqType'
    BY <1>2, <1>5 DEF TargetUp, IInv, TypeOK, InqType
  <2> QED BY <1>5, <2>1 DEF TargetUp, IInv, TypeOK, ServiceType, ExternalType, NetType,
             UserType, UsedType, ObjectsInv, svcVars, userVars
<1> QED BY <1>1, <1>3, <1>4, <1>5

-----------------------------------------------------------------------------
(* The theorems.                                                           *)

LEMMA InitInv == Init => IInv
<1> SUFFICES ASSUME Init PROVE IInv
  OBVIOUS
<1>1. instn \in [Instns -> Objects] /\ ObjectsInv
  BY BlankObject DEF Init, Empty, ObjectInv, ObjectsInv
<1>2. NetType /\ InqType
  BY EmptySeq DEF Init, Empty, NetType, InqType
<1>3. ServiceType
  BY ConstantsAssumption DEF Init, Empty, ServiceType
<1>4. ExternalType /\ UserType /\ UsedType
  BY DEF Init, Empty, ExternalType, UserType, UsedType
<1> QED BY <1>1, <1>2, <1>3, <1>4 DEF IInv, TypeOK

LEMMA NextInv == IInv /\ [Next]_vars => IInv'
<1> SUFFICES ASSUME IInv, [Next]_vars PROVE IInv'
  OBVIOUS
<1>1. CASE Boot
  BY <1>1, BootInv
<1>2. CASE AssertStopped \/ Crash \/ StopDone
  <2>1. Die /\ UsedType'
    BY <1>2, UseType DEF AssertStopped, Crash, StopDone, IInv, TypeOK, UsedType, Bounded
  <2> QED BY <2>1, DieInv
<1>3. CASE Stop
  BY <1>3, StopInv
<1>4. ASSUME NEW s \in Scopes, NEW v \in PropVals, HttpCreate(s, v) PROVE IInv'
  BY <1>4, HttpCreateInv
<1>5. ASSUME NEW i \in Instns, Http(i) \/ StartTask(i) \/ ZonesFail(i) PROVE IInv'
  BY <1>5, HttpInv, StartSaveInv, StartAggrInv, StartZonesInv, StartInstrsInv, ZonesFailInv
     DEF StartTask
<1>6. ASSUME NEW i \in Instns, NEW ok \in BOOLEAN, EndTask(i, ok) PROVE IInv'
  BY <1>6, CreateDoneInv, SaveDoneInv, SetPropsDoneInv, DeleteDoneInv, AggrDoneInv, InstrDoneInv
     DEF EndTask
<1>7. ASSUME NEW i \in Instns, NEW zs \in SUBSET Hosts, ZonesDone(i, zs) PROVE IInv'
  BY <1>7, ZonesDoneInv
<1>8. ASSUME NEW t \in Targets, Notified(t) \/ Announce(t) \/ TargetDown(t) \/ TargetUp(t)
      PROVE  IInv'
  BY <1>8, TargetInv
<1>9. ASSUME NEW t \in Targets, NEW i \in Instns, Execute(t, i) PROVE IInv'
  BY <1>9, ExecuteInv
<1>10. CASE UNCHANGED vars
  BY <1>10 DEF vars, svcVars, extVars, msgVars, userVars, IInv, TypeOK, ServiceType,
     ExternalType, NetType, InqType, UserType, UsedType, ObjectsInv
<1> QED BY <1>1, <1>2, <1>3, <1>4, <1>5, <1>6, <1>7, <1>8, <1>9, <1>10 DEF Next

\* The inductive invariant holds in every state of the service.
THEOREM Inductive == Spec => []IInv
<1> QED BY InitInv, NextInv, PTL DEF Spec

\* Every variable has its type: in particular what is saved, sent to the stash
\* or loaded from it always names an aggregator, and the ids in use never leave
\* their range.
THEOREM TypeCorrect == Spec => []TypeOK
<1>1. IInv => TypeOK
  BY DEF IInv
<1> QED BY <1>1, Inductive, PTL

\* A deleted instrumentation is only ever disabled: whatever is queued, fails
\* or restarts, instnRun never runs anything else for an instrumentation in
\* cfg_dead.
THEOREM DeadOnlyDisabled == Spec => []DeadOnlyDisables
<1>1. IInv => DeadOnlyDisables
  <2> SUFFICES ASSUME IInv, NEW i \in Instns, instn[i].where = "dead"
               PROVE  /\ ~Doing(i, Funcs \ {"aggrDisable", "instrsUpdate"})
                      /\ Running(i, {"instrsUpdate"}) => instn[i].want = {}
    BY DEF DeadOnlyDisables
  <2>1. DeadOK(instn[i])
    BY DEF IInv, ObjectsInv, ObjectInv
  <2> QED BY <2>1 DEF DeadOK, DeadFuncs, Does, Doing, Running, Queued
<1> QED BY <1>1, Inductive, PTL

\* A customer's instrumentation is propagated only once its zones are known,
\* and exactly to the instrumenters that have some of them.
THEOREM CustomerStaysInZones == Spec => []CustomerScoped
<1>1. IInv => CustomerScoped
  <2> SUFFICES ASSUME IInv, NEW i \in Instns, Scope(i) # Global
               PROVE  /\ Doing(i, {"instrsUpdate"}) => instn[i].zones # None
                      /\ Running(i, {"instrsUpdate"}) => instn[i].want = instn[i].zones
    BY DEF CustomerScoped
  <2>1. ScopeOK(i, instn[i])
    BY DEF IInv, ObjectsInv, ObjectInv
  <2> QED BY <2>1 DEF ScopeOK, Has, Does, Doing, Running, Queued
<1> QED BY <1>1, Inductive, PTL
-----------------------------------------------------------------------------
(* The count of each aggregator and the ids in use.                        *)

Active(o) == o.where \in {"creating", "live"}
Serving(s) == s \in {"up", "stopping"}

\* The next id of a scope exceeds those in use, also while the configuration
\* is loading: what is in memory then was created since the service started.
IdsInUse == \A i \in Instns : instn[i].where # "none" => i[2] < nextid[Scope(i)]

\* Nothing is in memory before the service starts.
Off == svc = "down" => \A i \in Instns : instn[i].where = "none"

CountInv == IdsInUse /\ Off /\ NinstsExact

-----------------------------------------------------------------------------
(* What the service told its clients, and the stash.                       *)

\* The commands for one instrumentation in the queue of the stash, the
\* answers of the stash, and what it has saved: q, r and d.
Pend(q) == \E k \in DOMAIN q : q[k].live
HasAck(r, i) == \E k \in DOMAIN r : r[k] = Ack(i)
Once(r, i) == \A j, k \in DOMAIN r : r[j] = Ack(i) /\ r[k] = Ack(i) => j = k
AllOps(q, op) == \A k \in DOMAIN q : q[k].op = op
LiveOps(q, op) == \A k \in DOMAIN q : q[k].live => q[k].op = op
LastLive(q) == \A k \in DOMAIN q : q[k].live => k = Len(q)
Sent(m) == (m.op = "put" /\ m.arg \in Buckets) \/ (m.op = "del" /\ m.arg = None)
AllSent(q) == \A k \in DOMAIN q : Sent(q[k])

\* The service waits for one command at most, the last one it sent; once that
\* is carried out there is nothing left of it in the queue.
Channel(i, q, r) ==
    /\ LastLive(q) /\ AllSent(q)
    /\ HasAck(r, i) => q = <<>>
    /\ Once(r, i)

\* It waits only in a task that saves; what was sent, and what the
\* acknowledgement means, depends on the task.
Link(i, o, q, r, d) ==
    /\ Pend(q) \/ HasAck(r, i) => o.cur # None /\ o.cur.f \in StashFuncs
    /\ Does(o, "create") => LiveOps(q, "put") /\ (HasAck(r, i) => d # None)
    /\ Does(o, "delete") => LiveOps(q, "del") /\ (HasAck(r, i) => d = None)

\* Only an instrumentation that is being created has a create task, and
\* nothing else; only one whose deletion was asked for is ever deleted.  dr
\* holds the instrumentations whose deletion was asked for.
Errand(i, o, dr) ==
    /\ Has(o, "delete") \/ Does(o, "delete") \/ o.deleted => i \in dr
    /\ Has(o, "create") \/ Does(o, "create") => o.where = "creating"
    /\ o.where = "creating" => /\ ~o.deleted
                               /\ Len(o.tasks) <= 1
                               /\ \A k \in DOMAIN o.tasks : o.tasks[k].f = "create"
                               /\ o.cur # None => o.cur.f = "create" /\ o.tasks = <<>>

\* What clients were told: ac and dd hold the instrumentations whose creation
\* (201) and deletion (204) was answered.
Promise(i, o, q, d, ac, dr, dd) ==
    /\ i \in ac \ dr => d # None /\ AllOps(q, "put")
    /\ i \in dd => d = None /\ AllOps(q, "del") /\ o.where \in {"none", "dead"}

Part(i, o, q, r, d, ac, dr, dd) ==
    Channel(i, q, r) /\ Link(i, o, q, r, d) /\ Promise(i, o, q, d, ac, dr, dd)

SavedInv ==
    \A i \in Instns :
        Part(i, instn[i], net[Stash][i], inq[Stash], disk[i], acked, delreq, deadOK)

\* What clients were told exists is found again when the configuration is
\* loaded, unless it was created after that began, and once it is loaded the id
\* is not handed out again.
FoundInv ==
    /\ svc = "fetch" => \A i \in acked \ delreq : i \in listed \/ i[2] < nextid[Scope(i)]
    /\ Serving(svc) => \A i \in acked \ delreq : i[2] < nextid[Scope(i)]

StashInv == SavedInv /\ FoundInv

-----------------------------------------------------------------------------
(* What most operations do to an object.                                   *)

Saving(o) == o.cur # None /\ o.cur.f \in StashFuncs

\* A change that keeps the object where it is (or drops a dead one), begins
\* no task that saves, and queues no creation and, unless del, no deletion.
Tame(o, n, del) ==
    /\ n.where = o.where \/ (o.where = "dead" /\ n.where = "none")
    /\ n.where # "none" => n.aggr = o.aggr
    /\ o.where = "creating" => n = o
    /\ n.deleted => o.deleted
    /\ Has(n, "delete") => Has(o, "delete") \/ del
    /\ Has(n, "create") => Has(o, "create")
    /\ Saving(n) => n.cur = o.cur

\* ... and ends none either.
Mild(o, n, del) == Tame(o, n, del) /\ (Saving(o) => n.cur = o.cur)

\* An object that does not change, or only in what the invariant does not read.
LEMMA TameSame == ASSUME NEW o, NEW del PROVE Mild(o, o, del)
BY DEF Mild, Tame

LEMMA TameFields ==
    ASSUME NEW o, NEW n, NEW del, o.where # "creating",
           n.where = o.where, n.aggr = o.aggr, n.tasks = o.tasks, n.cur = o.cur,
           n.deleted => o.deleted
    PROVE  Tame(o, n, del)
BY DEF Tame, Saving, Has

\* One change after another.
LEMMA TameThen ==
    ASSUME NEW o, NEW n, NEW m, NEW del, o.where # "creating",
           Tame(o, n, del), Tame(n, m, del), Saving(m) => Saving(n)
    PROVE  Tame(o, m, del)
BY DEF Tame

\* Appending a task.
LEMMA TameEnqueue ==
    ASSUME NEW o \in Objects, NEW t \in Tasks, NEW del, o.where # "creating",
           t.f # "create", t.f = "delete" => del
    PROVE  /\ Tame(o, Enqueue(o, t), del)
           /\ Enqueue(o, t) \in Objects /\ Enqueue(o, t).where = o.where
           /\ Enqueue(o, t).cur = o.cur /\ Enqueue(o, t).deleted = o.deleted
<1> DEFINE n == [o EXCEPT !.tasks = Append(@, t)]
<1>1. CASE svc = "stopping"
  BY <1>1, TameSame DEF Enqueue, Mild
<1>2. CASE svc # "stopping"
  <2>1. o.tasks \in Seq(Tasks)
    BY DEF Objects
  <2>2. /\ Append(o.tasks, t) \in Seq(Tasks)
        /\ \A k \in DOMAIN Append(o.tasks, t) :
              \/ Append(o.tasks, t)[k] = t
              \/ (k \in DOMAIN o.tasks /\ Append(o.tasks, t)[k] = o.tasks[k])
    BY <2>1, AppendProperties, LenProperties
  <2>3. /\ n \in Objects
        /\ n.where = o.where /\ n.cur = o.cur /\ n.deleted = o.deleted /\ n.aggr = o.aggr
        /\ n.tasks = Append(o.tasks, t)
    BY <2>2 DEF Objects
  <2>4. (Has(n, "delete") => Has(o, "delete") \/ del) /\ (Has(n, "create") => Has(o, "create"))
    BY <2>2, <2>3 DEF Has
  <2> QED BY <1>2, <2>3, <2>4 DEF Enqueue, Tame
<1> QED BY <1>1, <1>2

\* The end of a task.
LEMMA TameSettle ==
    ASSUME NEW o \in Objects, NEW del, o.where # "creating"
    PROVE  /\ Tame(o, Settle(o), del) /\ ~Saving(Settle(o))
           /\ Settle(o).cur = None
<1> DEFINE n == [o EXCEPT !.cur = None, !.wait = {}]
<1>1. CASE o.where = "dead" /\ o.tasks = <<>>
  <2>1. /\ Settle(o) = Blank /\ Blank.where = "none" /\ Blank.cur = None /\ ~Blank.deleted
        /\ Blank.tasks = <<>>
    BY <1>1 DEF Settle, Blank
  <2> QED BY <1>1, <2>1 DEF Tame, Saving, Has
<1>2. CASE ~(o.where = "dead" /\ o.tasks = <<>>)
  <2>1. /\ n.where = o.where /\ n.cur = None /\ n.deleted = o.deleted /\ n.aggr = o.aggr
        /\ n.tasks = o.tasks
    BY DEF Objects
  <2> QED BY <1>2, <2>1 DEF Settle, Tame, Saving, Has
<1> QED BY <1>1, <1>2

\* Beginning a task that does not save.
LEMMA TameShifted ==
    ASSUME NEW i \in Instns, ObjectInv(i, instn[i]), instn[i].tasks # <<>>, instn[i].cur = None,
           instn[i].where # "creating", Shifted(i).cur.f \notin StashFuncs, NEW del
    PROVE  Mild(instn[i], Shifted(i), del) /\ ~Saving(Shifted(i))
<1> DEFINE o == instn[i] n == Shifted(i)
<1>1. /\ n.where = o.where /\ n.deleted = o.deleted /\ n.aggr = o.aggr
      /\ \A k \in DOMAIN n.tasks : k + 1 \in DOMAIN o.tasks /\ n.tasks[k] = o.tasks[k + 1]
  BY ShiftedObject
<1>2. (Has(n, "delete") => Has(o, "delete")) /\ (Has(n, "create") => Has(o, "create"))
  BY <1>1 DEF Has
<1> QED BY <1>1, <1>2 DEF Mild, Tame, Saving

-----------------------------------------------------------------------------
(* Steps that only change objects in that way.                             *)

ErrandInv == \A i \in Instns : Errand(i, instn[i], delreq)
LInv == CountInv /\ ErrandInv

Quiet ==
    /\ svc' = svc \/ (svc = "up" /\ svc' = "stopping")
    /\ UNCHANGED <<ninsts, nextid, listed, disk, acked, deadOK, twice>>
    /\ delreq \subseteq delreq'
    /\ net'[Stash] = net[Stash] /\ inq'[Stash] = inq[Stash]
    /\ instn' \in [Instns -> Objects]
    /\ \A i \in Instns : Mild(instn[i], instn'[i], i \in delreq')

\* A step that changes one object.
LEMMA QuietOne ==
    ASSUME IInv, IInv', NEW i \in Instns, NEW n, instn' = [instn EXCEPT ![i] = n],
           Mild(instn[i], n, i \in delreq'),
           UNCHANGED <<svc, ninsts, nextid, listed, disk, acked, deadOK, twice>>,
           delreq \subseteq delreq', net'[Stash] = net[Stash], inq'[Stash] = inq[Stash]
    PROVE  Quiet
<1>1. instn' \in [Instns -> Objects]
  BY DEF IInv, TypeOK
<1>2. ASSUME NEW j \in Instns PROVE Mild(instn[j], instn'[j], j \in delreq')
  <2>1. CASE j = i
    BY <2>1 DEF IInv, TypeOK
  <2>2. CASE j # i
    BY <2>2, TameSame DEF IInv, TypeOK
  <2> QED BY <2>1, <2>2
<1> QED BY <1>1, <1>2 DEF Quiet

\* The channel of the stash when something else is sent or answered.
LEMMA OtherSend ==
    ASSUME NEW cmds, NEW i, Send(cmds, i), Stash \notin DOMAIN cmds
    PROVE  net'[Stash] = net[Stash]
BY DEF Send, Targets

LEMMA OtherResult ==
    ASSUME NetType, InqType, NEW i \in Instns, NEW t \in Aggrs \cup Hosts, NEW ok,
           Result(t, i, ok)
    PROVE  net'[Stash] = net[Stash] /\ inq'[Stash] = inq[Stash]
<1>1. t # Stash /\ Stash \in Targets /\ t \in Targets
  BY ConstantsAssumption DEF Targets
<1>2. CASE Acknowledged(t, i)
  BY <1>1, <1>2 DEF Acknowledged, InqType
<1>3. CASE Failed(t, i)
  <2>1. inq'[Stash] = inq[Stash]
    BY <1>1, <1>3 DEF Failed, InqType
  <2>2. net'[Stash] = net[Stash]
    BY <1>1, <1>3 DEF Failed, Refused, LateAnswer, NoAnswer, NetType
  <2> QED BY <2>1, <2>2
<1> QED BY <1>2, <1>3 DEF Result

\* The object of a task that is not a creation.
LEMMA ReadyFree ==
    ASSUME IInv, LInv, NEW i \in Instns, NEW funcs, Ready(i, funcs), "create" \notin funcs
    PROVE  /\ instn[i] \in Objects /\ ObjectInv(i, instn[i]) /\ instn[i].tasks # <<>>
           /\ instn[i].cur = None /\ instn[i].where # "creating" /\ Shifted(i).cur.f \in funcs
           /\ Shifted(i) \in Objects /\ Shifted(i).where # "creating"
<1>1. /\ ObjectInv(i, instn[i]) /\ instn[i].tasks # <<>> /\ Shifted(i).cur.f \in funcs
      /\ instn[i].cur = None
  BY ReadyObject DEF Ready
<1>2. /\ instn[i].tasks[1] = Shifted(i).cur /\ 1 \in DOMAIN instn[i].tasks
      /\ Shifted(i) \in Objects /\ Shifted(i).where = instn[i].where
  BY <1>1, ShiftedObject
<1>3. instn[i].where # "creating"
  BY <1>1, <1>2 DEF LInv, ErrandInv, Errand
<1> QED BY <1>1, <1>2, <1>3 DEF ObjectInv

LEMMA RunningFree ==
    ASSUME IInv, LInv, NEW i \in Instns, NEW funcs, Running(i, funcs), "create" \notin funcs
    PROVE  instn[i] \in Objects /\ instn[i].where # "creating" /\ instn[i].cur.f \in funcs
           /\ instn[i].cur # None
BY DEF IInv, TypeOK, LInv, ErrandInv, Errand, Running

\* Every function has its task; only some of them save.
LEMMA TaskFacts ==
    /\ \A f \in Funcs : Task(f) \in Tasks /\ Task(f).f = f
    /\ {"aggrUpdate", "aggrDisable", "zonesUpdate", "instrsUpdate", "save"} \subseteq Funcs
    /\ StashFuncs \subseteq Funcs
    /\ StashFuncs \cap {"aggrUpdate", "aggrDisable", "zonesUpdate", "instrsUpdate"} = {}
BY TaskType DEF Funcs, StashFuncs

\* A task that does not save, and its end.
LEMMA MildSettle ==
    ASSUME NEW o, NEW n \in Objects, NEW del, o.where # "creating", n.where # "creating",
           Tame(o, n, del), ~Saving(o)
    PROVE  Mild(o, Settle(n), del)
<1>1. Tame(n, Settle(n), del) /\ ~Saving(Settle(n))
  BY TameSettle
<1>2. Tame(o, Settle(n), del)
  BY <1>1, TameThen
<1> QED BY <1>2 DEF Mild

LEMMA StartAggrQuiet ==
    ASSUME IInv, LInv, IInv', NEW i \in Instns, StartAggr(i)
    PROVE  Quiet
<1> DEFINE o == Shifted(i)
           cmd == IF o.cur.f = "aggrUpdate" THEN Command("enable", o.conf)
                  ELSE Command("disable", None)
<1>1. Ready(i, {"aggrUpdate", "aggrDisable"}) /\ UNCHANGED <<svcVars, extVars, inq, userVars>>
  BY DEF StartAggr
<1>2. /\ instn[i] \in Objects /\ ObjectInv(i, instn[i]) /\ instn[i].tasks # <<>>
      /\ instn[i].cur = None /\ instn[i].where # "creating"
      /\ o.cur.f \in {"aggrUpdate", "aggrDisable"} /\ o \in Objects /\ o.where # "creating"
  BY <1>1, ReadyFree
<1>3. Mild(instn[i], o, i \in delreq') /\ ~Saving(o) /\ ~Saving(instn[i])
  BY <1>2, TaskFacts, TameShifted DEF Saving
<1>4. o.aggr \in Aggrs
  BY <1>2, ShiftedObject
<1>5. CASE o.aggr \in known
  <2> DEFINE n == [o EXCEPT !.wait = {o.aggr}]
  <2>1. instn' = [instn EXCEPT ![i] = n] /\ Send([t \in {o.aggr} |-> cmd], i)
    BY <1>5 DEF StartAggr
  <2>2. /\ n.where = o.where /\ n.aggr = o.aggr /\ n.tasks = o.tasks /\ n.cur = o.cur
        /\ n.deleted = o.deleted
    BY <1>2 DEF Objects
  <2>3. Mild(instn[i], n, i \in delreq')
    <3> HIDE DEF n, o
    <3>1. Tame(o, n, i \in delreq') /\ ~Saving(n)
      BY <1>2, <1>3, <2>2, TameFields DEF Saving
    <3> QED BY <1>2, <1>3, <3>1, TameThen DEF Mild
  <2>4. net'[Stash] = net[Stash]
    BY <1>4, <2>1, OtherSend, ConstantsAssumption
  <2> HIDE DEF n
  <2> QED BY <1>1, <2>1, <2>3, <2>4, QuietOne DEF svcVars, extVars, userVars
<1>6. CASE o.aggr \notin known
  <2>1. instn' = [instn EXCEPT ![i] = Settle(o)] /\ UNCHANGED net
    BY <1>6 DEF StartAggr
  <2>2. Mild(instn[i], Settle(o), i \in delreq')
    BY <1>2, <1>3, MildSettle DEF Mild
  <2> QED BY <1>1, <2>1, <2>2, QuietOne DEF svcVars, extVars, userVars
<1> QED BY <1>5, <1>6

LEMMA StartZonesQuiet ==
    ASSUME IInv, LInv, IInv', NEW i \in Instns, StartZonesGlobal(i) \/ StartZonesCust(i)
    PROVE  Quiet
<1> DEFINE o == Shifted(i)
           n == [o EXCEPT !.zones = None]
<1>1. /\ Ready(i, {"zonesUpdate"})
      /\ UNCHANGED <<svcVars, extVars, msgVars, userVars>>
  BY DEF StartZonesGlobal, StartZonesCust
<1>2. /\ instn[i] \in Objects /\ ObjectInv(i, instn[i]) /\ instn[i].tasks # <<>>
      /\ instn[i].cur = None /\ instn[i].where # "creating"
      /\ o.cur.f = "zonesUpdate" /\ o \in Objects /\ o.where # "creating"
  BY <1>1, ReadyFree
<1>3. Mild(instn[i], o, i \in delreq') /\ ~Saving(o) /\ ~Saving(instn[i])
  BY <1>2, TaskFacts, TameShifted DEF Saving
<1>4. CASE StartZonesGlobal(i)
  <2> DEFINE e == Enqueue(n, Task("instrsUpdate"))
  <2>1. instn' = [instn EXCEPT ![i] = Settle(e)]
    BY <1>4 DEF StartZonesGlobal
  <2>2. /\ n \in Objects
        /\ n.where = o.where /\ n.aggr = o.aggr /\ n.tasks = o.tasks /\ n.cur = o.cur
        /\ n.deleted = o.deleted
    BY <1>2 DEF Objects, Zones
  <2>3. Task("instrsUpdate") \in Tasks /\ Task("instrsUpdate").f = "instrsUpdate"
    BY TaskFacts
  <2> HIDE DEF n, o
  <2>4. Tame(instn[i], n, i \in delreq') /\ n.where # "creating" /\ ~Saving(n)
    <3>1. Tame(o, n, i \in delreq') /\ ~Saving(n)
      BY <1>2, <1>3, <2>2, TameFields DEF Saving
    <3> QED BY <1>2, <1>3, <2>2, <3>1, TameThen DEF Mild
  <2>5. Tame(n, e, i \in delreq') /\ e \in Objects /\ e.where = n.where /\ e.cur = n.cur
    BY <2>2, <2>3, <2>4, TameEnqueue
  <2> HIDE DEF e
  <2>6. Tame(instn[i], e, i \in delreq') /\ e.where # "creating"
    BY <1>2, <2>4, <2>5, TameThen DEF Saving
  <2>7. Mild(instn[i], Settle(e), i \in delreq')
    BY <1>2, <1>3, <2>5, <2>6, MildSettle
  <2> QED BY <1>1, <2>1, <2>7, QuietOne DEF svcVars, extVars, userVars, msgVars
<1>5. CASE StartZonesCust(i)
  <2>1. instn' = [instn EXCEPT ![i] = o]
    BY <1>5 DEF StartZonesCust
  <2> QED BY <1>1, <1>3, <2>1, QuietOne DEF svcVars, extVars, userVars, msgVars
<1> QED BY <1>4, <1>5

LEMMA StartInstrsQuiet ==
    ASSUME IInv, LInv, IInv', NEW i \in Instns, StartInstrs(i)
    PROVE  Quiet
<1> DEFINE o == Shifted(i)
           hosts == IF o.zones = None THEN known \cap Hosts ELSE o.zones
           state == [h \in Hosts |-> IF h \in hosts /\ o.state[h] = "absent"
                                     THEN "off" ELSE o.state[h]]
           stale == o.conf.nsrc # Cardinality(hosts) /\ ~o.deleted
           o1 == [o EXCEPT !.state = state, !.want = hosts]
           p == [o1 EXCEPT !.conf.nsrc = Cardinality(hosts)]
           o2 == IF stale THEN Enqueue(p, Task("aggrUpdate")) ELSE o1
           todo == {h \in known \cap supports : state[h] = IF h \in hosts THEN "off" ELSE "on"}
           cmd(h) == Command(IF h \in hosts THEN "enable" ELSE "disable", None)
<1>1. Ready(i, {"instrsUpdate"}) /\ UNCHANGED <<svcVars, extVars, inq, userVars>>
  BY DEF StartInstrs
<1>2. /\ instn[i] \in Objects /\ ObjectInv(i, instn[i]) /\ instn[i].tasks # <<>>
      /\ instn[i].cur = None /\ instn[i].where # "creating"
      /\ o.cur.f = "instrsUpdate" /\ o \in Objects /\ o.where # "creating"
  BY <1>1, ReadyFree
<1>3. Mild(instn[i], o, i \in delreq') /\ ~Saving(o) /\ ~Saving(instn[i])
  BY <1>2, TaskFacts, TameShifted DEF Saving
<1>4. hosts \in SUBSET Hosts
  BY <1>2 DEF Objects, Zones
<1>5. /\ o1 \in Objects
      /\ o1.where = o.where /\ o1.aggr = o.aggr /\ o1.tasks = o.tasks /\ o1.cur = o.cur
      /\ o1.deleted = o.deleted
  <2>1. state \in [Hosts -> {"absent", "off", "on"}]
    BY <1>2 DEF Objects
  <2> HIDE DEF state, hosts, o
  <2>2. o1 \in Objects
    BY <1>2, <1>4, <2>1 DEF Objects
  <2> QED BY <1>2, <2>2 DEF Objects
<1>6. /\ p \in Objects
      /\ p.where = o.where /\ p.aggr = o.aggr /\ p.tasks = o.tasks /\ p.cur = o.cur
      /\ p.deleted = o.deleted
  <2>1. Cardinality(hosts) \in 0..Cardinality(Hosts)
    BY <1>4, SourcesType
  <2>2. [o1.conf EXCEPT !.nsrc = Cardinality(hosts)] \in Confs
    BY <1>5, <2>1 DEF Objects, Confs
  <2>3. p = [o1 EXCEPT !.conf = [o1.conf EXCEPT !.nsrc = Cardinality(hosts)]]
    OBVIOUS
  <2> HIDE DEF o1, p
  <2> QED BY <1>5, <2>2, <2>3 DEF Objects
<1>7. /\ Tame(instn[i], o2, i \in delreq') /\ ~Saving(o2)
      /\ o2 \in Objects /\ o2.where # "creating"
  <2> HIDE DEF o1, p, o
  <2>1. Tame(instn[i], o1, i \in delreq') /\ ~Saving(o1)
    <3>1. Tame(o, o1, i \in delreq') /\ ~Saving(o1)
      BY <1>2, <1>3, <1>5, TameFields DEF Saving
    <3> QED BY <1>2, <1>3, <3>1, TameThen DEF Mild
  <2>2. Tame(instn[i], p, i \in delreq') /\ ~Saving(p)
    <3>1. Tame(o, p, i \in delreq') /\ ~Saving(p)
      BY <1>2, <1>3, <1>6, TameFields DEF Saving
    <3> QED BY <1>2, <1>3, <3>1, TameThen DEF Mild
  <2>3. LET e == Enqueue(p, Task("aggrUpdate"))
        IN Tame(p, e, i \in delreq') /\ e \in Objects /\ e.where = p.where /\ e.cur = p.cur
    <3>1. Task("aggrUpdate") \in Tasks /\ Task("aggrUpdate").f = "aggrUpdate"
      BY TaskFacts
    <3> QED BY <1>2, <1>6, <3>1, TameEnqueue
  <2>4. CASE stale
    BY <1>2, <1>6, <2>2, <2>3, <2>4, TameThen DEF Saving
  <2>5. CASE ~stale
    BY <1>2, <1>5, <2>1, <2>5
  <2> QED BY <2>4, <2>5
<1>8. todo \subseteq Hosts
  BY DEF IInv, TypeOK, ServiceType
<1>9. /\ instn' = [instn EXCEPT ![i] = IF todo = {} THEN Settle(o2) ELSE [o2 EXCEPT !.wait = todo]]
      /\ Send([h \in todo |-> cmd(h)], i)
  BY DEF StartInstrs
<1>10. net'[Stash] = net[Stash]
  <2> DEFINE cmds == [h \in todo |-> cmd(h)]
  <2>1. Stash \notin DOMAIN cmds
    BY <1>8, ConstantsAssumption
  <2>2. Send(cmds, i)
    BY <1>9
  <2> HIDE DEF cmds
  <2> QED BY <2>1, <2>2, OtherSend
<1> HIDE DEF o2
<1>11. Mild(instn[i], Settle(o2), i \in delreq')
  BY <1>2, <1>3, <1>7, MildSettle
<1>12. Mild(instn[i], [o2 EXCEPT !.wait = todo], i \in delreq')
  <2> DEFINE m == [o2 EXCEPT !.wait = todo]
  <2>1. /\ m.where = o2.where /\ m.aggr = o2.aggr /\ m.tasks = o2.tasks /\ m.cur = o2.cur
        /\ m.deleted = o2.deleted
    BY <1>7 DEF Objects
  <2> HIDE DEF m
  <2>2. Tame(o2, m, i \in delreq') /\ ~Saving(m)
    BY <1>7, <2>1, TameFields DEF Saving
  <2> QED BY <1>2, <1>3, <1>7, <2>2, TameThen DEF Mild, m
<1> HIDE DEF todo
<1> QED BY <1>1, <1>9, <1>10, <1>11, <1>12, QuietOne DEF svcVars, extVars, userVars

LEMMA AggrDoneQuiet ==
    ASSUME IInv, LInv, IInv', NEW i \in Instns, NEW ok, AggrDone(i, ok)
    PROVE  Quiet
<1> DEFINE o == instn[i]
           e == Enqueue(o, Task("aggrDisable"))
<1>1. /\ Running(i, {"aggrUpdate", "aggrDisable"}) /\ Result(o.aggr, i, ok)
      /\ instn' = [instn EXCEPT ![i] = Settle(Retried(o, ok))]
      /\ UNCHANGED <<svcVars, extVars, userVars>>
  BY DEF AggrDone
<1>2. o \in Objects /\ o.where # "creating" /\ o.cur.f \in {"aggrUpdate", "aggrDisable"}
  BY <1>1, RunningFree
<1>3. ~Saving(o) /\ Task("aggrDisable") \in Tasks /\ Task("aggrDisable").f = "aggrDisable"
  BY <1>2, TaskFacts DEF Saving
<1>4. o.aggr \in Aggrs
  BY <1>1, RunningObject
<1>5. Tame(o, o, i \in delreq')
  BY TameSame DEF Mild
<1>6. Tame(o, e, i \in delreq') /\ e \in Objects /\ e.where = o.where
  BY <1>2, <1>3, TameEnqueue
<1>7. Mild(o, Settle(Retried(o, ok)), i \in delreq')
  <2> HIDE DEF o
  <2> QED BY <1>2, <1>3, <1>5, <1>6, MildSettle DEF Retried
<1>8. net'[Stash] = net[Stash] /\ inq'[Stash] = inq[Stash]
  BY <1>1, <1>4, OtherResult DEF IInv, TypeOK
<1> QED BY <1>1, <1>7, <1>8, QuietOne DEF svcVars, extVars, userVars

LEMMA ZonesDoneQuiet ==
    ASSUME IInv, LInv, IInv', NEW i \in Instns, NEW zs \in SUBSET Hosts, ZonesDone(i, zs)
    PROVE  Quiet
<1> DEFINE o == instn[i]
           n == [o EXCEPT !.zones = zs]
           e == Enqueue(n, Task("save"))
           m == Enqueue(e, Task("instrsUpdate"))
<1>1. /\ Running(i, {"zonesUpdate"})
      /\ instn' = [instn EXCEPT ![i] = Settle(m)]
      /\ UNCHANGED <<svcVars, extVars, msgVars, userVars>>
  BY DEF ZonesDone
<1>2. o \in Objects /\ o.where # "creating" /\ o.cur.f = "zonesUpdate" /\ ~Saving(o)
  BY <1>1, RunningFree, TaskFacts DEF Saving
<1>3. /\ Task("save") \in Tasks /\ Task("save").f = "save"
      /\ Task("instrsUpdate") \in Tasks /\ Task("instrsUpdate").f = "instrsUpdate"
  BY TaskFacts
<1>4. /\ n \in Objects
      /\ n.where = o.where /\ n.aggr = o.aggr /\ n.tasks = o.tasks /\ n.cur = o.cur
      /\ n.deleted = o.deleted
  BY <1>2 DEF Objects, Zones
<1> HIDE DEF n, o
<1>5. Tame(o, n, i \in delreq') /\ ~Saving(n)
  BY <1>2, <1>4, TameFields DEF Saving
<1>6. Tame(n, e, i \in delreq') /\ e \in Objects /\ e.where = n.where /\ e.cur = n.cur
  BY <1>2, <1>3, <1>4, TameEnqueue
<1> HIDE DEF e
<1>7. Tame(e, m, i \in delreq') /\ m \in Objects /\ m.where = e.where /\ m.cur = e.cur
  BY <1>2, <1>3, <1>4, <1>6, TameEnqueue
<1> HIDE DEF m
<1>8. Tame(o, m, i \in delreq') /\ m.where # "creating"
  BY <1>2, <1>4, <1>5, <1>6, <1>7, TameThen DEF Saving
<1>9. Mild(o, Settle(m), i \in delreq')
  BY <1>2, <1>7, <1>8, MildSettle
<1> QED BY <1>1, <1>9, QuietOne DEF svcVars, extVars, userVars, msgVars, o

LEMMA ZonesFailQuiet ==
    ASSUME IInv, LInv, IInv', NEW i \in Instns, ZonesFail(i)
    PROVE  Quiet
<1> DEFINE o == instn[i]
           e == Enqueue(o, Task("zonesUpdate"))
<1>1. /\ Running(i, {"zonesUpdate"})
      /\ instn' = [instn EXCEPT ![i] = Settle(e)]
      /\ UNCHANGED <<svcVars, extVars, msgVars, userVars>>
  BY DEF ZonesFail
<1>2. o \in Objects /\ o.where # "creating" /\ o.cur.f = "zonesUpdate" /\ ~Saving(o)
  BY <1>1, RunningFree, TaskFacts DEF Saving
<1>3. Task("zonesUpdate") \in Tasks /\ Task("zonesUpdate").f = "zonesUpdate"
  BY TaskFacts
<1>4. Tame(o, e, i \in delreq') /\ e \in Objects /\ e.where = o.where
  BY <1>2, <1>3, TameEnqueue
<1>5. Mild(o, Settle(e), i \in delreq')
  <2> HIDE DEF e, o
  <2> QED BY <1>2, <1>4, MildSettle
<1> QED BY <1>1, <1>5, QuietOne DEF svcVars, extVars, userVars, msgVars

LEMMA InstrDoneQuiet ==
    ASSUME IInv, LInv, IInv', NEW i \in Instns, NEW h \in Hosts, NEW ok, InstrDone(i, h, ok)
    PROVE  Quiet
<1> DEFINE o == instn[i]
           n == [o EXCEPT !.wait = @ \ {h},
                          !.state[h] = IF ~ok THEN @ ELSE IF h \in o.want THEN "on" ELSE "absent"]
<1>1. /\ Running(i, {"instrsUpdate"}) /\ Result(h, i, ok)
      /\ instn' = [instn EXCEPT ![i] = IF n.wait = {} THEN Settle(n) ELSE n]
      /\ UNCHANGED <<svcVars, extVars, userVars>>
  BY DEF InstrDone
<1>2. o \in Objects /\ o.where # "creating" /\ o.cur.f = "instrsUpdate" /\ ~Saving(o)
  BY <1>1, RunningFree, TaskFacts DEF Saving
<1>3. /\ n \in Objects
      /\ n.where = o.where /\ n.aggr = o.aggr /\ n.tasks = o.tasks /\ n.cur = o.cur
      /\ n.deleted = o.deleted
  BY <1>2 DEF Objects
<1>4. net'[Stash] = net[Stash] /\ inq'[Stash] = inq[Stash]
  BY <1>1, OtherResult DEF IInv, TypeOK
<1> HIDE DEF n
<1>5. Tame(o, n, i \in delreq')
  BY <1>2, <1>3, TameFields
<1>6. Mild(o, Settle(n), i \in delreq') /\ Mild(o, n, i \in delreq')
  BY <1>2, <1>3, <1>5, MildSettle DEF Mild
<1> QED BY <1>1, <1>4, <1>6, QuietOne DEF svcVars, extVars, userVars

\* Requests on an instrumentation, and the reaper.
LEMMA HttpQuiet ==
    ASSUME IInv, LInv, IInv', NEW i \in Instns, Http(i)
    PROVE  Quiet
<1>1. ASSUME NEW t \in Tasks, t.f \in {"setprops", "delete"}, HttpTask(i, t)
      PROVE  Quiet
  <2>1. /\ instn[i].where = "live"
        /\ instn' = [instn EXCEPT ![i] = Enqueue(instn[i], t)]
        /\ delreq' = IF t.f = "delete" THEN delreq \cup {i} ELSE delreq
        /\ UNCHANGED <<svcVars, extVars, msgVars, acked, deadOK, twice>>
    BY <1>1 DEF HttpTask, Live
  <2>2. instn[i] \in Objects
    BY DEF IInv, TypeOK
  <2>3. t.f = "delete" => i \in delreq'
    BY <2>1
  <2>4. /\ Tame(instn[i], Enqueue(instn[i], t), i \in delreq')
        /\ Enqueue(instn[i], t).cur = instn[i].cur
    BY <1>1, <2>1, <2>2, <2>3, TameEnqueue
  <2>5. Mild(instn[i], Enqueue(instn[i], t), i \in delreq')
    BY <2>4 DEF Mild
  <2> QED BY <2>1, <2>5, QuietOne DEF svcVars, extVars, msgVars
<1>2. CASE HttpDelete(i)
  <2>1. Request("delete", None) \in Tasks /\ Request("delete", None).f = "delete"
    BY TaskType DEF Funcs, StashFuncs
  <2> QED BY <1>1, <1>2, <2>1 DEF HttpDelete
<1>3. CASE Reap(i)
  <2>1. Task("delete") \in Tasks /\ Task("delete").f = "delete"
    BY TaskType DEF Funcs, StashFuncs
  <2> QED BY <1>1, <1>3, <2>1 DEF Reap
<1>4. ASSUME NEW v \in PropVals, HttpSetProps(i, v) PROVE Quiet
  <2>1. Request("setprops", v) \in Tasks /\ Request("setprops", v).f = "setprops"
    BY TaskType DEF Funcs, StashFuncs
  <2> QED BY <1>1, <1>4, <2>1 DEF HttpSetProps
<1> QED BY <1>2, <1>3, <1>4 DEF Http

\* Notifications of aggregators and instrumenters.
LEMMA OtherHeard ==
    ASSUME InqType, NEW t \in Aggrs \cup Hosts, Heard(t) \/ DropLate(t)
    PROVE  inq'[Stash] = inq[Stash]
<1>1. t # Stash /\ Stash \in Targets
  BY ConstantsAssumption DEF Targets
<1> QED BY <1>1 DEF Heard, DropLate, InqType

LEMMA AggOnlineQuiet ==
    ASSUME IInv, LInv, IInv', NEW a \in Aggrs, AggOnline(a)
    PROVE  Quiet
<1> DEFINE n(i) == IF ToPoke(i, a) THEN Enqueue(instn[i], Task("aggrUpdate")) ELSE instn[i]
<1>1. /\ Heard(a) /\ instn' = [i \in Instns |-> n(i)]
      /\ UNCHANGED <<svc, ninsts, nextid, listed, extVars, net, userVars>>
  BY DEF AggOnline
<1>2. inq'[Stash] = inq[Stash]
  BY <1>1, OtherHeard DEF IInv, TypeOK
<1>3. ASSUME NEW i \in Instns PROVE Mild(instn[i], n(i), i \in delreq')
  <2>1. CASE ToPoke(i, a)
    <3>1. instn[i] \in Objects /\ instn[i].where = "live"
      BY <2>1 DEF ToPoke, Live, IInv, TypeOK
    <3>2. Task("aggrUpdate") \in Tasks /\ Task("aggrUpdate").f = "aggrUpdate"
      BY TaskFacts
    <3>3. /\ Tame(instn[i], Enqueue(instn[i], Task("aggrUpdate")), i \in delreq')
          /\ Enqueue(instn[i], Task("aggrUpdate")).cur = instn[i].cur
      BY <3>1, <3>2, TameEnqueue
    <3> QED BY <2>1, <3>3 DEF Mild
  <2>2. CASE ~ToPoke(i, a)
    BY <2>2, TameSame
  <2> QED BY <2>1, <2>2
<1>4. \A i \in Instns : Mild(instn[i], instn'[i], i \in delreq')
  <2> HIDE DEF n
  <2> QED BY <1>1, <1>3
<1>5. instn' \in [Instns -> Objects]
  BY DEF IInv, TypeOK
<1> QED BY <1>1, <1>2, <1>4, <1>5 DEF Quiet, extVars, userVars

LEMMA HostOnlineQuiet ==
    ASSUME IInv, LInv, IInv', NEW h \in Hosts, NEW ok, HostOnline(h, ok)
    PROVE  Quiet
<1> DEFINE n(i) == IF ok /\ Live(i) THEN Restarted(Refreshed(i, h), h) ELSE instn[i]
<1>1. /\ Heard(h) /\ instn' = [i \in Instns |-> n(i)]
      /\ UNCHANGED <<svc, ninsts, nextid, listed, extVars, net, userVars>>
  BY DEF HostOnline
<1>2. inq'[Stash] = inq[Stash]
  BY <1>1, OtherHeard DEF IInv, TypeOK
<1>3. ASSUME NEW i \in Instns PROVE Mild(instn[i], n(i), i \in delreq')
  <2>1. CASE Live(i)
    <3> DEFINE o == Refreshed(i, h)
               r == [o EXCEPT !.state[h] = "off"]
               e == Enqueue(r, Task("instrsUpdate"))
    <3>1. instn[i] \in Objects /\ instn[i].where = "live"
      BY <2>1 DEF Live, IInv, TypeOK
    <3>2. /\ Task("zonesUpdate") \in Tasks /\ Task("zonesUpdate").f = "zonesUpdate"
          /\ Task("instrsUpdate") \in Tasks /\ Task("instrsUpdate").f = "instrsUpdate"
      BY TaskFacts
    <3>3. /\ Tame(instn[i], o, i \in delreq') /\ o \in Objects /\ o.where = "live"
          /\ o.cur = instn[i].cur
      BY <3>1, <3>2, TameEnqueue, TameSame DEF Refreshed, Mild
    <3>4. /\ r \in Objects
          /\ r.where = o.where /\ r.aggr = o.aggr /\ r.tasks = o.tasks /\ r.cur = o.cur
          /\ r.deleted = o.deleted
      BY <3>3 DEF Objects
    <3>5. Restarted(o, h) = IF o.state[h] = "absent" THEN o ELSE e
      BY DEF Restarted
    <3> HIDE DEF o, r
    <3>6. Tame(o, r, i \in delreq')
      BY <3>3, <3>4, TameFields
    <3>7. Tame(r, e, i \in delreq') /\ e.cur = r.cur
      BY <3>2, <3>3, <3>4, TameEnqueue
    <3> HIDE DEF e
    <3>8. Tame(instn[i], r, i \in delreq')
      BY <3>1, <3>3, <3>4, <3>6, TameThen DEF Saving
    <3>9. Tame(instn[i], e, i \in delreq') /\ e.cur = instn[i].cur
      BY <3>1, <3>3, <3>4, <3>7, <3>8, TameThen DEF Saving
    <3>10. Mild(instn[i], e, i \in delreq') /\ Mild(instn[i], o, i \in delreq')
      BY <3>3, <3>9 DEF Mild
    <3>11. Mild(instn[i], Restarted(o, h), i \in delreq')
      BY <3>5, <3>10
    <3> QED BY <3>11, TameSame DEF o
  <2>2. CASE ~Live(i)
    BY <2>2, TameSame
  <2> QED BY <2>1, <2>2
<1>4. \A i \in Instns : Mild(instn[i], instn'[i], i \in delreq')
  <2> HIDE DEF n
  <2> QED BY <1>1, <1>3
<1>5. instn' \in [Instns -> Objects]
  BY DEF IInv, TypeOK
<1> QED BY <1>1, <1>2, <1>4, <1>5 DEF Quiet, extVars, userVars

\* stop() only drops tasks.
LEMMA StopQuiet ==
    ASSUME IInv, LInv, IInv', Stop
    PROVE  Quiet
<1> DEFINE reached(o) == o.where \in {"live", "dead"}
           n(i) == IF reached(instn[i]) THEN Flush(instn[i]) ELSE instn[i]
<1>1. /\ svc = "up" /\ svc' = "stopping" /\ instn' = [i \in Instns |-> n(i)]
      /\ UNCHANGED <<ninsts, nextid, listed, extVars, msgVars, acked, delreq, deadOK, twice>>
  BY DEF Stop
<1>2. ASSUME NEW i \in Instns PROVE Mild(instn[i], n(i), i \in delreq')
  <2> DEFINE o == instn[i] f == [o EXCEPT !.tasks = <<>>]
  <2>1. o \in Objects
    BY DEF IInv, TypeOK
  <2>2. /\ f.where = o.where /\ f.cur = o.cur /\ f.deleted = o.deleted /\ f.aggr = o.aggr
        /\ f.tasks = <<>>
    BY <2>1 DEF Objects
  <2>3. reached(o) => Mild(o, f, i \in delreq')
    BY <2>2 DEF Mild, Tame, Has, Saving
  <2> QED BY <2>3, TameSame DEF Flush
<1>3. \A i \in Instns : Mild(instn[i], instn'[i], i \in delreq')
  <2> HIDE DEF n
  <2> QED BY <1>1, <1>2
<1>4. instn' \in [Instns -> Objects]
  BY DEF IInv, TypeOK
<1> QED BY <1>1, <1>3, <1>4 DEF Quiet, extVars, msgVars

\* Aggregators and instrumenters.
LEMMA TargetQuiet ==
    ASSUME IInv, LInv, IInv', NEW t \in Targets,
           \/ Announce(t) \/ TargetUp(t)
           \/ t # Stash /\ (TargetDown(t) \/ DropLate(t))
    PROVE  Quiet
<1>1. /\ UNCHANGED <<svc, ninsts, nextid, listed, disk, acked, deadOK, delreq, twice, instn>>
  BY DEF Announce, TargetUp, TargetDown, DropLate, svcVars, userVars, extVars
<1>2. Stash \in Targets
  BY DEF Targets
<1>3. net'[Stash] = net[Stash]
  BY <1>2 DEF Announce, TargetUp, TargetDown, DropLate, IInv, TypeOK, NetType
<1>4. inq'[Stash] = inq[Stash]
  BY <1>2, ConstantsAssumption DEF Announce, TargetUp, TargetDown, DropLate, IInv, TypeOK, InqType,
     ExternalType
<1>5. instn' \in [Instns -> Objects]
  BY DEF IInv, TypeOK
<1> QED BY <1>1, <1>3, <1>4, <1>5, TameSame DEF Quiet

LEMMA CarryQuiet ==
    ASSUME IInv, LInv, IInv', NEW t \in Aggrs \cup Hosts, NEW i \in Instns,
           AggCarry(t, i) \/ HostCarry(t, i)
    PROVE  Quiet
<1>1. UNCHANGED <<svc, ninsts, nextid, listed, disk, acked, deadOK, delreq, twice, instn>> /\ Carry(t, i)
  BY DEF AggCarry, HostCarry, svcVars, userVars
<1>2. Stash \in Targets /\ t # Stash
  BY ConstantsAssumption DEF Targets
<1>3. net'[Stash] = net[Stash] /\ inq'[Stash] = inq[Stash]
  BY <1>1, <1>2 DEF Carry, IInv, TypeOK, NetType, InqType
<1>4. instn' \in [Instns -> Objects]
  BY DEF IInv, TypeOK
<1> QED BY <1>1, <1>3, <1>4, TameSame DEF Quiet

-----------------------------------------------------------------------------
(* The count of each aggregator.                                           *)

Counted(objects, a) == {i \in Instns : objects[i].aggr = a /\ Active(objects[i])}

LEMMA ExactCounted ==
    NinstsExact <=> (twice = {} => \A a \in Aggrs : ninsts[a] = Cardinality(Counted(instn, a)))
BY DEF NinstsExact, Counted, Active

LEMMA ExactCountedNext ==
    NinstsExact' <=>
        (twice' = {} => \A a \in Aggrs : ninsts'[a] = Cardinality(Counted(instn', a)))
BY DEF NinstsExact, Counted, Active

LEMMA CountedFinite ==
    ASSUME NEW f, NEW a
    PROVE  IsFiniteSet(Counted(f, a)) /\ Cardinality(Counted(f, a)) \in Nat
BY InstnsFinite, FS_Subset, FS_CardinalityType DEF Counted

LEMMA QuietLInv ==
    ASSUME IInv, LInv, Quiet
    PROVE  LInv'
<1>2. IdsInUse'
  BY DEF IdsInUse, Quiet, Mild, Tame, LInv, CountInv
<1>5. Off'
  BY DEF Off, Quiet, Mild, Tame, LInv, CountInv
<1>3. NinstsExact'
  <2>1. ASSUME NEW a \in Aggrs PROVE Counted(instn', a) = Counted(instn, a)
    BY DEF Counted, Quiet, Mild, Tame, Active
  <2> QED BY <2>1, ExactCounted, ExactCountedNext DEF Quiet, LInv, CountInv
<1>4. ASSUME NEW i \in Instns PROVE Errand(i, instn'[i], delreq')
  <2>1. Mild(instn[i], instn'[i], i \in delreq') /\ delreq \subseteq delreq'
    BY DEF Quiet
  <2>2. Errand(i, instn[i], delreq)
    BY DEF LInv, ErrandInv
  <2>3. CASE instn[i].where = "creating"
    <3>1. instn'[i] = instn[i]
      BY <2>1, <2>3 DEF Mild, Tame
    <3> HIDE DEF Mild
    <3> QED BY <2>1, <2>2, <3>1 DEF Errand
  <2>4. CASE instn[i].where # "creating"
    <3>1. instn'[i].where # "creating"
      BY <2>1, <2>4 DEF Mild, Tame
    <3>2. ~Has(instn'[i], "create") /\ (Has(instn'[i], "delete") => i \in delreq')
          /\ (instn'[i].deleted => i \in delreq')
      BY <2>1, <2>2, <2>4 DEF Mild, Tame, Errand
    <3>3. Does(instn'[i], "create") \/ Does(instn'[i], "delete") => instn'[i].cur = instn[i].cur
      BY <2>1 DEF Mild, Tame, Does, Saving, StashFuncs
    <3> QED BY <2>1, <2>2, <2>4, <3>1, <3>2, <3>3 DEF Errand, Does
  <2> QED BY <2>3, <2>4
<1> QED BY <1>2, <1>3, <1>4, <1>5 DEF LInv, CountInv, ErrandInv

-----------------------------------------------------------------------------
(* The tasks that save, for both invariants.  One object changes.          *)

\* What remains to be shown when an object changes and the counts do not.
LEMMA OneLInv ==
    ASSUME IInv, LInv, IInv', NEW i \in Instns, NEW n, instn' = [instn EXCEPT ![i] = n],
           instn[i].where # "none",
           UNCHANGED <<svc, ninsts, nextid, delreq, twice>>,
           Active(n) <=> Active(instn[i]), Active(n) => n.aggr = instn[i].aggr,
           Errand(i, n, delreq)
    PROVE  LInv'
<1>1. instn'[i] = n /\ \A j \in Instns : j # i => instn'[j] = instn[j]
  BY DEF IInv, TypeOK
<1>3. IdsInUse'
  BY <1>1 DEF IdsInUse, LInv, CountInv
<1>2. Off'
  BY DEF Off, LInv, CountInv
<1>4. NinstsExact'
  <2>1. ASSUME NEW a \in Aggrs PROVE Counted(instn', a) = Counted(instn, a)
    BY <1>1 DEF Counted
  <2> QED BY <2>1, ExactCounted, ExactCountedNext DEF LInv, CountInv
<1>5. ErrandInv'
  BY <1>1 DEF ErrandInv, LInv
<1> QED BY <1>2, <1>3, <1>4, <1>5 DEF LInv, CountInv

\* An active instrumentation leaves its aggregator.
LEMMA LeaveLInv ==
    ASSUME IInv, LInv, IInv', NEW i \in Instns, NEW n, instn' = [instn EXCEPT ![i] = n],
           Active(instn[i]), ~Active(n), instn[i].aggr \in Aggrs,
           ninsts' = CountLess(instn[i].aggr),
           UNCHANGED <<svc, nextid, delreq, twice>>,
           Errand(i, n, delreq)
    PROVE  LInv'
<1>1. instn'[i] = n /\ \A j \in Instns : j # i => instn'[j] = instn[j]
  BY DEF IInv, TypeOK
<1>3. IdsInUse'
  BY <1>1 DEF IdsInUse, LInv, CountInv, Active
<1>2. Off'
  BY DEF Off, LInv, CountInv, Active
<1>4. NinstsExact'
  <2> DEFINE b == instn[i].aggr
  <2>1. ASSUME NEW a \in Aggrs, a # b PROVE Counted(instn', a) = Counted(instn, a)
    BY <1>1, <2>1 DEF Counted
  <2>2. Counted(instn', b) = Counted(instn, b) \ {i} /\ i \in Counted(instn, b)
    BY <1>1 DEF Counted
  <2>3. Cardinality(Counted(instn', b)) = Cardinality(Counted(instn, b)) - 1
    <3> DEFINE S == Counted(instn, b)
    <3>1. IsFiniteSet(S) /\ Cardinality(S) \in Nat
      BY CountedFinite
    <3> HIDE DEF S
    <3>2. Cardinality(S \ {i}) = IF i \in S THEN Cardinality(S) - 1 ELSE Cardinality(S)
      BY <3>1, FS_RemoveElement
    <3> QED BY <2>2, <3>2 DEF S
  <2>4. ninsts'[b] = ninsts[b] - 1 /\ \A a \in Aggrs : a # b => ninsts'[a] = ninsts[a]
    BY DEF CountLess, IInv, TypeOK, ServiceType
  <2> HIDE DEF b
  <2> QED BY <2>1, <2>3, <2>4, ExactCounted, ExactCountedNext DEF LInv, CountInv
<1>5. ErrandInv'
  BY <1>1 DEF ErrandInv, LInv
<1> QED BY <1>2, <1>3, <1>4, <1>5 DEF LInv, CountInv

\* The errands of an object after a tame change.
LEMMA TameErrand ==
    ASSUME NEW i, NEW o, NEW n, NEW dr, Errand(i, o, dr), o.where # "creating",
           Tame(o, n, i \in dr)
    PROVE  Errand(i, n, dr) /\ n.where # "creating"
<1>1. n.where # "creating" /\ ~Has(n, "create") /\ (Has(n, "delete") => i \in dr)
      /\ (n.deleted => i \in dr)
  BY DEF Tame, Errand
<1>2. Does(n, "create") \/ Does(n, "delete") => n.cur = o.cur
  BY DEF Tame, Does, Saving, StashFuncs
<1> QED BY <1>1, <1>2 DEF Errand, Does

\* The start of a task that saves: what the object becomes, and what is sent.
LEMMA StartSaveObject ==
    ASSUME IInv, LInv, NEW i \in Instns, StartSave(i)
    PROVE  \E n, cmd :
              /\ instn' = [instn EXCEPT ![i] = n] /\ Send([t \in {Stash} |-> cmd], i)
              /\ instn[i].cur = None /\ instn[i].where \notin {"none", "dead"}
              /\ n.where = instn[i].where /\ n.aggr = instn[i].aggr
              /\ Saving(n) /\ (Does(n, "delete") => n.deleted) /\ Errand(i, n, delreq)
              /\ \/ n.deleted /\ cmd = Command("del", None)
                 \/ ~n.deleted /\ \E b \in Buckets : b.aggr = instn[i].aggr /\ cmd = Command("put", b)
<1> DEFINE w == instn[i]
           o == Shifted(i)
           n == [o EXCEPT !.deleted = Deleted(o), !.wait = {Stash}]
           conf == IF o.cur.f = "setprops" THEN [o.conf EXCEPT !.val = o.cur.val] ELSE o.conf
           cmd == IF Deleted(o) THEN Command("del", None)
                  ELSE Command("put", SaveRequest(o, conf))
<1>1. ObjectInv(i, w) /\ w.tasks # <<>> /\ o.cur.f \in StashFuncs /\ w.cur = None
  BY ReadyObject DEF StartSave, Ready
<1>2. /\ o \in Objects /\ o.aggr \in Aggrs /\ o.cur \in Tasks /\ o.aggr = w.aggr
      /\ o.where # "dead" /\ o.where # "none" /\ o.where = w.where /\ o.deleted = w.deleted
      /\ \A k \in DOMAIN o.tasks : k + 1 \in DOMAIN w.tasks /\ o.tasks[k] = w.tasks[k + 1]
      /\ w.tasks[1] = o.cur /\ 1 \in DOMAIN w.tasks
  BY <1>1, ShiftedObject DEF StashFuncs, DeadFuncs
<1>3. /\ n.where = o.where /\ n.cur = o.cur /\ n.deleted = Deleted(o)
      /\ n.aggr = o.aggr /\ n.tasks = o.tasks
  BY <1>2 DEF Objects
<1>4. o.cur # None
  BY <1>2, NoneAssumption
<1>5. Errand(i, w, delreq)
  BY DEF LInv, ErrandInv
<1>6. Errand(i, n, delreq)
  <2>1. /\ Has(n, "delete") => Has(w, "delete")
        /\ Has(n, "create") => Has(w, "create")
        /\ n.cur.f = "delete" => Has(w, "delete")
        /\ n.cur.f = "create" => Has(w, "create")
    BY <1>2, <1>3 DEF Has
  <2>2. n.deleted => w.deleted \/ Has(w, "delete")
    BY <1>2, <1>3, <2>1 DEF Deleted
  <2>3. Has(n, "delete") \/ Does(n, "delete") \/ n.deleted => i \in delreq
    BY <1>5, <2>1, <2>2 DEF Errand, Does
  <2>4. Has(n, "create") \/ Does(n, "create") => n.where = "creating"
    BY <1>2, <1>3, <1>5, <2>1 DEF Errand, Does
  <2>5. CASE n.where = "creating"
    <3>1. /\ ~w.deleted /\ Len(w.tasks) <= 1
          /\ \A k \in DOMAIN w.tasks : w.tasks[k].f = "create"
      BY <1>2, <1>3, <1>5, <2>5 DEF Errand
    <3>2. n.tasks = <<>> /\ n.cur.f = "create"
      <4>1. o.tasks = Tail(w.tasks) /\ w.tasks \in Seq(Tasks)
        BY <1>1 DEF Shifted, ObjectInv, Objects
      <4>2. Len(o.tasks) = Len(w.tasks) - 1 /\ o.tasks \in Seq(Tasks) /\ Len(w.tasks) \in Nat
        BY <1>1, <4>1, HeadTailProperties, LenProperties
      <4>3. o.tasks = <<>>
        BY <3>1, <4>2, EmptySeq
      <4> QED BY <1>2, <1>3, <3>1, <4>3
    <3>3. ~n.deleted
      BY <1>2, <1>3, <3>1, <3>2 DEF Deleted
    <3>4. Len(n.tasks) <= 1 /\ \A k \in DOMAIN n.tasks : n.tasks[k].f = "create"
      BY <3>2
    <3> HIDE DEF n
    <3> QED BY <2>3, <2>4, <3>2, <3>3, <3>4 DEF Errand
  <2> HIDE DEF n
  <2> QED BY <2>3, <2>4, <2>5 DEF Errand
<1>7. \/ n.deleted /\ cmd = Command("del", None)
      \/ ~n.deleted /\ \E b \in Buckets : b.aggr = w.aggr /\ cmd = Command("put", b)
  <2>1. conf \in Confs /\ o.zones \in Zones
    BY <1>2 DEF Objects, Confs, Tasks
  <2>2. SaveRequest(o, conf) \in Buckets /\ SaveRequest(o, conf).aggr = w.aggr
    BY <1>2, <2>1 DEF SaveRequest, Buckets
  <2>3. n.deleted = Deleted(o)
    BY <1>3
  <2> HIDE DEF n, conf
  <2>4. CASE Deleted(o)
    BY <2>3, <2>4
  <2>5. CASE ~Deleted(o)
    BY <2>2, <2>3, <2>5
  <2> QED BY <2>4, <2>5
<1>8. instn' = [instn EXCEPT ![i] = n] /\ Send([t \in {Stash} |-> cmd], i)
  BY DEF StartSave
<1>9. Saving(n) /\ (Does(n, "delete") => n.deleted)
  BY <1>1, <1>3, <1>4 DEF Saving, Does, Deleted
<1> HIDE DEF n, cmd
<1> QED BY <1>1, <1>2, <1>3, <1>6, <1>7, <1>8, <1>9

\* The end of a creation.
LEMMA CreateDoneObject ==
    ASSUME IInv, LInv, NEW i \in Instns, NEW ok \in BOOLEAN, CreateDone(i, ok)
    PROVE  /\ Does(instn[i], "create") /\ instn[i].where = "creating" /\ instn[i].aggr \in Aggrs
           /\ \E n : /\ instn' = [instn EXCEPT ![i] = n]
                     /\ n.cur = None /\ Errand(i, n, delreq)
                     /\ ok => n.where = "live" /\ n.aggr = instn[i].aggr
                     /\ ~ok => n.where = "none"
<1> DEFINE o == instn[i]
           n == [o EXCEPT !.where = "live"]
           m == Enqueue(n, Task("aggrUpdate"))
           e == Enqueue(m, Task("zonesUpdate"))
<1>1. /\ o \in Objects /\ o.cur.f = "create" /\ o.cur # None /\ o.aggr \in Aggrs
  BY RunningObject DEF CreateDone
<1>2. o.where = "creating" /\ ~o.deleted /\ o.tasks = <<>>
  BY <1>1 DEF LInv, ErrandInv, Errand, Does
<1>3. CASE ok
  <2>1. instn' = [instn EXCEPT ![i] = Settle(e)]
    BY <1>3 DEF CreateDone
  <2>2. /\ n \in Objects /\ n.where = "live" /\ n.aggr = o.aggr /\ n.cur = o.cur
        /\ ~n.deleted /\ n.tasks = <<>>
    BY <1>1, <1>2 DEF Objects
  <2>3. /\ Task("aggrUpdate") \in Tasks /\ Task("aggrUpdate").f = "aggrUpdate"
        /\ Task("zonesUpdate") \in Tasks /\ Task("zonesUpdate").f = "zonesUpdate"
    BY TaskFacts
  <2> HIDE DEF n, o
  <2>4. Tame(n, m, FALSE) /\ m \in Objects /\ m.where = n.where /\ m.cur = n.cur
    BY <2>2, <2>3, TameEnqueue
  <2> HIDE DEF m
  <2>5. Tame(m, e, FALSE) /\ e \in Objects /\ e.where = m.where /\ e.cur = m.cur
    BY <2>2, <2>3, <2>4, TameEnqueue
  <2> HIDE DEF e
  <2>6. Tame(e, Settle(e), FALSE) /\ ~Saving(Settle(e)) /\ Settle(e).cur = None
    BY <2>2, <2>4, <2>5, TameSettle
  <2>7. Tame(n, e, FALSE)
    BY <2>2, <2>4, <2>5, TameThen DEF Saving
  <2>8. Tame(n, Settle(e), FALSE)
    BY <2>2, <2>6, <2>7, TameThen
  <2> HIDE DEF Settle
  <2>9. Settle(e).where = "live" /\ Settle(e).aggr = o.aggr
    BY <2>2, <2>8 DEF Tame
  <2>10. Errand(i, Settle(e), delreq)
    BY <2>2, <2>6, <2>8 DEF Errand, Tame, Has, Does
  <2> QED BY <1>1, <1>2, <1>3, <2>1, <2>6, <2>9, <2>10 DEF Does, o
<1>4. CASE ~ok
  <2>1. instn' = [instn EXCEPT ![i] = Blank]
    BY <1>4 DEF CreateDone
  <2>2. Blank.cur = None /\ Blank.where = "none" /\ Errand(i, Blank, delreq)
    BY DEF Blank, Errand, Has, Does
  <2> QED BY <1>1, <1>2, <1>4, <2>1, <2>2 DEF Does
<1> QED BY <1>3, <1>4

\* The end of any other save, unless it deletes.
LEMMA SaveDoneObject ==
    ASSUME IInv, LInv, NEW i \in Instns, NEW ok \in BOOLEAN,
           SaveDone(i, ok) \/ SetPropsDone(i, ok) \/ (~ok /\ DeleteDone(i, ok))
    PROVE  /\ instn[i].where \notin {"none", "creating", "dead"}
           /\ ~Does(instn[i], "create")
           /\ \E n : /\ instn' = [instn EXCEPT ![i] = n]
                     /\ n.cur = None /\ Tame(instn[i], n, FALSE)
<1> DEFINE o == instn[i]
<1>1. Running(i, {"save", "setprops", "delete"})
  BY DEF SaveDone, SetPropsDone, DeleteDone, Running
<1>2. /\ o \in Objects /\ o.where \notin {"none", "creating", "dead"}
      /\ o.cur.f \in {"save", "setprops", "delete"} /\ o.cur \in Tasks
  <2>1. "create" \notin {"save", "setprops", "delete"}
    OBVIOUS
  <2>2. o \in Objects /\ o.where # "creating" /\ o.cur.f \in {"save", "setprops", "delete"}
    BY <1>1, <2>1, RunningFree
  <2> QED BY <1>1, <2>2, RunningObject DEF DeadFuncs
<1>3. CASE SaveDone(i, ok)
  <2>1. instn' = [instn EXCEPT ![i] = Settle(o)]
    BY <1>3 DEF SaveDone
  <2> QED BY <1>2, <2>1, TameSettle DEF Does
<1>4. CASE SetPropsDone(i, ok)
  <2> DEFINE n == [o EXCEPT !.conf.val = o.cur.val]
             e == Enqueue(n, Task("aggrUpdate"))
  <2>1. instn' = [instn EXCEPT ![i] = Settle(IF ok THEN e ELSE o)]
    BY <1>4 DEF SetPropsDone
  <2>2. /\ n \in Objects
        /\ n.where = o.where /\ n.aggr = o.aggr /\ n.tasks = o.tasks /\ n.cur = o.cur
        /\ n.deleted = o.deleted
    <3>1. [o.conf EXCEPT !.val = o.cur.val] \in Confs
      BY <1>2 DEF Objects, Confs, Tasks
    <3>2. n = [o EXCEPT !.conf = [o.conf EXCEPT !.val = o.cur.val]]
      OBVIOUS
    <3> HIDE DEF n
    <3> QED BY <1>2, <3>1, <3>2 DEF Objects
  <2>3. Task("aggrUpdate") \in Tasks /\ Task("aggrUpdate").f = "aggrUpdate"
    BY TaskFacts
  <2> HIDE DEF n, o
  <2>4. Tame(o, n, FALSE)
    BY <1>2, <2>2, TameFields
  <2>5. Tame(n, e, FALSE) /\ e \in Objects /\ e.where = n.where /\ e.cur = n.cur
    BY <1>2, <2>2, <2>3, TameEnqueue
  <2> HIDE DEF e
  <2>6. Tame(o, e, FALSE)
    BY <1>2, <2>2, <2>4, <2>5, TameThen DEF Saving
  <2>7. /\ Tame(e, Settle(e), FALSE) /\ ~Saving(Settle(e)) /\ Settle(e).cur = None
    BY <1>2, <2>2, <2>5, TameSettle
  <2>8. /\ Tame(o, Settle(o), FALSE) /\ ~Saving(Settle(o)) /\ Settle(o).cur = None
    BY <1>2, TameSettle
  <2>9. Tame(o, Settle(e), FALSE)
    BY <1>2, <2>6, <2>7, TameThen
  <2> QED BY <1>2, <2>1, <2>7, <2>8, <2>9 DEF Does, o
<1>5. CASE ~ok /\ DeleteDone(i, ok)
  <2> DEFINE n == [o EXCEPT !.deleted = FALSE]
  <2>1. instn' = [instn EXCEPT ![i] = Settle(n)]
    BY <1>5 DEF DeleteDone
  <2>2. /\ n \in Objects
        /\ n.where = o.where /\ n.aggr = o.aggr /\ n.tasks = o.tasks /\ n.cur = o.cur
        /\ ~n.deleted
    BY <1>2 DEF Objects
  <2> HIDE DEF n, o
  <2>3. Tame(o, n, FALSE)
    BY <1>2, <2>2, TameFields
  <2>4. Tame(n, Settle(n), FALSE) /\ ~Saving(Settle(n)) /\ Settle(n).cur = None
    BY <1>2, <2>2, TameSettle
  <2>5. Tame(o, Settle(n), FALSE)
    BY <1>2, <2>3, <2>4, TameThen
  <2> QED BY <1>2, <2>1, <2>4, <2>5 DEF Does, o
<1> QED BY <1>3, <1>4, <1>5

\* The end of a deletion.
LEMMA DeleteDoneObject ==
    ASSUME IInv, LInv, NEW i \in Instns, DeleteDone(i, TRUE)
    PROVE  /\ Does(instn[i], "delete") /\ instn[i].where = "live" /\ instn[i].aggr \in Aggrs
           /\ \E n : /\ instn' = [instn EXCEPT ![i] = n]
                     /\ n.cur = None /\ n.where \in {"none", "dead"} /\ Errand(i, n, delreq)
<1> DEFINE o == instn[i]
           n == Flush([o EXCEPT !.where = "dead", !.zones = {}])
           e == Enqueue(n, Task("aggrDisable"))
           g == Enqueue(e, Task("instrsUpdate"))
<1>1. Running(i, {"delete"}) /\ instn' = [instn EXCEPT ![i] = Settle(g)]
  BY DEF DeleteDone
<1>2. /\ o \in Objects /\ o.where = "live" /\ o.aggr \in Aggrs
      /\ o.cur.f = "delete" /\ o.cur # None
  <2>1. o \in Objects /\ o.where # "creating" /\ o.cur.f = "delete" /\ o.cur # None
    BY <1>1, RunningFree
  <2>2. o.where # "none" /\ o.where # "dead" /\ o.aggr \in Aggrs
    BY <1>1, RunningObject DEF DeadFuncs
  <2> QED BY <2>1, <2>2 DEF Objects
<1>3. i \in delreq
  BY <1>2 DEF LInv, ErrandInv, Errand, Does
<1>4. n \in Objects /\ n.where = "dead" /\ n.tasks = <<>> /\ n.cur = o.cur
  BY <1>2, EmptySeq DEF Flush, Objects, Zones
<1>5. /\ Task("aggrDisable") \in Tasks /\ Task("aggrDisable").f = "aggrDisable"
      /\ Task("instrsUpdate") \in Tasks /\ Task("instrsUpdate").f = "instrsUpdate"
  BY TaskFacts
<1> HIDE DEF n, o
<1>6. Tame(n, e, FALSE) /\ e \in Objects /\ e.where = n.where /\ e.cur = n.cur
  BY <1>4, <1>5, TameEnqueue
<1> HIDE DEF e
<1>7. Tame(e, g, FALSE) /\ g \in Objects /\ g.where = e.where /\ g.cur = e.cur
  BY <1>4, <1>5, <1>6, TameEnqueue
<1> HIDE DEF g
<1>8. Tame(g, Settle(g), FALSE) /\ ~Saving(Settle(g)) /\ Settle(g).cur = None
  BY <1>4, <1>6, <1>7, TameSettle
<1>9. Tame(n, g, FALSE)
  BY <1>4, <1>6, <1>7, TameThen DEF Saving
<1>10. Tame(n, Settle(g), FALSE)
  BY <1>4, <1>8, <1>9, TameThen
<1>11. Settle(g).where \in {"none", "dead"} /\ Errand(i, Settle(g), delreq)
  <2>1. ~Has(Settle(g), "create") /\ ~Does(Settle(g), "create")
    BY <1>4, <1>8, <1>10 DEF Tame, Has, Does
  <2> QED BY <1>3, <1>4, <1>10, <2>1 DEF Tame, Errand
<1> QED BY <1>1, <1>2, <1>8, <1>11 DEF Does, o

LEMMA SaveLInv ==
    ASSUME IInv, LInv, IInv', NEW i \in Instns, NEW ok \in BOOLEAN,
           \/ StartSave(i) \/ CreateDone(i, ok) \/ SaveDone(i, ok)
           \/ SetPropsDone(i, ok) \/ DeleteDone(i, ok)
    PROVE  LInv'
<1>1. CASE StartSave(i)
  <2>1. PICK n : /\ instn' = [instn EXCEPT ![i] = n]
                 /\ instn[i].where \notin {"none", "dead"}
                 /\ n.where = instn[i].where /\ n.aggr = instn[i].aggr
                 /\ Errand(i, n, delreq)
    BY <1>1, StartSaveObject
  <2>2. UNCHANGED <<svc, ninsts, nextid, delreq, twice>>
    BY <1>1 DEF StartSave, svcVars, userVars
  <2> QED BY <2>1, <2>2, OneLInv DEF Active
<1>2. CASE CreateDone(i, ok)
  <2>1. PICK n : /\ instn' = [instn EXCEPT ![i] = n]
                 /\ instn[i].where = "creating" /\ instn[i].aggr \in Aggrs
                 /\ n.cur = None /\ Errand(i, n, delreq)
                 /\ ok => n.where = "live" /\ n.aggr = instn[i].aggr
                 /\ ~ok => n.where = "none"
    BY <1>2, CreateDoneObject
  <2>2. UNCHANGED <<svc, nextid, delreq, twice>>
    BY <1>2 DEF CreateDone
  <2>3. CASE ok
    <3>1. UNCHANGED ninsts
      BY <1>2, <2>3 DEF CreateDone
    <3> QED BY <2>1, <2>2, <2>3, <3>1, OneLInv DEF Active
  <2>4. CASE ~ok
    <3>1. ninsts' = CountLess(instn[i].aggr)
      BY <1>2, <2>4 DEF CreateDone
    <3> QED BY <2>1, <2>2, <2>4, <3>1, LeaveLInv DEF Active
  <2> QED BY <2>3, <2>4
<1>3. CASE SaveDone(i, ok) \/ SetPropsDone(i, ok) \/ (~ok /\ DeleteDone(i, ok))
  <2>1. PICK n : /\ instn' = [instn EXCEPT ![i] = n]
                 /\ instn[i].where \notin {"none", "creating", "dead"}
                 /\ n.cur = None /\ Tame(instn[i], n, FALSE)
    BY <1>3, SaveDoneObject
  <2>2. UNCHANGED <<svc, ninsts, nextid, delreq, twice>>
    BY <1>3 DEF SaveDone, SetPropsDone, DeleteDone, svcVars, userVars
  <2>3. Errand(i, instn[i], delreq) /\ Tame(instn[i], n, i \in delreq)
    BY <2>1 DEF LInv, ErrandInv, Tame
  <2>4. Errand(i, n, delreq)
    BY <2>1, <2>3, TameErrand
  <2>5. n.where = instn[i].where /\ n.aggr = instn[i].aggr
    BY <2>1 DEF Tame
  <2> QED BY <2>1, <2>2, <2>4, <2>5, OneLInv DEF Active
<1>4. CASE ok /\ DeleteDone(i, ok)
  <2>1. DeleteDone(i, TRUE)
    BY <1>4
  <2>2. PICK n : /\ instn' = [instn EXCEPT ![i] = n]
                 /\ instn[i].where = "live" /\ instn[i].aggr \in Aggrs
                 /\ n.where \in {"none", "dead"} /\ Errand(i, n, delreq)
    BY <2>1, DeleteDoneObject
  <2>3. UNCHANGED <<svc, nextid, delreq, twice>> /\ ninsts' = CountLess(instn[i].aggr)
    BY <2>1 DEF DeleteDone
  <2> QED BY <2>2, <2>3, LeaveLInv DEF Active
<1> QED BY <1>1, <1>2, <1>3, <1>4

\* The object of a creation that has just been asked for.
LEMMA NewObject ==
    ASSUME NEW i \in Instns, NEW a \in Aggrs, NEW v \in PropVals, NEW dr
    PROVE  LET n == Enqueue([Blank EXCEPT !.where = "creating", !.aggr = a, !.conf.val = v],
                            Request("create", None))
           IN n.where = "creating" /\ n.aggr = a /\ n.cur = None /\ Errand(i, n, dr)
<1> DEFINE b == [Blank EXCEPT !.where = "creating", !.aggr = a, !.conf.val = v]
           t == Request("create", None)
           n == Enqueue(b, t)
<1>1. /\ b.where = "creating" /\ b.aggr = a /\ b.cur = None /\ b.tasks = <<>> /\ ~b.deleted
      /\ b \in Objects
  <2>1. Blank \in Objects
    BY BlankObject DEF ObjectInv
  <2>2. [Blank.conf EXCEPT !.val = v] \in Confs
    BY <2>1 DEF Objects, Confs
  <2>3. b = [Blank EXCEPT !.where = "creating", !.aggr = a,
                          !.conf = [Blank.conf EXCEPT !.val = v]]
    OBVIOUS
  <2>4. b \in Objects
    BY <2>1, <2>2, <2>3 DEF Objects
  <2> QED BY <2>4 DEF Blank
<1>2. t \in Tasks /\ t.f = "create"
  BY TaskType DEF Funcs, StashFuncs
<1> HIDE DEF b, t
<1>3. CASE svc = "stopping"
  <2>1. n = b
    BY <1>3 DEF Enqueue
  <2>2. Errand(i, b, dr)
    BY <1>1, EmptySeq DEF Errand, Has, Does
  <2> QED BY <1>1, <2>1, <2>2 DEF b, t
<1>4. CASE svc # "stopping"
  <2> DEFINE q == Append(<<>>, t)
  <2>1. Len(q) = 1 /\ DOMAIN q = 1..1 /\ q[1] = t /\ q \in Seq(Tasks)
    <3>1. <<>> \in Seq(Tasks) /\ Len(<<>>) = 0
      BY EmptySeq
    <3>2. q \in Seq(Tasks) /\ Len(q) = 1 /\ q[1] = t
      BY <1>2, <3>1, AppendProperties
    <3> QED BY <3>2, LenProperties
  <2>2. n = [b EXCEPT !.tasks = q]
    BY <1>1, <1>4 DEF Enqueue
  <2>3. /\ n.where = "creating" /\ n.aggr = a /\ n.cur = None /\ n.tasks = q /\ ~n.deleted
    BY <1>1, <2>2 DEF Objects
  <2> HIDE DEF n, q
  <2>4. \A k \in DOMAIN n.tasks : n.tasks[k].f = "create"
    BY <1>2, <2>1, <2>3
  <2>5. ~Has(n, "delete") /\ ~Does(n, "delete") /\ ~Does(n, "create")
    BY <2>3, <2>4 DEF Has, Does
  <2>6. Len(n.tasks) <= 1
    <3>1. Len(q) <= 1
      BY <2>1
    <3>2. n.tasks = q
      BY <2>3
    <3> QED BY <3>1, <3>2, Zenon
  <2>7. Errand(i, n, dr)
    BY <2>3, <2>4, <2>5, <2>6 DEF Errand
  <2> QED BY <2>3, <2>7 DEF n, b, t
<1> QED BY <1>3, <1>4

\* What httpInstnCreate does when an aggregator is available.
Created(s, v, a, n) ==
    LET i == <<s, nextid[s]>>
    IN /\ instn' = [instn EXCEPT ![i] = n]
       /\ n.where = "creating" /\ n.aggr = a /\ n.cur = None /\ Errand(i, n, delreq')
       /\ ninsts' = [ninsts EXCEPT ![a] = @ + 1]
       /\ acked' = acked \ {i} /\ delreq' = delreq \ {i} /\ deadOK' = deadOK \ {i}

LEMMA HttpCreateObject ==
    ASSUME IInv, LInv, NEW s \in Scopes, NEW v \in PropVals, HttpCreate(s, v)
    PROVE  /\ <<s, nextid[s]>> \in Instns /\ svc # "down"
           /\ instn[<<s, nextid[s]>>].where = "none" /\ instn[<<s, nextid[s]>>].cur = None
           /\ nextid' = [nextid EXCEPT ![s] = @ + 1]
           /\ UNCHANGED <<svc, listed, disk, net, inq, twice>>
           /\ \/ UNCHANGED <<ninsts, instn, acked, delreq, deadOK>>
              \/ \E a \in Aggrs : \E n : Created(s, v, a, n)
<1> DEFINE i == <<s, nextid[s]>>
<1>1. nextid[s] \in 1..MaxId /\ MaxId \in Nat
  <2>1. nextid[s] <= MaxId
    BY DEF HttpCreate
  <2>2. nextid[s] \in 1..(MaxId + 1)
    BY DEF IInv, TypeOK, ServiceType
  <2> QED BY <2>1, <2>2, ConstantsAssumption
<1>2. i \in Instns /\ svc # "down"
  BY <1>1 DEF Instns, HttpCreate
<1>3. instn[i].where = "none" /\ instn[i].cur = None
  <2>1. ~(i[2] < nextid[Scope(i)])
    BY <1>1 DEF Scope
  <2>2. instn[i].where = "none"
    BY <1>2, <2>1 DEF LInv, CountInv, IdsInUse
  <2>3. Placed(instn[i])
    BY <1>2 DEF IInv, ObjectsInv, ObjectInv
  <2> QED BY <2>2, <2>3 DEF Placed
<1>4. nextid' = [nextid EXCEPT ![s] = @ + 1] /\ UNCHANGED <<svc, listed, disk, net, inq, twice>>
  BY DEF HttpCreate, extVars, msgVars, userVars
<1>5. \/ UNCHANGED <<ninsts, instn, acked, delreq, deadOK>>
      \/ \E a \in Aggrs : \E n : Created(s, v, a, n)
  <2>1. CASE UNCHANGED <<ninsts, instn, userVars>>
    BY <2>1 DEF userVars
  <2>2. ASSUME NEW a \in Aggrs,
               ninsts' = [ninsts EXCEPT ![a] = @ + 1],
               instn' = [instn EXCEPT ![i] =
                   Enqueue([Blank EXCEPT !.where = "creating", !.aggr = a, !.conf.val = v],
                           Request("create", None))],
               acked' = acked \ {i}, delreq' = delreq \ {i}, deadOK' = deadOK \ {i}
        PROVE  \E n : Created(s, v, a, n)
    <3> DEFINE n == Enqueue([Blank EXCEPT !.where = "creating", !.aggr = a, !.conf.val = v],
                            Request("create", None))
    <3>1. n.where = "creating" /\ n.aggr = a /\ n.cur = None /\ Errand(i, n, delreq')
      BY <1>2, NewObject
    <3>2. instn' = [instn EXCEPT ![i] = n]
      BY <2>2
    <3> HIDE DEF n
    <3> QED BY <2>2, <3>1, <3>2 DEF Created
  <2> QED BY <2>1, <2>2 DEF HttpCreate
<1> QED BY <1>2, <1>3, <1>4, <1>5

LEMMA HttpCreateLInv ==
    ASSUME IInv, LInv, IInv', NEW s \in Scopes, NEW v \in PropVals, HttpCreate(s, v)
    PROVE  LInv'
<1> DEFINE i == <<s, nextid[s]>>
<1>1. /\ i \in Instns /\ instn[i].where = "none" /\ svc' # "down"
      /\ nextid' = [nextid EXCEPT ![s] = @ + 1] /\ UNCHANGED twice
      /\ \/ UNCHANGED <<ninsts, instn, acked, delreq, deadOK>>
         \/ \E a \in Aggrs : \E n : Created(s, v, a, n)
  BY HttpCreateObject
<1>5. Off'
  BY <1>1 DEF Off
<1>2. /\ nextid'[s] = nextid[s] + 1 /\ \A t \in Scopes : t # s => nextid'[t] = nextid[t]
      /\ \A t \in Scopes : nextid[t] \in Nat
      /\ \A j \in Instns : j[2] \in Nat /\ Scope(j) \in Scopes
  BY <1>1, ConstantsAssumption DEF IInv, TypeOK, ServiceType, Instns, Scope
<1>3. \A j \in Instns : j[2] < nextid[Scope(j)] => j[2] < nextid'[Scope(j)]
  <2> SUFFICES ASSUME NEW j \in Instns, j[2] < nextid[Scope(j)] PROVE j[2] < nextid'[Scope(j)]
    OBVIOUS
  <2>1. Scope(j) \in Scopes /\ j[2] \in Nat /\ nextid[Scope(j)] \in Nat
    BY <1>2
  <2>2. nextid'[Scope(j)] = nextid[Scope(j)] \/ nextid'[Scope(j)] = nextid[Scope(j)] + 1
    BY <1>2, <2>1
  <2> QED BY <2>1, <2>2
<1>4. i[2] < nextid'[Scope(i)]
  BY <1>2 DEF Scope
<1>6. CASE UNCHANGED <<ninsts, instn, delreq>>
  <2>1. IdsInUse'
    BY <1>1, <1>3, <1>6 DEF IdsInUse, LInv, CountInv
  <2>2. NinstsExact' /\ ErrandInv'
    BY <1>1, <1>6 DEF NinstsExact, ErrandInv, LInv, CountInv
  <2> QED BY <1>5, <2>1, <2>2 DEF LInv, CountInv
<1>7. ASSUME NEW a \in Aggrs, NEW n, Created(s, v, a, n) PROVE LInv'
  <2>1. /\ instn'[i] = n /\ \A j \in Instns : j # i => instn'[j] = instn[j]
        /\ n.where = "creating" /\ n.aggr = a
    BY <1>1, <1>7 DEF IInv, TypeOK, Created
  <2>2. IdsInUse'
    BY <1>1, <1>3, <1>4, <2>1 DEF IdsInUse, LInv, CountInv
  <2>3. NinstsExact'
    <3>1. ASSUME NEW b \in Aggrs, b # a PROVE Counted(instn', b) = Counted(instn, b)
      BY <1>1, <2>1, <3>1 DEF Counted, Active
    <3>2. Counted(instn', a) = Counted(instn, a) \cup {i} /\ i \notin Counted(instn, a)
      BY <1>1, <2>1 DEF Counted, Active
    <3>3. Cardinality(Counted(instn', a)) = Cardinality(Counted(instn, a)) + 1
      <4> DEFINE S == Counted(instn, a)
      <4>1. IsFiniteSet(S)
        BY CountedFinite
      <4> HIDE DEF S
      <4>2. Cardinality(S \cup {i}) = IF i \in S THEN Cardinality(S) ELSE Cardinality(S) + 1
        BY <4>1, FS_AddElement
      <4> QED BY <3>2, <4>2 DEF S
    <3>4. ninsts'[a] = ninsts[a] + 1 /\ \A b \in Aggrs : b # a => ninsts'[b] = ninsts[b]
      BY <1>7 DEF Created, IInv, TypeOK, ServiceType
    <3> QED BY <1>1, <3>1, <3>3, <3>4, ExactCounted, ExactCountedNext DEF LInv, CountInv
  <2>4. ErrandInv'
    <3> SUFFICES ASSUME NEW j \in Instns PROVE Errand(j, instn'[j], delreq')
      BY DEF ErrandInv
    <3>1. CASE j = i
      BY <1>7, <2>1, <3>1 DEF Created
    <3>2. CASE j # i
      <4>1. Errand(j, instn[j], delreq) /\ instn'[j] = instn[j]
        BY <2>1, <3>2 DEF LInv, ErrandInv
      <4>2. j \in delreq => j \in delreq'
        BY <1>7, <3>2 DEF Created
      <4> QED BY <4>1, <4>2 DEF Errand
    <3> QED BY <3>1, <3>2
  <2> QED BY <1>5, <2>2, <2>3, <2>4 DEF LInv, CountInv
<1> QED BY <1>1, <1>6, <1>7

\* Loading: the objects are those of the buckets that were found.
LEMMA LoadedFields ==
    ASSUME IInv, NEW i \in Instns, disk[i] # None, NEW dr
    PROVE  /\ Loaded(i).where = "live" /\ Loaded(i).aggr = disk[i].aggr
           /\ Loaded(i).cur = None /\ Errand(i, Loaded(i), dr)
<1> DEFINE b == disk[i]
           n == Loaded(i)
           zones == IF Scope(i) # Global /\ b.zones = None THEN {} ELSE b.zones
           cached == Scope(i) = Global \/ b.zones # None
           mid == IF cached THEN <<Task("instrsUpdate")>> ELSE <<>>
           tasks == <<Task("aggrUpdate")>> \o mid \o <<Task("zonesUpdate")>>
           Quietly == {t \in Tasks : t.f \notin {"create", "delete"}}
<1>1. tasks \in Seq(Quietly)
  <2>1. /\ Task("aggrUpdate") \in Quietly /\ Task("instrsUpdate") \in Quietly
        /\ Task("zonesUpdate") \in Quietly
    BY TaskFacts
  <2> HIDE DEF Quietly
  <2>2. /\ <<Task("aggrUpdate")>> \in Seq(Quietly) /\ <<Task("zonesUpdate")>> \in Seq(Quietly)
        /\ mid \in Seq(Quietly)
    BY <2>1, EmptySeq
  <2> QED BY <2>2, ConcatProperties
<1>2. n = [Blank EXCEPT !.where = "live", !.conf = b.conf, !.aggr = b.aggr, !.zones = zones,
                        !.tasks = tasks]
  BY DEF Loaded
<1> HIDE DEF tasks, zones, n
<1>3. /\ n.where = "live" /\ n.aggr = b.aggr /\ n.cur = None /\ n.tasks = tasks /\ ~n.deleted
  BY <1>2 DEF Blank
<1>4. \A k \in DOMAIN tasks : tasks[k].f \notin {"create", "delete"}
  <2>1. DOMAIN tasks = 1..Len(tasks) /\ Len(tasks) \in Nat
    BY <1>1, LenProperties
  <2>2. \A k \in 1..Len(tasks) : tasks[k] \in Quietly
    BY <1>1
  <2> QED BY <2>1, <2>2
<1>5. Errand(i, n, dr)
  BY <1>3, <1>4 DEF Errand, Has, Does
<1> QED BY <1>3, <1>5 DEF n

LEMMA LoadFetchObjects ==
    ASSUME IInv, LInv, LoadFetch
    PROVE  LET found == {i \in listed : disk[i] # None}
           IN /\ found \subseteq Instns
              /\ \A i \in found : /\ instn'[i].where = "live" /\ instn'[i].aggr = disk[i].aggr
                                  /\ instn'[i].cur = None /\ Errand(i, instn'[i], delreq)
              /\ \A i \in Instns \ found : instn'[i] = instn[i]
              /\ \A i \in found : i[2] < nextid'[Scope(i)]
              /\ \A i \in Instns : i[2] < nextid[Scope(i)] => i[2] < nextid'[Scope(i)]
<1> DEFINE found == {i \in listed : disk[i] # None}
<1>1. /\ instn' = [i \in Instns |-> IF i \in found THEN Loaded(i) ELSE instn[i]]
      /\ nextid' \in [Scopes -> 1..(MaxId + 1)]
      /\ \A s \in Scopes : \A n \in NextIds(found, s) : n <= nextid'[s]
  BY DEF LoadFetch
<1>2. found \subseteq Instns
  BY DEF IInv, TypeOK, ServiceType
<1>3. ASSUME NEW i \in Instns, i[2] < nextid[Scope(i)] PROVE i[2] < nextid'[Scope(i)]
  <2>1. Scope(i) \in Scopes /\ i[2] \in Nat
    BY DEF Instns, Scope
  <2>2. nextid[Scope(i)] \in NextIds(found, Scope(i))
    BY DEF NextIds
  <2>3. nextid[Scope(i)] <= nextid'[Scope(i)]
    BY <1>1, <2>1, <2>2
  <2>4. nextid[Scope(i)] \in Nat /\ nextid'[Scope(i)] \in Nat
    BY <1>1, <2>1, ConstantsAssumption DEF IInv, TypeOK, ServiceType
  <2> HIDE DEF found
  <2> QED BY <1>3, <2>1, <2>3, <2>4
<1>4. ASSUME NEW i \in found
      PROVE  /\ instn'[i].where = "live" /\ instn'[i].aggr = disk[i].aggr
             /\ instn'[i].cur = None /\ Errand(i, instn'[i], delreq)
  <2>1. instn'[i] = Loaded(i) /\ i \in Instns /\ disk[i] # None
    BY <1>1, <1>2
  <2> QED BY <2>1, LoadedFields
<1>5. \A i \in Instns \ found : instn'[i] = instn[i]
  BY <1>1
<1>6. ASSUME NEW i \in found PROVE i[2] < nextid'[Scope(i)]
  <2>1. Scope(i) \in Scopes /\ i[2] \in Nat
    BY <1>2 DEF Instns, Scope
  <2>2. i[2] + 1 \in NextIds(found, Scope(i))
    BY DEF NextIds
  <2>3. i[2] + 1 <= nextid'[Scope(i)] /\ nextid'[Scope(i)] \in Nat
    BY <1>1, <2>1, <2>2
  <2> QED BY <2>1, <2>3
<1> QED BY <1>2, <1>3, <1>4, <1>5, <1>6

\* The counts, as long as no id has been taken twice: then what is loaded
\* was not in memory.
LEMMA LoadFetchCounts ==
    ASSUME IInv, LInv, LoadFetch, twice' = {}, NEW a \in Aggrs
    PROVE  ninsts'[a] = Cardinality(Counted(instn', a))
<1> DEFINE found == {i \in listed : disk[i] # None}
           F == {i \in found : disk[i].aggr = a}
           C == Counted(instn, a)
<1>1. /\ found \subseteq Instns
      /\ \A i \in found : instn'[i].where = "live" /\ instn'[i].aggr = disk[i].aggr
      /\ \A i \in Instns \ found : instn'[i] = instn[i]
  BY LoadFetchObjects
<1>2. /\ twice = {} /\ \A i \in found : instn[i].where = "none"
      /\ ninsts' = [b \in Aggrs |-> ninsts[b] + Cardinality({i \in found : disk[i].aggr = b})]
  BY DEF LoadFetch
<1> HIDE DEF found
<1>3. Counted(instn', a) = C \cup F
  BY <1>1, <1>2 DEF Counted, Active
<1>4. C \cap F = {}
  BY <1>2 DEF Counted, Active
<1>5. IsFiniteSet(C) /\ Cardinality(C) \in Nat
  BY CountedFinite
<1>6. IsFiniteSet(F) /\ Cardinality(F) \in Nat
  <2>1. F \subseteq Instns
    BY <1>1
  <2> QED BY <2>1, InstnsFinite, FS_Subset, FS_CardinalityType
<1>7. ninsts'[a] = ninsts[a] + Cardinality(F)
  BY <1>2
<1>8. ninsts[a] = Cardinality(C)
  BY <1>2, ExactCounted DEF LInv, CountInv
<1> HIDE DEF C, F
<1>9. Cardinality(C \cup F) = Cardinality(C) + Cardinality(F) - Cardinality(C \cap F)
  BY <1>5, <1>6, FS_Union
<1>10. Cardinality(C \cap F) = 0
  BY <1>4, FS_EmptySet
<1> QED BY <1>3, <1>5, <1>6, <1>7, <1>8, <1>9, <1>10

LEMMA LoadFetchLInv ==
    ASSUME IInv, LInv, IInv', LoadFetch
    PROVE  LInv'
<1> DEFINE found == {i \in listed : disk[i] # None}
<1>1. /\ found \subseteq Instns
      /\ \A i \in found : /\ instn'[i].where = "live" /\ instn'[i].aggr = disk[i].aggr
                          /\ instn'[i].cur = None /\ Errand(i, instn'[i], delreq)
      /\ \A i \in Instns \ found : instn'[i] = instn[i]
      /\ \A i \in found : i[2] < nextid'[Scope(i)]
      /\ \A i \in Instns : i[2] < nextid[Scope(i)] => i[2] < nextid'[Scope(i)]
  BY LoadFetchObjects
<1>2. delreq' = delreq /\ svc' = "up"
  BY DEF LoadFetch
<1> HIDE DEF found
<1>3. IdsInUse'
  BY <1>1 DEF IdsInUse, LInv, CountInv
<1>4. NinstsExact'
  BY LoadFetchCounts, ExactCountedNext
<1>5. ErrandInv'
  BY <1>1, <1>2 DEF ErrandInv, LInv
<1>6. Off'
  BY <1>2 DEF Off
<1> QED BY <1>3, <1>4, <1>5, <1>6 DEF LInv, CountInv

LEMMA DieLInv ==
    ASSUME IInv, LInv, Die
    PROVE  LInv'
<1>1. instn' = [i \in Instns |-> Blank] /\ ninsts' = [a \in Aggrs |-> 0]
  BY DEF Die
<1>2. \A i \in Instns : instn'[i] = Blank
  BY <1>1
<1>3. IdsInUse'
  BY <1>2 DEF IdsInUse, Blank
<1>4. NinstsExact'
  <2>1. ASSUME NEW a \in Aggrs PROVE ninsts'[a] = Cardinality(Counted(instn', a))
    <3>1. Counted(instn', a) = {}
      BY <1>2 DEF Counted, Active, Blank
    <3> QED BY <1>1, <3>1, FS_EmptySet
  <2> QED BY <2>1, ExactCountedNext
<1>5. ErrandInv'
  BY <1>2 DEF ErrandInv, Errand, Has, Does, Blank
<1>6. Off'
  BY <1>2 DEF Off, Blank
<1> QED BY <1>3, <1>4, <1>5, <1>6 DEF LInv, CountInv

\* The steps that are not quiet: the tasks that save, a creation, the life of
\* the service, and what happens to the channel and the disk of the stash.
StashStep(i) == \E ok \in BOOLEAN :
    \/ StartSave(i) \/ CreateDone(i, ok) \/ SaveDone(i, ok)
    \/ SetPropsDone(i, ok) \/ DeleteDone(i, ok)
StashMoves ==
    \/ TargetDown(Stash) \/ DropLate(Stash)
    \/ \E i \in Instns : StashCarry(i, TRUE) \/ (StashErrs /\ StashCarry(i, FALSE))

LEMMA NextCases ==
    ASSUME IInv, LInv, IInv', [Next]_vars
    PROVE  \/ Quiet \/ Start \/ LoadList \/ LoadFetch \/ Die \/ StashMoves
           \/ \E s \in Scopes, v \in PropVals : HttpCreate(s, v)
           \/ \E i \in Instns : StashStep(i)
<1>1. CASE Boot
  BY <1>1 DEF Boot
<1>2. CASE AssertStopped \/ Crash \/ StopDone
  BY <1>2 DEF AssertStopped, Crash, StopDone
<1>3. CASE Stop
  BY <1>3, StopQuiet
<1>4. ASSUME NEW i \in Instns, Http(i) \/ ZonesFail(i) PROVE Quiet
  BY <1>4, HttpQuiet, ZonesFailQuiet
<1>5. ASSUME NEW i \in Instns, StartTask(i) PROVE Quiet \/ StashStep(i)
  BY <1>5, StartAggrQuiet, StartZonesQuiet, StartInstrsQuiet DEF StartTask, StashStep
<1>6. ASSUME NEW i \in Instns, NEW ok \in BOOLEAN, EndTask(i, ok) PROVE Quiet \/ StashStep(i)
  <2>1. CASE AggrDone(i, ok)
    BY <2>1, AggrDoneQuiet
  <2>2. ASSUME NEW h \in Hosts, InstrDone(i, h, ok) PROVE Quiet
    BY <2>2, InstrDoneQuiet
  <2> QED BY <1>6, <2>1, <2>2 DEF EndTask, StashStep
<1>7. ASSUME NEW i \in Instns, NEW zs \in SUBSET Hosts, ZonesDone(i, zs) PROVE Quiet
  BY <1>7, ZonesDoneQuiet
<1>8. ASSUME NEW t \in Targets, Notified(t) PROVE Quiet \/ StashMoves
  <2>1. CASE t \in Aggrs /\ AggOnline(t)
    BY <2>1, AggOnlineQuiet
  <2>2. ASSUME NEW ok \in Metadata, t \in Hosts, HostOnline(t, ok) PROVE Quiet
    BY <2>2, HostOnlineQuiet
  <2>3. CASE DropLate(t)
    BY <2>3, TargetQuiet DEF StashMoves
  <2> QED BY <1>8, <2>1, <2>2, <2>3 DEF Notified
<1>9. ASSUME NEW t \in Targets, Announce(t) \/ TargetDown(t) \/ TargetUp(t)
      PROVE  Quiet \/ StashMoves
  BY <1>9, TargetQuiet DEF StashMoves
<1>10. ASSUME NEW t \in Targets, NEW i \in Instns, Execute(t, i) PROVE Quiet \/ StashMoves
  BY <1>10, CarryQuiet DEF Execute, StashMoves
<1>11. CASE UNCHANGED vars
  BY <1>11, TameSame DEF vars, svcVars, extVars, msgVars, userVars, Quiet, IInv, TypeOK
<1> QED BY <1>1, <1>2, <1>3, <1>4, <1>5, <1>6, <1>7, <1>8, <1>9, <1>10, <1>11 DEF Next

LEMMA NextLInv ==
    ASSUME IInv, LInv, [Next]_vars
    PROVE  LInv'
<1>1. IInv'
  BY NextInv
<1>2. CASE Start \/ LoadList
  BY <1>2 DEF Start, LoadList, userVars, LInv, CountInv, IdsInUse, Off, NinstsExact,
     ErrandInv
<1>3. CASE StashMoves
  BY <1>3 DEF StashMoves, TargetDown, DropLate, StashCarry, svcVars, userVars, LInv, CountInv,
     IdsInUse, Off, NinstsExact, ErrandInv
<1>4. ASSUME NEW i \in Instns, StashStep(i) PROVE LInv'
  BY <1>1, <1>4, SaveLInv DEF StashStep
<1> QED BY <1>1, <1>2, <1>3, <1>4, NextCases, QuietLInv, LoadFetchLInv, DieLInv, HttpCreateLInv

LEMMA InitLInv == Init => LInv
<1> SUFFICES ASSUME Init PROVE LInv
  OBVIOUS
<1>1. \A i \in Instns : instn[i] = Blank
  BY DEF Init, Empty
<1>2. IdsInUse
  BY <1>1 DEF IdsInUse, Blank
<1>5. Off
  BY <1>1 DEF Off, Blank
<1>3. NinstsExact
  <2>1. ASSUME NEW a \in Aggrs PROVE ninsts[a] = Cardinality(Counted(instn, a))
    <3>1. Counted(instn, a) = {}
      BY <1>1 DEF Counted, Active, Blank
    <3> QED BY <3>1, FS_EmptySet DEF Init, Empty
  <2> QED BY <2>1, ExactCounted
<1>4. ErrandInv
  BY <1>1 DEF ErrandInv, Errand, Has, Does, Blank
<1> QED BY <1>2, <1>3, <1>4, <1>5 DEF LInv, CountInv

THEOREM Counting == Spec => [](IInv /\ LInv)
<1>1. Init => IInv /\ LInv
  BY InitInv, InitLInv
<1>2. (IInv /\ LInv) /\ [Next]_vars => (IInv /\ LInv)'
  BY NextInv, NextLInv
<1> QED BY <1>1, <1>2, PTL DEF Spec

\* pickAggregator spreads new instrumentations by cag_ninsts, which nothing
\* recomputes: through failed creations, deletions, crashes and reloads it is
\* the number of instrumentations the aggregator has, creations served while
\* the configuration is loading included, until one of these has taken the id
\* of an instrumentation that the load then finds: that id counts twice.
THEOREM CountsAreExact == Spec => []NinstsExact
<1>1. LInv => NinstsExact
  BY DEF LInv, CountInv
<1> QED BY <1>1, Counting, PTL

-----------------------------------------------------------------------------
(* The channel of the stash.                                               *)

LEMMA AckNames ==
    ASSUME NEW i \in Instns
    PROVE  /\ \A j \in Instns : Ack(i) = Ack(j) <=> i = j
           /\ Ack(i) # LateAck /\ Ack(i) # Online
<1>1. i # None
  BY NoneAssumption
<1> QED BY <1>1 DEF Ack, LateAck, Online

\* The answers, after the first is read, after those to i are disowned, and
\* after another arrives.
LEMMA AckTail ==
    ASSUME NEW r \in Seq(Replies), r # <<>>, NEW i, Once(r, i)
    PROVE  /\ Once(Tail(r), i)
           /\ Head(r) # Ack(i) => (HasAck(Tail(r), i) <=> HasAck(r, i))
           /\ Head(r) = Ack(i) => HasAck(r, i) /\ ~HasAck(Tail(r), i)
<1>1. /\ Tail(r) \in Seq(Replies) /\ Len(r) \in Nat \ {0} /\ Len(Tail(r)) = Len(r) - 1
      /\ \A k \in 1..Len(Tail(r)) : Tail(r)[k] = r[k + 1]
      /\ Head(r) = r[1]
  BY HeadTailProperties, EmptySeq
<1>2. DOMAIN r = 1..Len(r) /\ DOMAIN Tail(r) = 1..(Len(r) - 1)
  BY <1>1, LenProperties
<1>3. \A k \in DOMAIN Tail(r) : k + 1 \in DOMAIN r /\ k + 1 # 1 /\ Tail(r)[k] = r[k + 1]
  BY <1>1, <1>2
<1>4. \A k \in DOMAIN r : k = 1 \/ (k - 1 \in DOMAIN Tail(r) /\ Tail(r)[k - 1] = r[k])
  BY <1>1, <1>2
<1>5. 1 \in DOMAIN r
  BY <1>1, <1>2
<1> DEFINE t == Tail(r)
<1> HIDE DEF t
<1>6. Once(t, i)
  <2> SUFFICES ASSUME NEW j \in DOMAIN t, NEW k \in DOMAIN t, t[j] = Ack(i), t[k] = Ack(i)
               PROVE  j = k
    BY DEF Once
  <2>1. j + 1 \in DOMAIN r /\ k + 1 \in DOMAIN r /\ r[j + 1] = Ack(i) /\ r[k + 1] = Ack(i)
    BY <1>3 DEF t
  <2>2. j + 1 = k + 1
    BY <2>1 DEF Once
  <2>3. j \in Int /\ k \in Int
    BY <1>1, <1>2 DEF t
  <2> QED BY <2>2, <2>3
<1>7. HasAck(t, i) => HasAck(r, i)
  BY <1>3 DEF HasAck, t
<1>8. Head(r) # Ack(i) /\ HasAck(r, i) => HasAck(t, i)
  BY <1>1, <1>4 DEF HasAck, t
<1>9. Head(r) = Ack(i) => HasAck(r, i) /\ ~HasAck(t, i)
  BY <1>1, <1>3, <1>5 DEF HasAck, Once, t
<1> QED BY <1>6, <1>7, <1>8, <1>9 DEF t

LEMMA AckDisown ==
    ASSUME NEW r, NEW i \in Instns, NEW j \in Instns, Once(r, j)
    PROVE  /\ Once(Disown(r, i), j)
           /\ j # i => (HasAck(Disown(r, i), j) <=> HasAck(r, j))
           /\ ~HasAck(Disown(r, i), i)
<1>1. /\ DOMAIN Disown(r, i) = DOMAIN r
      /\ \A k \in DOMAIN r : Disown(r, i)[k] = IF r[k] = Ack(i) THEN LateAck ELSE r[k]
  BY DEF Disown
<1> QED BY <1>1, AckNames DEF Once, HasAck

LEMMA AckDisownAll ==
    ASSUME NEW r, NEW is \in SUBSET Instns, NEW j \in Instns, Once(r, j)
    PROVE  /\ Once(DisownAll(r, is), j)
           /\ j \notin is => (HasAck(DisownAll(r, is), j) <=> HasAck(r, j))
           /\ j \in is => ~HasAck(DisownAll(r, is), j)
<1>1. /\ DOMAIN DisownAll(r, is) = DOMAIN r
      /\ \A k \in DOMAIN r :
            DisownAll(r, is)[k] = IF r[k] \in {Ack(i) : i \in is} THEN LateAck ELSE r[k]
  BY DEF DisownAll
<1>2. /\ Ack(j) \in {Ack(i) : i \in is} <=> j \in is
      /\ Ack(j) # LateAck
  BY AckNames
<1>3. ASSUME NEW k \in DOMAIN r
      PROVE  DisownAll(r, is)[k] = Ack(j) <=> r[k] = Ack(j) /\ j \notin is
  BY <1>1, <1>2
<1> QED BY <1>1, <1>3 DEF Once, HasAck

LEMMA AckAppend ==
    ASSUME NEW r \in Seq(Replies), NEW m \in Replies, NEW i, Once(r, i)
    PROVE  /\ m # Ack(i) => /\ Once(Append(r, m), i)
                            /\ HasAck(Append(r, m), i) <=> HasAck(r, i)
           /\ m = Ack(i) /\ ~HasAck(r, i) => Once(Append(r, m), i)
<1>1. /\ Len(r) \in Nat /\ DOMAIN r = 1..Len(r)
      /\ DOMAIN Append(r, m) = 1..(Len(r) + 1)
      /\ \A k \in 1..Len(r) : Append(r, m)[k] = r[k]
      /\ Append(r, m)[Len(r) + 1] = m
  BY AppendProperties, LenProperties
<1>2. \A k \in DOMAIN Append(r, m) : k \in DOMAIN r \/ k = Len(r) + 1
  BY <1>1
<1>3. \A k \in DOMAIN r : k \in DOMAIN Append(r, m)
  BY <1>1
<1> DEFINE p == Append(r, m)
<1> HIDE DEF p
<1> QED BY <1>1, <1>2, <1>3 DEF Once, HasAck, p

LEMMA AckArrives ==
    ASSUME NEW r \in Seq(Replies), NEW i \in Instns, NEW j \in Instns,
           Once(r, i), Once(r, j), ~HasAck(r, i)
    PROVE  /\ Once(Append(r, Ack(i)), j)
           /\ j # i => (HasAck(Append(r, Ack(i)), j) <=> HasAck(r, j))
<1> DEFINE a == Ack(i)
<1>1. a \in Replies
  BY DEF Ack, Replies
<1>2. CASE j = i
  <2> HIDE DEF a
  <2>1. Once(Append(r, a), i)
    BY <1>1, AckAppend DEF a
  <2> QED BY <1>2, <2>1 DEF a
<1>3. CASE j # i
  <2>1. a # Ack(j)
    BY <1>3, AckNames
  <2> HIDE DEF a
  <2>2. Once(Append(r, a), j) /\ (HasAck(Append(r, a), j) <=> HasAck(r, j))
    BY <1>1, <2>1, AckAppend
  <2> QED BY <2>2 DEF a
<1> QED BY <1>2, <1>3

\* The commands, likewise.
LEMMA QueueTail ==
    ASSUME NEW t0, NEW q \in Seq(Messages(t0)), q # <<>>, LastLive(q)
    PROVE  /\ LastLive(Tail(q))
           /\ AllSent(q) => AllSent(Tail(q)) /\ Sent(Head(q))
           /\ Head(q).live => Tail(q) = <<>>
           /\ \A op : AllOps(q, op) => AllOps(Tail(q), op) /\ Head(q).op = op
           /\ \A op : LiveOps(q, op) => LiveOps(Tail(q), op) /\ (Head(q).live => Head(q).op = op)
           /\ Pend(Tail(q)) \/ Head(q).live => Pend(q)
<1>1. /\ Tail(q) \in Seq(Messages(t0)) /\ Len(q) \in Nat \ {0} /\ Len(Tail(q)) = Len(q) - 1
      /\ \A k \in 1..Len(Tail(q)) : Tail(q)[k] = q[k + 1]
      /\ Head(q) = q[1]
  BY HeadTailProperties, EmptySeq
<1>2. DOMAIN q = 1..Len(q) /\ DOMAIN Tail(q) = 1..(Len(q) - 1)
  BY <1>1, LenProperties
<1>3. \A k \in DOMAIN Tail(q) : k + 1 \in DOMAIN q /\ Tail(q)[k] = q[k + 1] /\ k \in Int
  BY <1>1, <1>2
<1>4. 1 \in DOMAIN q
  BY <1>1, <1>2
<1>5. Head(q).live => Tail(q) = <<>>
  <2>1. Head(q).live => Len(q) = 1
    BY <1>1, <1>4 DEF LastLive
  <2> QED BY <1>1, <2>1, EmptySeq
<1> DEFINE t == Tail(q)
<1>6. LastLive(t)
  <2> SUFFICES ASSUME NEW k \in DOMAIN t, t[k].live PROVE k = Len(t)
    BY DEF LastLive
  <2>1. k + 1 = Len(q) /\ k \in Int
    BY <1>3 DEF LastLive
  <2>2. Len(t) = Len(q) - 1 /\ Len(q) \in Int
    BY <1>1
  <2> HIDE DEF t
  <2> QED BY <2>1, <2>2
<1> HIDE DEF t
<1>7. AllSent(q) => AllSent(t) /\ Sent(Head(q))
  BY <1>1, <1>3, <1>4 DEF AllSent, t
<1>8. \A op : AllOps(q, op) => AllOps(t, op) /\ Head(q).op = op
  BY <1>1, <1>3, <1>4 DEF AllOps, t
<1>9. \A op : LiveOps(q, op) => LiveOps(t, op) /\ (Head(q).live => Head(q).op = op)
  BY <1>1, <1>3, <1>4 DEF LiveOps, t
<1>10. Pend(t) \/ Head(q).live => Pend(q)
  BY <1>1, <1>3, <1>4 DEF Pend, t
<1> QED BY <1>5, <1>6, <1>7, <1>8, <1>9, <1>10 DEF t

LEMMA QueueForget ==
    ASSUME NEW t, NEW q \in Seq(Messages(t))
    PROVE  /\ ~Pend(Forget(q)) /\ LastLive(Forget(q))
           /\ AllSent(q) => AllSent(Forget(q))
           /\ q = <<>> => Forget(q) = <<>>
           /\ \A op : AllOps(q, op) => AllOps(Forget(q), op)
<1>1. /\ Len(q) \in Nat /\ DOMAIN q = 1..Len(q) /\ DOMAIN Forget(q) = DOMAIN q
      /\ \A k \in DOMAIN q : q[k] \in Messages(t)
  BY LenProperties DEF Forget
<1>2. ASSUME NEW k \in DOMAIN q
      PROVE  Forget(q)[k].op = q[k].op /\ Forget(q)[k].arg = q[k].arg /\ ~Forget(q)[k].live
  <2>1. q[k] \in Messages(t) /\ Forget(q)[k] = [q[k] EXCEPT !.live = FALSE]
    BY <1>1 DEF Forget
  <2> QED BY <2>1 DEF Messages
<1>3. q = <<>> => Forget(q) = <<>>
  BY <1>1, EmptySeq, ForgetType
<1> HIDE DEF Forget
<1> QED BY <1>1, <1>2, <1>3 DEF Pend, LastLive, AllSent, Sent, AllOps

LEMMA QueueAppend ==
    ASSUME NEW t, NEW q \in Seq(Messages(t)), NEW m \in Messages(t), ~Pend(q)
    PROVE  /\ LastLive(Append(q, m)) /\ LiveOps(Append(q, m), m.op)
           /\ AllSent(q) /\ Sent(m) => AllSent(Append(q, m))
           /\ AllOps(q, m.op) => AllOps(Append(q, m), m.op)
<1>1. /\ Len(q) \in Nat /\ DOMAIN q = 1..Len(q)
      /\ DOMAIN Append(q, m) = 1..(Len(q) + 1) /\ Len(Append(q, m)) = Len(q) + 1
      /\ \A k \in 1..Len(q) : Append(q, m)[k] = q[k]
      /\ Append(q, m)[Len(q) + 1] = m
  BY AppendProperties, LenProperties
<1>2. \A k \in DOMAIN Append(q, m) : (k \in DOMAIN q /\ Append(q, m)[k] = q[k])
                                      \/ (k = Len(Append(q, m)) /\ Append(q, m)[k] = m)
  BY <1>1
<1> DEFINE p == Append(q, m)
<1> HIDE DEF p
<1> QED BY <1>2 DEF LastLive, AllSent, LiveOps, AllOps, Pend, p

\* An instrumentation that a step does not touch.
LEMMA PartOther ==
    ASSUME NEW j, NEW o, NEW q, NEW r, NEW d, NEW ac, NEW dr, NEW dd,
           Part(j, o, q, r, d, ac, dr, dd),
           NEW s, NEW ac2, NEW dr2, NEW dd2,
           Once(s, j), HasAck(s, j) <=> HasAck(r, j),
           j \in ac2 <=> j \in ac, j \in dr2 <=> j \in dr, j \in dd2 <=> j \in dd
    PROVE  Part(j, o, q, s, d, ac2, dr2, dd2)
BY DEF Part, Channel, Link, Promise

\* The parts of the state of one instrumentation, as they are typed.
LEMMA StashTypes ==
    ASSUME IInv, NEW i \in Instns
    PROVE  /\ net[Stash][i] \in Seq(Messages(Stash)) /\ inq[Stash] \in Seq(Replies)
           /\ Stash \in Targets
           /\ net = [t \in Targets |-> net[t]] /\ net[Stash] \in [Instns -> Seq(Messages(Stash))]
           /\ inq \in [Targets -> Seq(Replies)]
<1>1. Stash \in Targets
  BY DEF Targets
<1> QED BY <1>1 DEF IInv, TypeOK, NetType, InqType

\* The answer to the command of a task, whichever it is.
LEMMA ResultPart ==
    ASSUME IInv, SavedInv, NEW i \in Instns, NEW ok \in BOOLEAN, Result(Stash, i, ok)
    PROVE  /\ Channel(i, net'[Stash][i], inq'[Stash])
           /\ ~Pend(net'[Stash][i]) /\ ~HasAck(inq'[Stash], i)
           /\ \A op : AllOps(net[Stash][i], op) => AllOps(net'[Stash][i], op)
           /\ ok => HasAck(inq[Stash], i) /\ net'[Stash][i] = <<>>
           /\ \A j \in Instns : j # i => /\ net'[Stash][j] = net[Stash][j]
                                         /\ Once(inq'[Stash], j)
                                         /\ HasAck(inq'[Stash], j) <=> HasAck(inq[Stash], j)
<1> DEFINE q == net[Stash][i]
           r == inq[Stash]
<1>1. /\ q \in Seq(Messages(Stash)) /\ r \in Seq(Replies) /\ Stash \in Targets
      /\ net = [t \in Targets |-> net[t]] /\ net[Stash] \in [Instns -> Seq(Messages(Stash))]
      /\ inq \in [Targets -> Seq(Replies)]
  BY StashTypes
<1>2. \A j \in Instns : Once(r, j)
  BY DEF SavedInv, Part, Channel
<1>3. LastLive(q) /\ AllSent(q) /\ (HasAck(r, i) => q = <<>>)
  BY DEF SavedInv, Part, Channel
<1>4. CASE Acknowledged(Stash, i)
  <2>1. r # <<>> /\ Head(r) = Ack(i) /\ inq'[Stash] = Tail(r) /\ net' = net
    BY <1>1, <1>4 DEF Acknowledged
  <2>2. HasAck(r, i) /\ ~HasAck(Tail(r), i) /\ Once(Tail(r), i)
    BY <1>1, <1>2, <2>1, AckTail
  <2>3. \A j \in Instns : j # i => Once(Tail(r), j) /\ (HasAck(Tail(r), j) <=> HasAck(r, j))
    BY <1>1, <1>2, <2>1, AckTail, AckNames
  <2>4. q = <<>> /\ ~Pend(<<>>)
    BY <1>3, <2>2 DEF Pend
  <2> QED BY <1>3, <2>1, <2>2, <2>3, <2>4 DEF Channel
<1>5. CASE ~ok /\ Failed(Stash, i)
  <2>1. inq'[Stash] = Disown(r, i)
    BY <1>1, <1>5 DEF Failed
  <2>2. /\ ~HasAck(Disown(r, i), i) /\ Once(Disown(r, i), i)
        /\ \A j \in Instns : j # i => /\ Once(Disown(r, i), j)
                                      /\ HasAck(Disown(r, i), j) <=> HasAck(r, j)
    BY <1>2, AckDisown
  <2>3. /\ ~Pend(net'[Stash][i]) /\ LastLive(net'[Stash][i]) /\ AllSent(net'[Stash][i])
        /\ \A op : AllOps(q, op) => AllOps(net'[Stash][i], op)
        /\ \A j \in Instns : j # i => net'[Stash][j] = net[Stash][j]
    <3>1. CASE Refused(Stash, i)
      <4>1. q # <<>> /\ Head(q).live /\ net' = [net EXCEPT ![Stash][i] = Tail(q)]
        BY <3>1 DEF Refused, IsLive
      <4>2. /\ net'[Stash][i] = Tail(q)
            /\ \A j \in Instns : j # i => net'[Stash][j] = net[Stash][j]
        BY <1>1, <4>1
      <4>3. Tail(q) = <<>> /\ LastLive(Tail(q)) /\ AllSent(Tail(q))
            /\ \A op : AllOps(q, op) => AllOps(Tail(q), op)
        BY <1>1, <1>3, <4>1, QueueTail
      <4>4. ~Pend(<<>>)
        BY DEF Pend
      <4> QED BY <4>2, <4>3, <4>4
    <3>2. CASE LateAnswer(Stash, i)
      <4>1. net' = [net EXCEPT ![Stash][i] = Forget(q)]
        BY <3>2 DEF LateAnswer
      <4>2. /\ net'[Stash][i] = Forget(q)
            /\ \A j \in Instns : j # i => net'[Stash][j] = net[Stash][j]
        BY <1>1, <4>1
      <4> QED BY <1>1, <1>3, <4>2, QueueForget
    <3>3. CASE NoAnswer(Stash, i)
      BY <1>3, <3>3 DEF NoAnswer, Pending, Pend, IsLive
    <3> QED BY <1>5, <3>1, <3>2, <3>3 DEF Failed
  <2> QED BY <1>5, <2>1, <2>2, <2>3 DEF Channel
<1> QED BY <1>4, <1>5 DEF Result

-----------------------------------------------------------------------------
(* The steps.                                                              *)

LEMMA QuietStash ==
    ASSUME IInv, LInv, StashInv, Quiet
    PROVE  StashInv'
<1>1. ASSUME NEW i \in Instns
      PROVE  Part(i, instn'[i], net'[Stash][i], inq'[Stash], disk'[i], acked', delreq', deadOK')
  <2> DEFINE o == instn[i] n == instn'[i]
             q == net[Stash][i] r == inq[Stash] d == disk[i]
  <2>1. Part(i, o, q, r, d, acked, delreq, deadOK) /\ Errand(i, o, delreq)
    BY DEF StashInv, SavedInv, LInv, ErrandInv
  <2>2. /\ net'[Stash][i] = q /\ inq'[Stash] = r /\ disk'[i] = d
        /\ acked' = acked /\ deadOK' = deadOK /\ delreq \subseteq delreq'
        /\ Mild(o, n, i \in delreq')
    BY DEF Quiet
  <2> HIDE DEF o, n, q, r, d
  <2>3. Saving(o) \/ Saving(n) => n.cur = o.cur
    BY <2>2 DEF Mild, Tame
  <2>4. Link(i, n, q, r, d)
    <3>1. Link(i, o, q, r, d)
      BY <2>1 DEF Part
    <3>2. Does(n, "create") => Does(o, "create")
      BY <2>3 DEF Does, Saving, StashFuncs
    <3>3. Does(n, "delete") => Does(o, "delete")
      BY <2>3 DEF Does, Saving, StashFuncs
    <3> QED BY <2>3, <3>1, <3>2, <3>3 DEF Link, Saving
  <2>5. Promise(i, n, q, d, acked, delreq', deadOK)
    BY <2>1, <2>2 DEF Part, Promise, Mild, Tame
  <2>6. Part(i, n, q, r, d, acked, delreq', deadOK)
    BY <2>1, <2>4, <2>5 DEF Part
  <2> QED BY <2>2, <2>6 DEF n
<1>2. SavedInv'
  BY <1>1 DEF SavedInv
<1>3. FoundInv'
  BY DEF Quiet, StashInv, FoundInv, Serving
<1> QED BY <1>2, <1>3 DEF StashInv

\* What remains to be shown when one instrumentation is touched.
LEMMA OneStash ==
    ASSUME IInv, LInv, StashInv, NEW i \in Instns, NEW n, instn' = [instn EXCEPT ![i] = n],
           \A j \in Instns : j # i => /\ net'[Stash][j] = net[Stash][j]
                                      /\ Once(inq'[Stash], j)
                                      /\ HasAck(inq'[Stash], j) <=> HasAck(inq[Stash], j)
                                      /\ disk'[j] = disk[j]
                                      /\ j \in acked' <=> j \in acked
                                      /\ j \in delreq' <=> j \in delreq
                                      /\ j \in deadOK' <=> j \in deadOK,
           Part(i, n, net'[Stash][i], inq'[Stash], disk'[i], acked', delreq', deadOK')
    PROVE  SavedInv'
<1> SUFFICES ASSUME NEW j \in Instns
             PROVE  Part(j, instn'[j], net'[Stash][j], inq'[Stash], disk'[j], acked', delreq',
                         deadOK')
  BY DEF SavedInv
<1>1. CASE j = i
  BY <1>1 DEF IInv, TypeOK
<1>2. CASE j # i
  <2>1. instn'[j] = instn[j]
    BY <1>2 DEF IInv, TypeOK
  <2>2. Part(j, instn[j], net[Stash][j], inq[Stash], disk[j], acked, delreq, deadOK)
    BY DEF StashInv, SavedInv
  <2> QED BY <1>2, <2>1, <2>2, PartOther
<1> QED BY <1>1, <1>2

LEMMA SameFound ==
    ASSUME StashInv, UNCHANGED <<svc, listed, nextid, acked, delreq>>
    PROVE  FoundInv'
BY DEF StashInv, FoundInv

LEMMA StartSaveStash ==
    ASSUME IInv, LInv, StashInv, NEW i \in Instns, StartSave(i)
    PROVE  StashInv'
<1> DEFINE q == net[Stash][i] r == inq[Stash] d == disk[i]
<1>1. PICK n, cmd :
              /\ instn' = [instn EXCEPT ![i] = n] /\ Send([t \in {Stash} |-> cmd], i)
              /\ instn[i].cur = None /\ instn[i].where \notin {"none", "dead"}
              /\ n.where = instn[i].where /\ n.aggr = instn[i].aggr
              /\ Saving(n) /\ (Does(n, "delete") => n.deleted) /\ Errand(i, n, delreq)
              /\ \/ n.deleted /\ cmd = Command("del", None)
                 \/ ~n.deleted /\ \E b \in Buckets : cmd = Command("put", b)
  BY StartSaveObject
<1>2. /\ q \in Seq(Messages(Stash)) /\ Stash \in Targets
      /\ net[Stash] \in [Instns -> Seq(Messages(Stash))]
  BY StashTypes
<1>3. UNCHANGED <<svcVars, extVars, inq, userVars>>
  BY DEF StartSave
<1>4. /\ \A j \in Instns : j # i => net'[Stash][j] = net[Stash][j]
      /\ net'[Stash][i] = q \/ net'[Stash][i] = Append(q, cmd)
  <2>1. CASE Stash \in up
    BY <1>1, <1>2, <2>1 DEF Send
  <2>2. CASE Stash \notin up
    BY <1>1, <1>2, <2>2 DEF Send
  <2> QED BY <2>1, <2>2
<1>5. /\ Channel(i, q, r) /\ Link(i, instn[i], q, r, d)
      /\ Promise(i, instn[i], q, d, acked, delreq, deadOK)
  BY DEF StashInv, SavedInv, Part
<1>6. ~Pend(q) /\ ~HasAck(r, i)
  BY <1>1, <1>5 DEF Link
<1>7. /\ cmd \in Messages(Stash) /\ Sent(cmd)
      /\ n.deleted => cmd.op = "del"
      /\ ~n.deleted => cmd.op = "put"
  <2>1. /\ Command("del", None) \in Messages(Stash) /\ Sent(Command("del", None))
        /\ Command("del", None).op = "del"
    BY DEF Command, Messages, Sent
  <2>2. \A b \in Buckets : /\ Command("put", b) \in Messages(Stash) /\ Sent(Command("put", b))
                           /\ Command("put", b).op = "put"
    BY DEF Command, Messages, Sent
  <2> QED BY <1>1, <2>1, <2>2
<1>8. /\ LastLive(Append(q, cmd)) /\ AllSent(Append(q, cmd)) /\ LiveOps(Append(q, cmd), cmd.op)
      /\ AllOps(q, cmd.op) => AllOps(Append(q, cmd), cmd.op)
  BY <1>2, <1>5, <1>6, <1>7, QueueAppend DEF Channel
<1>9. /\ Does(n, "create") => ~n.deleted
      /\ i \in acked \ delreq => ~n.deleted
      /\ i \notin deadOK
  BY <1>1, <1>5 DEF Errand, Promise
<1> DEFINE p == net'[Stash][i]
<1>10. Channel(i, p, r)
  BY <1>4, <1>5, <1>6, <1>8 DEF Channel
<1>11. Link(i, n, p, r, d)
  <2>1. LiveOps(q, "put") /\ LiveOps(q, "del")
    BY <1>6 DEF LiveOps, Pend
  <2>2. Does(n, "create") => LiveOps(p, "put")
    BY <1>4, <1>7, <1>8, <1>9, <2>1
  <2>3. Does(n, "delete") => LiveOps(p, "del")
    BY <1>1, <1>4, <1>7, <1>8, <2>1
  <2> HIDE DEF p
  <2> QED BY <1>1, <1>6, <2>2, <2>3 DEF Link, Saving
<1>12. Promise(i, n, p, d, acked, delreq, deadOK)
  <2>1. i \in acked \ delreq => d # None /\ AllOps(p, "put")
    BY <1>4, <1>5, <1>7, <1>8, <1>9 DEF Promise
  <2> HIDE DEF p
  <2> QED BY <1>9, <2>1 DEF Promise
<1>13. Part(i, n, p, r, d, acked, delreq, deadOK)
  <2> HIDE DEF p
  <2> QED BY <1>10, <1>11, <1>12 DEF Part
<1>14. \A j \in Instns : Once(r, j)
  BY DEF StashInv, SavedInv, Part, Channel
<1>15. SavedInv'
  BY <1>1, <1>3, <1>4, <1>13, <1>14, OneStash DEF extVars, userVars
<1>16. FoundInv'
  BY <1>3, SameFound DEF svcVars, userVars
<1> QED BY <1>15, <1>16 DEF StashInv

\* The end of a task that saves: nothing is awaited any more.
LEMMA DoneStash ==
    ASSUME IInv, LInv, StashInv, NEW i \in Instns, NEW ok \in BOOLEAN, Result(Stash, i, ok),
           NEW n, instn' = [instn EXCEPT ![i] = n], n.cur = None, disk' = disk,
           \A j \in Instns : j # i => /\ j \in acked' <=> j \in acked
                                      /\ j \in delreq' <=> j \in delreq
                                      /\ j \in deadOK' <=> j \in deadOK,
           Promise(i, n, net'[Stash][i], disk[i], acked', delreq', deadOK')
    PROVE  SavedInv'
<1>1. SavedInv
  BY DEF StashInv
<1>2. /\ Channel(i, net'[Stash][i], inq'[Stash])
      /\ ~Pend(net'[Stash][i]) /\ ~HasAck(inq'[Stash], i)
      /\ \A j \in Instns : j # i => /\ net'[Stash][j] = net[Stash][j]
                                    /\ Once(inq'[Stash], j)
                                    /\ HasAck(inq'[Stash], j) <=> HasAck(inq[Stash], j)
  BY <1>1, ResultPart
<1>3. Link(i, n, net'[Stash][i], inq'[Stash], disk[i])
  BY <1>2 DEF Link, Does
<1>4. Part(i, n, net'[Stash][i], inq'[Stash], disk'[i], acked', delreq', deadOK')
  BY <1>2, <1>3 DEF Part
<1> QED BY <1>2, <1>4, OneStash

LEMMA CreateDoneStash ==
    ASSUME IInv, LInv, StashInv, NEW i \in Instns, NEW ok \in BOOLEAN, CreateDone(i, ok)
    PROVE  StashInv'
<1> DEFINE q == net[Stash][i] p == net'[Stash][i] r == inq[Stash] d == disk[i]
<1>1. PICK n : /\ instn' = [instn EXCEPT ![i] = n]
               /\ Does(instn[i], "create") /\ instn[i].where = "creating"
               /\ n.cur = None
               /\ ok => n.where = "live"
               /\ ~ok => n.where = "none"
  BY CreateDoneObject
<1>2. /\ Result(Stash, i, ok) /\ acked' = (IF ok THEN acked \cup {i} ELSE acked)
      /\ UNCHANGED <<svc, nextid, listed, disk, delreq, deadOK>>
  BY DEF CreateDone, extVars
<1>3. /\ Link(i, instn[i], q, r, d) /\ Promise(i, instn[i], q, d, acked, delreq, deadOK)
  BY DEF StashInv, SavedInv, Part
<1>4. /\ \A op : AllOps(q, op) => AllOps(p, op)
      /\ ok => HasAck(r, i) /\ p = <<>>
  BY <1>2, ResultPart DEF StashInv
<1>5. Promise(i, n, p, d, acked', delreq', deadOK')
  <2>1. i \notin deadOK
    BY <1>1, <1>3 DEF Promise
  <2>2. CASE ok
    <3>1. d # None /\ AllOps(p, "put")
      BY <1>1, <1>3, <1>4, <2>2 DEF Link, AllOps
    <3> HIDE DEF p, d
    <3> QED BY <1>2, <2>1, <3>1 DEF Promise
  <2>3. CASE ~ok
    <3> HIDE DEF p, d, q
    <3> QED BY <1>2, <1>3, <1>4, <2>1, <2>3 DEF Promise
  <2> QED BY <2>2, <2>3
<1>6. SavedInv'
  BY <1>1, <1>2, <1>5, DoneStash
<1>7. FoundInv'
  <2>1. i[2] < nextid[Scope(i)]
    BY <1>1 DEF LInv, CountInv, IdsInUse
  <2>2. FoundInv
    BY DEF StashInv
  <2> QED BY <1>2, <2>1, <2>2 DEF FoundInv, Serving
<1> QED BY <1>6, <1>7 DEF StashInv

LEMMA SaveDoneStash ==
    ASSUME IInv, LInv, StashInv, NEW i \in Instns, NEW ok \in BOOLEAN,
           SaveDone(i, ok) \/ SetPropsDone(i, ok) \/ (~ok /\ DeleteDone(i, ok))
    PROVE  StashInv'
<1> DEFINE q == net[Stash][i] p == net'[Stash][i] d == disk[i]
<1>1. PICK n : /\ instn' = [instn EXCEPT ![i] = n]
               /\ instn[i].where \notin {"none", "creating", "dead"}
               /\ n.cur = None
  BY SaveDoneObject
<1>2. /\ Result(Stash, i, ok)
      /\ UNCHANGED <<svc, nextid, listed, disk, acked, delreq, deadOK>>
  BY DEF SaveDone, SetPropsDone, DeleteDone, svcVars, extVars, userVars
<1>3. Promise(i, instn[i], q, d, acked, delreq, deadOK)
  BY DEF StashInv, SavedInv, Part
<1>4. \A op : AllOps(q, op) => AllOps(p, op)
  BY <1>2, ResultPart DEF StashInv
<1>5. Promise(i, n, p, d, acked, delreq, deadOK)
  <2> HIDE DEF p, d, q
  <2> QED BY <1>1, <1>3, <1>4 DEF Promise
<1>6. SavedInv'
  BY <1>1, <1>2, <1>5, DoneStash
<1>7. FoundInv'
  BY <1>2, SameFound
<1> QED BY <1>6, <1>7 DEF StashInv

LEMMA DeleteDoneStash ==
    ASSUME IInv, LInv, StashInv, NEW i \in Instns, DeleteDone(i, TRUE)
    PROVE  StashInv'
<1> DEFINE q == net[Stash][i] p == net'[Stash][i] r == inq[Stash] d == disk[i]
<1>1. PICK n : /\ instn' = [instn EXCEPT ![i] = n]
               /\ Does(instn[i], "delete") /\ instn[i].where = "live"
               /\ n.cur = None /\ n.where \in {"none", "dead"}
  BY DeleteDoneObject
<1>2. /\ Result(Stash, i, TRUE) /\ deadOK' \subseteq deadOK \cup {i} /\ deadOK \subseteq deadOK'
      /\ UNCHANGED <<svc, nextid, listed, disk, acked, delreq>>
  BY DEF DeleteDone, extVars
<1>3. /\ Link(i, instn[i], q, r, d) /\ i \in delreq
  BY <1>1 DEF StashInv, SavedInv, Part, LInv, ErrandInv, Errand
<1>4. HasAck(r, i) /\ p = <<>>
  BY <1>2, ResultPart DEF StashInv
<1>5. Promise(i, n, p, d, acked', delreq', deadOK')
  <2>1. d = None /\ AllOps(p, "del")
    BY <1>1, <1>3, <1>4 DEF Link, AllOps
  <2> HIDE DEF p, d
  <2> QED BY <1>1, <1>2, <1>3, <2>1 DEF Promise
<1>6. SavedInv'
  BY <1>1, <1>2, <1>5, DoneStash
<1>7. FoundInv'
  BY <1>2, SameFound
<1> QED BY <1>6, <1>7 DEF StashInv

LEMMA HttpCreateStash ==
    ASSUME IInv, LInv, StashInv, NEW s \in Scopes, NEW v \in PropVals, HttpCreate(s, v)
    PROVE  StashInv'
<1> DEFINE i == <<s, nextid[s]>>
<1>1. /\ i \in Instns
      /\ instn[i].where = "none" /\ instn[i].cur = None
      /\ nextid' = [nextid EXCEPT ![s] = @ + 1]
      /\ UNCHANGED <<svc, listed, disk, net, inq>>
      /\ \/ UNCHANGED <<ninsts, instn, acked, delreq, deadOK>>
         \/ \E a \in Aggrs : \E n : Created(s, v, a, n)
  BY HttpCreateObject
<1>2. acked' \ delreq' \subseteq acked \ delreq
  BY <1>1 DEF Created
<1>3. FoundInv'
  <2>1. ASSUME NEW j \in acked' \ delreq', j[2] < nextid[Scope(j)]
        PROVE  j[2] < nextid'[Scope(j)]
    <3>1. j \in Instns /\ j[2] < nextid[Scope(j)]
      BY <1>2, <2>1 DEF IInv, TypeOK, UserType
    <3>2. j[2] \in Nat /\ Scope(j) \in Scopes /\ nextid[Scope(j)] \in Nat
      BY <3>1, ConstantsAssumption DEF Instns, Scope, IInv, TypeOK, ServiceType
    <3>3. nextid'[Scope(j)] = nextid[Scope(j)] \/ nextid'[Scope(j)] = nextid[Scope(j)] + 1
      BY <1>1, <3>2 DEF IInv, TypeOK, ServiceType
    <3> QED BY <3>1, <3>2, <3>3
  <2> QED BY <1>1, <1>2, <2>1 DEF StashInv, FoundInv, Serving
<1>4. CASE UNCHANGED <<ninsts, instn, acked, delreq, deadOK>>
  <2>1. SavedInv'
    BY <1>1, <1>4 DEF StashInv, SavedInv
  <2> QED BY <1>3, <2>1 DEF StashInv
<1>5. ASSUME NEW a \in Aggrs, NEW n, Created(s, v, a, n) PROVE StashInv'
  <2>1. /\ instn' = [instn EXCEPT ![i] = n] /\ n.cur = None
        /\ acked' = acked \ {i} /\ delreq' = delreq \ {i} /\ deadOK' = deadOK \ {i}
    BY <1>5 DEF Created
  <2>2. Channel(i, net[Stash][i], inq[Stash])
        /\ Link(i, instn[i], net[Stash][i], inq[Stash], disk[i])
    BY <1>1 DEF StashInv, SavedInv, Part
  <2>3. Link(i, n, net[Stash][i], inq[Stash], disk[i])
    BY <1>1, <2>1, <2>2 DEF Link, Does
  <2>4. Promise(i, n, net[Stash][i], disk[i], acked', delreq', deadOK')
    BY <2>1 DEF Promise
  <2>5. Part(i, n, net'[Stash][i], inq'[Stash], disk'[i], acked', delreq', deadOK')
    BY <1>1, <2>2, <2>3, <2>4 DEF Part
  <2>6. \A j \in Instns : Once(inq[Stash], j)
    BY DEF StashInv, SavedInv, Part, Channel
  <2>7. SavedInv'
    <3> HIDE DEF i
    <3> QED BY <1>1, <2>1, <2>5, <2>6, OneStash
  <2> QED BY <1>3, <2>7 DEF StashInv
<1> QED BY <1>1, <1>4, <1>5

\* Loading finds what clients were told exists.
LEMMA LoadStash ==
    ASSUME IInv, LInv, StashInv, Start \/ LoadList \/ LoadFetch
    PROVE  StashInv'
<1>1. CASE Start
  <2>1. svc' = "list" /\ UNCHANGED <<instn, disk, net, inq, acked, delreq, deadOK>>
    BY <1>1 DEF Start, msgVars, userVars
  <2> QED BY <2>1 DEF StashInv, SavedInv, FoundInv, Serving
<1>2. CASE LoadList
  <2>1. /\ svc' = "fetch" /\ listed' = {i \in Instns : disk[i] # None}
        /\ UNCHANGED <<instn, disk, net, inq, acked, delreq, deadOK>>
    BY <1>2 DEF LoadList, extVars, msgVars, userVars
  <2>2. acked \ delreq \subseteq {i \in Instns : disk[i] # None}
    BY DEF StashInv, SavedInv, Part, Promise, IInv, TypeOK, UserType
  <2> QED BY <2>1, <2>2 DEF StashInv, SavedInv, FoundInv, Serving
<1>3. CASE LoadFetch
  <2> DEFINE found == {i \in listed : disk[i] # None}
             taken == {i \in found : instn[i].where # "none"}
             r == inq[Stash]
  <2>1. /\ found \subseteq Instns
        /\ \A i \in found : instn'[i].cur = None
        /\ \A i \in Instns \ found : instn'[i] = instn[i]
        /\ \A i \in found : i[2] < nextid'[Scope(i)]
        /\ \A i \in Instns : i[2] < nextid[Scope(i)] => i[2] < nextid'[Scope(i)]
    BY <1>3, LoadFetchObjects
  <2>2. svc = "fetch" /\ svc' = "up" /\ UNCHANGED <<disk, acked, delreq, deadOK>>
    BY <1>3 DEF LoadFetch, extVars
  <2>3. /\ \A i \in taken : net'[Stash][i] = Forget(net[Stash][i])
        /\ \A i \in Instns \ taken : net'[Stash][i] = net[Stash][i]
        /\ inq'[Stash] = DisownAll(r, taken)
    BY <1>3, <2>1 DEF LoadFetch, Targets
  <2>4. acked \subseteq Instns /\ \A i \in acked \ delreq : disk[i] # None
    BY DEF StashInv, SavedInv, Part, Promise, IInv, TypeOK, UserType
  <2>5. FoundInv'
    BY <2>1, <2>2, <2>4 DEF StashInv, FoundInv
  <2>6. ASSUME NEW i \in Instns
        PROVE  Part(i, instn'[i], net'[Stash][i], DisownAll(r, taken), disk[i], acked, delreq, deadOK)
    <3> DEFINE q == net[Stash][i] s == DisownAll(r, taken)
    <3>1. Part(i, instn[i], q, r, disk[i], acked, delreq, deadOK)
      BY DEF StashInv, SavedInv
    <3>2. taken \in SUBSET Instns
      BY <2>1
    <3> HIDE DEF taken
    <3>3. /\ Once(s, i)
          /\ i \notin taken => (HasAck(s, i) <=> HasAck(r, i))
          /\ i \in taken => ~HasAck(s, i)
      BY <3>1, <3>2, AckDisownAll DEF Part, Channel
    <3> HIDE DEF s
    <3>4. CASE i \in taken
      <4>1. q \in Seq(Messages(Stash))
        BY StashTypes
      <4>2. Channel(i, q, r) /\ Promise(i, instn[i], q, disk[i], acked, delreq, deadOK)
        BY <3>1 DEF Part
      <4>3. /\ ~Pend(Forget(q)) /\ LastLive(Forget(q)) /\ AllSent(Forget(q))
            /\ \A op : AllOps(q, op) => AllOps(Forget(q), op)
        BY <4>1, <4>2, QueueForget DEF Channel
      <4>4. instn'[i].cur = None /\ disk[i] # None
        BY <2>1, <3>4 DEF taken
      <4> HIDE DEF q, r, found
      <4>5. Channel(i, Forget(q), s) /\ Link(i, instn'[i], Forget(q), s, disk[i])
        BY <3>3, <3>4, <4>3, <4>4 DEF Channel, Link, Does
      <4>6. Promise(i, instn'[i], Forget(q), disk[i], acked, delreq, deadOK)
        BY <4>2, <4>3, <4>4 DEF Promise
      <4> QED BY <2>3, <3>4, <4>5, <4>6 DEF Part, q, s
    <3>5. CASE i \notin taken
      <4>1. Part(i, instn[i], q, s, disk[i], acked, delreq, deadOK)
        BY <3>1, <3>3, <3>5, PartOther
      <4>2. Part(i, instn'[i], q, s, disk[i], acked, delreq, deadOK)
        <5>1. CASE i \in found
          <6>1. instn[i].cur = None /\ instn'[i].cur = None /\ disk[i] # None
            BY <2>1, <3>5, <5>1 DEF taken, IInv, ObjectsInv, ObjectInv, Placed
          <6> QED BY <4>1, <6>1 DEF Part, Link, Promise, Does
        <5>2. CASE i \notin found
          BY <2>1, <4>1, <5>2
        <5> QED BY <5>1, <5>2
      <4> QED BY <2>3, <3>5, <4>2 DEF s
    <3> QED BY <3>4, <3>5
  <2>7. SavedInv'
    BY <2>2, <2>3, <2>6 DEF SavedInv
  <2> QED BY <2>5, <2>7 DEF StashInv
<1> QED BY <1>1, <1>2, <1>3

LEMMA DieStash ==
    ASSUME IInv, LInv, StashInv, Die
    PROVE  StashInv'
<1>1. /\ svc' = "down" /\ \A i \in Instns : instn'[i] = Blank
      /\ UNCHANGED <<disk, acked, delreq, deadOK>>
  BY DEF Die
<1>2. /\ inq'[Stash] = <<>>
      /\ \A i \in Instns : net'[Stash][i] = Forget(net[Stash][i])
  BY DEF Die, Targets
<1>3. FoundInv'
  BY <1>1 DEF FoundInv, Serving
<1>4. ASSUME NEW i \in Instns
      PROVE  Part(i, Blank, Forget(net[Stash][i]), <<>>, disk[i], acked, delreq, deadOK)
  <2> DEFINE q == net[Stash][i]
  <2>1. q \in Seq(Messages(Stash))
    BY StashTypes
  <2>2. Channel(i, q, inq[Stash]) /\ Promise(i, instn[i], q, disk[i], acked, delreq, deadOK)
    BY DEF StashInv, SavedInv, Part
  <2>3. /\ ~Pend(Forget(q)) /\ LastLive(Forget(q)) /\ AllSent(Forget(q))
        /\ \A op : AllOps(q, op) => AllOps(Forget(q), op)
    BY <2>1, <2>2, QueueForget DEF Channel
  <2>4. ~HasAck(<<>>, i) /\ Once(<<>>, i)
    BY DEF HasAck, Once
  <2>5. Blank.cur = None /\ Blank.where = "none"
    BY DEF Blank
  <2> HIDE DEF q
  <2>6. Channel(i, Forget(q), <<>>) /\ Link(i, Blank, Forget(q), <<>>, disk[i])
    BY <2>3, <2>4, <2>5 DEF Channel, Link, Does
  <2>7. Promise(i, Blank, Forget(q), disk[i], acked, delreq, deadOK)
    BY <2>2, <2>3, <2>5 DEF Promise
  <2> QED BY <2>6, <2>7 DEF Part, q
<1>5. SavedInv'
  BY <1>1, <1>2, <1>4 DEF SavedInv
<1> QED BY <1>3, <1>5 DEF StashInv

\* The stash goes away with its queue, a late answer is read, or the stash
\* carries out the first command of i.
LEMMA StashDownStash ==
    ASSUME IInv, LInv, StashInv, TargetDown(Stash)
    PROVE  StashInv'
<1>1. /\ UNCHANGED <<svc, listed, nextid, acked, delreq, deadOK, instn, disk, inq>>
      /\ net' = [net EXCEPT ![Stash] = [i \in Instns |-> <<>>]]
  BY DEF TargetDown, svcVars, userVars
<1>2. ASSUME NEW i \in Instns
      PROVE  Part(i, instn'[i], net'[Stash][i], inq'[Stash], disk'[i], acked', delreq', deadOK')
  <2>1. net'[Stash][i] = <<>>
    BY <1>1, StashTypes
  <2>2. Part(i, instn[i], net[Stash][i], inq[Stash], disk[i], acked, delreq, deadOK)
    BY DEF StashInv, SavedInv
  <2>3. LastLive(<<>>) /\ AllSent(<<>>) /\ ~Pend(<<>>)
        /\ \A op : AllOps(<<>>, op) /\ LiveOps(<<>>, op)
    BY DEF LastLive, AllSent, Pend, AllOps, LiveOps
  <2>4. Part(i, instn[i], <<>>, inq[Stash], disk[i], acked, delreq, deadOK)
    BY <2>2, <2>3 DEF Part, Channel, Link, Promise
  <2> QED BY <1>1, <2>1, <2>4
<1>3. SavedInv'
  BY <1>2 DEF SavedInv
<1>4. FoundInv'
  BY <1>1, SameFound
<1> QED BY <1>3, <1>4 DEF StashInv

LEMMA DropLateStash ==
    ASSUME IInv, LInv, StashInv, DropLate(Stash)
    PROVE  StashInv'
<1> DEFINE r == inq[Stash]
<1>1. UNCHANGED <<svc, listed, nextid, acked, delreq, deadOK, instn, disk, net>>
  BY DEF DropLate, svcVars, userVars, extVars
<1>2. /\ r \in Seq(Replies) /\ r # <<>> /\ Head(r) = LateAck /\ inq'[Stash] = Tail(r)
  <2>1. inq \in [Targets -> Seq(Replies)] /\ Stash \in Targets
    BY DEF IInv, TypeOK, InqType, Targets
  <2> QED BY <2>1 DEF DropLate
<1>3. ASSUME NEW i \in Instns
      PROVE  Part(i, instn'[i], net'[Stash][i], inq'[Stash], disk'[i], acked', delreq', deadOK')
  <2>1. Part(i, instn[i], net[Stash][i], r, disk[i], acked, delreq, deadOK)
    BY DEF StashInv, SavedInv
  <2>2. Once(r, i)
    BY <2>1 DEF Part, Channel
  <2>3. Once(Tail(r), i) /\ (HasAck(Tail(r), i) <=> HasAck(r, i))
    BY <1>2, <2>2, AckTail, AckNames
  <2> HIDE DEF r
  <2> QED BY <1>1, <1>2, <2>1, <2>3, PartOther
<1>4. SavedInv'
  BY <1>3 DEF SavedInv
<1>5. FoundInv'
  BY <1>1, SameFound
<1> QED BY <1>4, <1>5 DEF StashInv

LEMMA CarryStash ==
    ASSUME IInv, LInv, StashInv, NEW i \in Instns, StashCarry(i, TRUE)
    PROVE  StashInv'
<1> DEFINE o == instn[i] q == net[Stash][i] r == inq[Stash] m == Head(q)
           p == net'[Stash][i] s == inq'[Stash] e == disk'[i]
<1>1. /\ q \in Seq(Messages(Stash)) /\ r \in Seq(Replies) /\ Stash \in Targets
      /\ net[Stash] \in [Instns -> Seq(Messages(Stash))] /\ net = [t \in Targets |-> net[t]]
      /\ inq \in [Targets -> Seq(Replies)] /\ disk \in [Instns -> Buckets \cup {None}]
  BY StashTypes DEF IInv, TypeOK, ExternalType
<1>2. /\ q # <<>> /\ UNCHANGED <<svc, listed, nextid, acked, delreq, deadOK, instn>>
      /\ net' = [net EXCEPT ![Stash][i] = Tail(q)]
      /\ inq' = (IF m.live THEN [inq EXCEPT ![Stash] = Append(r, Ack(i))] ELSE inq)
      /\ disk' = [disk EXCEPT ![i] = m.arg]
  BY DEF StashCarry, Carry, svcVars, userVars
<1>3. /\ p = Tail(q) /\ e = m.arg
      /\ \A j \in Instns : j # i => net'[Stash][j] = net[Stash][j] /\ disk'[j] = disk[j]
      /\ m.live => s = Append(r, Ack(i))
      /\ ~m.live => s = r
  BY <1>1, <1>2
<1>4. Channel(i, q, r) /\ Link(i, o, q, r, disk[i])
      /\ Promise(i, o, q, disk[i], acked, delreq, deadOK)
  BY DEF StashInv, SavedInv, Part
<1>5. /\ LastLive(p) /\ AllSent(p) /\ Sent(m)
      /\ m.live => p = <<>>
      /\ \A op : AllOps(q, op) => AllOps(p, op) /\ m.op = op
      /\ \A op : LiveOps(q, op) => LiveOps(p, op) /\ (m.live => m.op = op)
      /\ Pend(p) \/ m.live => Pend(q)
  BY <1>1, <1>2, <1>3, <1>4, QueueTail DEF Channel
<1>6. ~HasAck(r, i) /\ Once(r, i)
  BY <1>2, <1>4 DEF Channel
<1>7. \A j \in Instns : Once(s, j) /\ (j # i => (HasAck(s, j) <=> HasAck(r, j)))
  <2> SUFFICES ASSUME NEW j \in Instns
               PROVE  Once(s, j) /\ (j # i => (HasAck(s, j) <=> HasAck(r, j)))
    OBVIOUS
  <2>1. Once(r, j)
    BY DEF StashInv, SavedInv, Part, Channel
  <2>2. CASE ~m.live
    BY <1>3, <2>1, <2>2
  <2>3. CASE m.live
    <3>1. s = Append(r, Ack(i))
      BY <1>3, <2>3
    <3> HIDE DEF r, s
    <3>2. /\ Once(Append(r, Ack(i)), j)
          /\ j # i => (HasAck(Append(r, Ack(i)), j) <=> HasAck(r, j))
      BY <1>1, <1>6, <2>1, AckArrives
    <3> QED BY <3>1, <3>2
  <2> QED BY <2>2, <2>3
<1>8. HasAck(s, i) => m.live
  BY <1>3, <1>6
<1>9. /\ m.op = "put" => e # None
      /\ m.op = "del" => e = None
  BY <1>3, <1>5, NoneAssumption DEF Sent
<1>10. /\ AllOps(q, "put") => AllOps(p, "put") /\ e # None
       /\ AllOps(q, "del") => AllOps(p, "del") /\ e = None
       /\ LiveOps(q, "put") => LiveOps(p, "put") /\ (m.live => e # None)
       /\ LiveOps(q, "del") => LiveOps(p, "del") /\ (m.live => e = None)
  <2> HIDE DEF q, p, m, e
  <2> QED BY <1>5, <1>9
<1> HIDE DEF o, q, r, m, p, s, e
<1>11. Channel(i, p, s)
  BY <1>5, <1>7, <1>8 DEF Channel
<1>12. Link(i, o, p, s, e)
  BY <1>4, <1>5, <1>8, <1>10 DEF Link
<1>13. Promise(i, o, p, e, acked, delreq, deadOK)
  BY <1>4, <1>10 DEF Promise
<1>14. SavedInv'
  <2>1. Part(i, o, p, s, e, acked, delreq, deadOK)
    BY <1>11, <1>12, <1>13 DEF Part
  <2>2. instn' = [instn EXCEPT ![i] = o]
    BY <1>2 DEF IInv, TypeOK, o
  <2>3. ASSUME NEW j \in Instns, j # i
        PROVE  /\ net'[Stash][j] = net[Stash][j]
               /\ Once(inq'[Stash], j)
               /\ (HasAck(inq'[Stash], j) <=> HasAck(inq[Stash], j))
               /\ disk'[j] = disk[j]
               /\ (j \in acked' <=> j \in acked)
               /\ (j \in delreq' <=> j \in delreq)
               /\ (j \in deadOK' <=> j \in deadOK)
    BY <1>2, <1>3, <1>7, <2>3 DEF s, r
  <2>4. Part(i, o, net'[Stash][i], inq'[Stash], disk'[i], acked', delreq', deadOK')
    BY <1>2, <2>1 DEF p, s, e
  <2> QED BY <2>2, <2>3, <2>4, OneStash
<1>15. FoundInv'
  BY <1>2, SameFound
<1> QED BY <1>14, <1>15 DEF StashInv

LEMMA InitStash == Init => StashInv
<1> SUFFICES ASSUME Init PROVE StashInv
  OBVIOUS
<1>1. ASSUME NEW i \in Instns
      PROVE  Part(i, instn[i], net[Stash][i], inq[Stash], disk[i], acked, delreq, deadOK)
  <2>1. /\ net[Stash][i] = <<>> /\ inq[Stash] = <<>>
        /\ acked = {} /\ deadOK = {}
    BY DEF Init, Empty, Targets
  <2>2. LastLive(<<>>) /\ AllSent(<<>>) /\ ~Pend(<<>>) /\ ~HasAck(<<>>, i) /\ Once(<<>>, i)
    BY DEF LastLive, AllSent, Pend, HasAck, Once
  <2>3. ~Does(instn[i], "create") /\ ~Does(instn[i], "delete")
    BY DEF Init, Empty, Blank, Does
  <2> QED BY <2>1, <2>2, <2>3 DEF Part, Channel, Link, Promise
<1>2. FoundInv
  BY DEF Init, Empty, FoundInv, Serving
<1> QED BY <1>1, <1>2 DEF StashInv, SavedInv

LEMMA NextStash ==
    ASSUME ~StashErrs, IInv, LInv, StashInv, [Next]_vars
    PROVE  StashInv'
<1>1. IInv'
  BY NextInv
<1>2. CASE StashMoves
  BY <1>2, StashDownStash, DropLateStash, CarryStash DEF StashMoves
<1>3. ASSUME NEW i \in Instns, StashStep(i) PROVE StashInv'
  <2>1. CASE StartSave(i)
    BY <2>1, StartSaveStash
  <2>2. ASSUME NEW ok \in BOOLEAN, CreateDone(i, ok) PROVE StashInv'
    BY <2>2, CreateDoneStash
  <2>3. ASSUME NEW ok \in BOOLEAN,
               SaveDone(i, ok) \/ SetPropsDone(i, ok) \/ (~ok /\ DeleteDone(i, ok))
        PROVE  StashInv'
    BY <2>3, SaveDoneStash
  <2>4. CASE DeleteDone(i, TRUE)
    BY <2>4, DeleteDoneStash
  <2> QED BY <1>3, <2>1, <2>2, <2>3, <2>4 DEF StashStep
<1> QED BY <1>1, <1>2, <1>3, NextCases, QuietStash, LoadStash, DieStash, HttpCreateStash

THEOREM Saved == ASSUME ~StashErrs PROVE Spec => [](IInv /\ LInv /\ StashInv)
<1>1. Init => IInv /\ LInv /\ StashInv
  BY InitInv, InitLInv, InitStash
<1>2. (IInv /\ LInv /\ StashInv) /\ [Next]_vars => (IInv /\ LInv /\ StashInv)'
  BY NextInv, NextLInv, NextStash
<1> QED BY <1>1, <1>2, PTL DEF Spec

\* What POST /instrumentations answered with 201 and nobody asked to delete is
\* in the stash, after any crash of the service and any restart of the stash,
\* whatever was refused, timed out or was carried out late.  (If the stash's
\* disk does not fail: instnTaskSave looks at the error of the call, not at
\* the result of the request in it.)
THEOREM AckedIsSaved == ASSUME ~StashErrs PROVE Spec => []Durable
<1>1. IInv /\ StashInv => Durable
  BY DEF StashInv, SavedInv, Part, Promise, Durable, IInv, TypeOK, UserType
<1> QED BY <1>1, Saved, PTL

\* What DELETE answered with 204 stays deleted: it is not in the stash, and no
\* save that timed out is still on its way there.
THEOREM DeletedStaysDeleted == ASSUME ~StashErrs PROVE Spec => []NoResurrection
<1>1. IInv /\ StashInv => NoResurrection
  BY DEF StashInv, SavedInv, Part, Promise, AllOps, NoResurrection, IInv, TypeOK, UserType
<1> QED BY <1>1, Saved, PTL

LEMMA NextFreshId ==
    ASSUME IInv, LInv, StashInv, [Next]_vars, NEW i \in Instns,
           Serving(svc), instn[i].where # "creating", instn'[i].where = "creating"
    PROVE  i \notin acked \ delreq
<1>1. IInv' /\ instn \in [Instns -> Objects]
  BY NextInv DEF IInv, TypeOK
<1>2. ~Quiet
  BY DEF Quiet, Mild, Tame
<1>3. ~(Start \/ LoadList \/ StashMoves)
  BY DEF Start, LoadList, StashMoves, TargetDown, DropLate, StashCarry
<1>4. ~LoadFetch
  BY DEF LoadFetch, Serving
<1>5. ~Die
  BY DEF Die, Blank
<1>6. ASSUME NEW j \in Instns PROVE ~StashStep(j)
  <2>1. ~StartSave(j)
    BY <1>1, StartSaveObject
  <2>2. \A ok \in BOOLEAN : ~CreateDone(j, ok)
    BY <1>1, CreateDoneObject
  <2>3. ASSUME NEW ok \in BOOLEAN,
               SaveDone(j, ok) \/ SetPropsDone(j, ok) \/ (~ok /\ DeleteDone(j, ok))
        PROVE  FALSE
    BY <1>1, <2>3, SaveDoneObject DEF Tame
  <2>4. ~DeleteDone(j, TRUE)
    BY <1>1, DeleteDoneObject
  <2> QED BY <2>1, <2>2, <2>3, <2>4 DEF StashStep
<1>7. ASSUME NEW s \in Scopes, NEW v \in PropVals, HttpCreate(s, v)
      PROVE  i = <<s, nextid[s]>>
  BY <1>1, <1>7, HttpCreateObject DEF Created
<1>8. \A j \in acked \ delreq : j[2] < nextid[Scope(j)]
  BY DEF StashInv, FoundInv
<1>9. PICK s \in Scopes, v \in PropVals : HttpCreate(s, v)
  BY <1>1, <1>2, <1>3, <1>4, <1>5, <1>6, NextCases
<1>10. i[2] = nextid[Scope(i)] /\ nextid[Scope(i)] \in Int
  BY <1>7, <1>9 DEF Scope, IInv, TypeOK, ServiceType
<1> QED BY <1>8, <1>10

\* Once the configuration is loaded, an id is not handed out again while
\* clients believe that its instrumentation exists, however often the service
\* has been restarted, has taken cfg_nextid from what it found in the stash,
\* and has served creations before it had.  (Those are excepted: module
\* Startup shows that they take ids of instrumentations that exist.)
THEOREM IdsAreFresh == ASSUME ~StashErrs PROVE Spec => NoIdReuse
<1>1. IInv /\ LInv /\ StashInv /\ [Next]_vars
        => [\A i \in Instns :
              (/\ svc \in {"up", "stopping"}
               /\ instn[i].where # "creating" /\ instn'[i].where = "creating")
                  => i \notin acked \ delreq]_vars
  BY NextFreshId DEF Serving
<1> QED BY <1>1, Saved, PTL DEF Spec, NoIdReuse

-----------------------------------------------------------------------------
(* The channels of every target.  In what follows q holds the commands for *)
(* one instrumentation in the queue of a target and r what that target     *)
(* sent back.                                                              *)

\* The last command is the only one that the service may wait for, and once it
\* is carried out none is left.
Line(i, q, r) == LastLive(q) /\ Once(r, i) /\ (HasAck(r, i) => q = <<>>)
Open(i, q, r) == Pend(q) \/ HasAck(r, i)

\* The targets that the running task may wait for.
AggrFuncs == {"aggrUpdate", "aggrDisable"}
Awaited(o) ==
    IF o.cur = None THEN {}
    ELSE IF o.cur.f \in StashFuncs THEN {Stash}
    ELSE IF o.cur.f \in AggrFuncs THEN {o.aggr}
    ELSE IF o.cur.f = "instrsUpdate" THEN Hosts ELSE {}

Lines(i, o) ==
    /\ o.wait \subseteq Awaited(o)
    /\ \A t \in Targets : /\ Line(i, net[t][i], inq[t])
                          /\ Open(i, net[t][i], inq[t]) => t \in o.wait

LinesInv == \A i \in Instns : Lines(i, instn[i])

-----------------------------------------------------------------------------
(* The entries for the instrumenters and what they stand for.              *)

On(o) == {h \in Hosts : o.state[h] = "on"}
Single(o, f) == \A j, k \in DOMAIN o.tasks : o.tasks[j].f = f /\ o.tasks[k].f = f => j = k
ZonesAsked(o) == Has(o, "zonesUpdate") \/ Does(o, "zonesUpdate")

\* Once more zones of a customer can still become known, only hosts that have
\* some are enabled; the zones of a customer are asked for once per life.
Entries(i, o, kn) ==
    /\ o.where = "creating" => On(o) = {}
    /\ Scope(i) = Global => ~Does(o, "zonesUpdate")
    /\ o.where = "live" =>
        /\ On(o) \subseteq kn
        /\ Does(o, "instrsUpdate") => /\ o.zones = None \/ o.want = o.zones
                                      /\ o.wait \subseteq kn
        /\ Scope(i) # Global => /\ Single(o, "zonesUpdate")
                                /\ Does(o, "zonesUpdate") => ~Has(o, "zonesUpdate")
        /\ Scope(i) = Global \/ ZonesAsked(o) => o.zones = None \/ On(o) \subseteq o.zones

EntriesInv == \A i \in Instns : Entries(i, instn[i], known)

\* The instrumenter h has i, or it is away, or its announcement will be read
\* after the answer that is on its way: hs and u are hostHas[h] and up.
Will(r, i) == \E k \in DOMAIN r : r[k] = Online /\ \A j \in DOMAIN r : r[j] = Ack(i) => j < k
There(i, h, r, hs, u) == i \in hs \/ h \notin u \/ Will(r, i)

\* What the entry for h says, if metadata never conflict.  One that is not going
\* to be removed is enabled only when nothing is left in the queue that could
\* change it.
Wanted(o, h) == o.zones = None \/ h \in o.zones \/ h \in o.want
Belief(i, h, o, q, r, hs, u) ==
    FALSE \notin Metadata /\ o.where = "live" =>
        /\ h \in o.want => LiveOps(q, "enable") /\ (HasAck(r, i) => There(i, h, r, hs, u))
        /\ o.state[h] = "on" /\ Wanted(o, h) => q = <<>> /\ There(i, h, r, hs, u)

BeliefInv ==
    \A i \in Instns, h \in Hosts : Belief(i, h, instn[i], net[h][i], inq[h], hostHas[h], up)

-----------------------------------------------------------------------------
(* What happens on a channel.                                              *)

LEMMA ChannelTypes ==
    ASSUME IInv
    PROVE  /\ net = [t \in Targets |-> net[t]] /\ inq \in [Targets -> Seq(Replies)]
           /\ \A t \in Targets : net[t] \in [Instns -> Seq(Messages(t))]
           /\ \A t \in Targets : inq[t] \in Seq(Replies)
           /\ \A t \in Targets, i \in Instns : net[t][i] \in Seq(Messages(t))
           /\ instn \in [Instns -> Objects] /\ hostHas \in [Hosts -> SUBSET Instns]
           /\ known \subseteq Aggrs \cup Hosts
BY DEF IInv, TypeOK, NetType, InqType, ExternalType, ServiceType

\* The channel between i and t and those of the others, when the command of i is
\* answered or given up.
Alone(i, t) ==
    \A j \in Instns, u \in Targets :
        (j # i \/ u # t) =>
            /\ net'[u][j] = net[u][j]
            /\ Once(inq[u], j) => /\ Once(inq'[u], j)
                                  /\ HasAck(inq'[u], j) <=> HasAck(inq[u], j)

LEMMA ResultLine ==
    ASSUME IInv, LinesInv, NEW i \in Instns, NEW t \in Targets, NEW ok, Result(t, i, ok)
    PROVE  /\ Line(i, net'[t][i], inq'[t]) /\ ~Open(i, net'[t][i], inq'[t])
           /\ Alone(i, t)
           /\ ok => HasAck(inq[t], i) /\ Head(inq[t]) = Ack(i) /\ inq'[t] = Tail(inq[t])
           /\ net[t][i] = <<>> => net'[t][i] = <<>>
           /\ ~ok => inq'[t] = Disown(inq[t], i)
           /\ \A u \in Targets : u # t => net'[u] = net[u] /\ inq'[u] = inq[u]
           /\ \A op : AllOps(net[t][i], op) => AllOps(net'[t][i], op)
<1> DEFINE q == net[t][i]
           r == inq[t]
<1>1. /\ q \in Seq(Messages(t)) /\ r \in Seq(Replies)
      /\ net = [u \in Targets |-> net[u]] /\ net[t] \in [Instns -> Seq(Messages(t))]
      /\ inq \in [Targets -> Seq(Replies)]
  BY ChannelTypes
<1>2. Line(i, q, r)
  BY DEF LinesInv, Lines
<1>3. CASE ok /\ Acknowledged(t, i)
  <2>1. /\ r # <<>> /\ Head(r) = Ack(i) /\ inq'[t] = Tail(r) /\ net' = net
        /\ \A u \in Targets : u # t => inq'[u] = inq[u]
    BY <1>1, <1>3 DEF Acknowledged
  <2>2. HasAck(r, i) /\ ~HasAck(Tail(r), i) /\ Once(Tail(r), i)
    BY <1>1, <1>2, <2>1, AckTail DEF Line
  <2>3. \A j \in Instns : j # i /\ Once(r, j)
                          => Once(Tail(r), j) /\ (HasAck(Tail(r), j) <=> HasAck(r, j))
    BY <1>1, <1>2, <2>1, AckTail, AckNames
  <2>4. q = <<>> /\ ~Pend(<<>>)
    BY <1>2, <2>2 DEF Pend, Line
  <2>5. Alone(i, t)
    BY <2>1, <2>3 DEF Alone
  <2>6. Line(i, net'[t][i], inq'[t]) /\ ~Open(i, net'[t][i], inq'[t])
    BY <1>2, <2>1, <2>2, <2>4 DEF Line, Open
  <2> QED BY <1>3, <2>1, <2>2, <2>4, <2>5, <2>6
<1>4. CASE ~ok /\ Failed(t, i)
  <2>1. inq'[t] = Disown(r, i) /\ \A u \in Targets : u # t => inq'[u] = inq[u]
    BY <1>1, <1>4 DEF Failed
  <2>2. /\ ~HasAck(Disown(r, i), i) /\ Once(Disown(r, i), i)
        /\ \A j \in Instns : j # i /\ Once(r, j)
                             => Once(Disown(r, i), j) /\ (HasAck(Disown(r, i), j) <=> HasAck(r, j))
    BY <1>2, AckDisown DEF Line
  <2>3. /\ ~Pend(net'[t][i]) /\ LastLive(net'[t][i])
        /\ q = <<>> => net'[t][i] = <<>>
        /\ \A op : AllOps(q, op) => AllOps(net'[t][i], op)
        /\ \A j \in Instns : j # i => net'[t][j] = net[t][j]
        /\ \A u \in Targets : u # t => net'[u] = net[u]
    <3>1. CASE Refused(t, i)
      <4>1. q # <<>> /\ Head(q).live /\ net' = [net EXCEPT ![t][i] = Tail(q)]
        BY <3>1 DEF Refused, IsLive
      <4>2. /\ net'[t][i] = Tail(q)
            /\ \A j \in Instns : j # i => net'[t][j] = net[t][j]
            /\ \A u \in Targets : u # t => net'[u] = net[u]
        BY <1>1, <4>1
      <4>3. Tail(q) = <<>> /\ LastLive(Tail(q)) /\ \A op : AllOps(q, op) => AllOps(Tail(q), op)
        BY <1>1, <1>2, <4>1, QueueTail DEF Line
      <4>4. ~Pend(<<>>)
        BY DEF Pend
      <4> QED BY <4>1, <4>2, <4>3, <4>4
    <3>2. CASE LateAnswer(t, i)
      <4>1. net' = [net EXCEPT ![t][i] = Forget(q)]
        BY <3>2 DEF LateAnswer
      <4>2. /\ net'[t][i] = Forget(q)
            /\ \A j \in Instns : j # i => net'[t][j] = net[t][j]
            /\ \A u \in Targets : u # t => net'[u] = net[u]
        BY <1>1, <4>1
      <4> QED BY <1>1, <4>2, QueueForget
    <3>3. CASE NoAnswer(t, i)
      BY <1>2, <3>3 DEF NoAnswer, Pending, Pend, IsLive, Line
    <3> QED BY <1>4, <3>1, <3>2, <3>3 DEF Failed
  <2>4. Alone(i, t)
    BY <2>1, <2>2, <2>3 DEF Alone
  <2>5. Line(i, net'[t][i], inq'[t]) /\ ~Open(i, net'[t][i], inq'[t])
    BY <2>1, <2>2, <2>3 DEF Line, Open
  <2> QED BY <1>4, <2>1, <2>3, <2>4, <2>5
<1> QED BY <1>3, <1>4 DEF Result

\* The channels of all the others.
Others(i) ==
    \A j \in Instns, u \in Targets :
        j # i => /\ net'[u][j] = net[u][j]
                 /\ Once(inq[u], j) => /\ Once(inq'[u], j)
                                       /\ HasAck(inq'[u], j) <=> HasAck(inq[u], j)

\* A step that changes one object, and perhaps its channels.
LEMMA OneLines ==
    ASSUME IInv, LinesInv, NEW i \in Instns, NEW n, instn' = [instn EXCEPT ![i] = n],
           Others(i), n.wait \subseteq Awaited(n),
           \A t \in Targets : /\ Line(i, net'[t][i], inq'[t])
                              /\ Open(i, net'[t][i], inq'[t]) => t \in n.wait
    PROVE  LinesInv'
<1> SUFFICES ASSUME NEW j \in Instns PROVE Lines(j, instn[j])'
  BY DEF LinesInv
<1>1. CASE j = i
  BY <1>1, ChannelTypes DEF Lines
<1>2. CASE j # i
  <2>1. instn'[j] = instn[j]
    BY <1>2, ChannelTypes
  <2>2. ASSUME NEW t \in Targets
        PROVE  /\ Line(j, net'[t][j], inq'[t])
               /\ Open(j, net'[t][j], inq'[t]) => t \in instn[j].wait
    BY <1>2 DEF Others, LinesInv, Lines, Line, Open
  <2>3. instn[j].wait \subseteq Awaited(instn[j])
    BY DEF LinesInv, Lines
  <2> QED BY <2>1, <2>2, <2>3 DEF Lines
<1> QED BY <1>1, <1>2

\* A step that sends nothing and reads no answer.
SameChannels ==
    \A i \in Instns, t \in Targets :
        /\ net'[t][i] = net[t][i]
        /\ Once(inq[t], i) => /\ Once(inq'[t], i)
                              /\ HasAck(inq'[t], i) <=> HasAck(inq[t], i)

LEMMA SameLines ==
    ASSUME IInv, LinesInv, SameChannels,
           \A i \in Instns : /\ instn[i].wait \subseteq instn'[i].wait
                             /\ instn'[i].wait \subseteq Awaited(instn'[i])
    PROVE  LinesInv'
<1> SUFFICES ASSUME NEW i \in Instns PROVE Lines(i, instn[i])'
  BY DEF LinesInv
<1>1. ASSUME NEW t \in Targets
      PROVE  /\ Line(i, net'[t][i], inq'[t])
             /\ Open(i, net'[t][i], inq'[t]) => t \in instn'[i].wait
  BY DEF SameChannels, LinesInv, Lines, Line, Open
<1> QED BY <1>1 DEF Lines

\* The end of a task that waits for one target at most.
LEMMA EndLines ==
    ASSUME IInv, LinesInv, NEW i \in Instns, NEW t \in Targets, NEW ok, Result(t, i, ok),
           Awaited(instn[i]) \subseteq {t}, NEW n, instn' = [instn EXCEPT ![i] = n],
           n.wait = {}
    PROVE  LinesInv'
<1>1. /\ Line(i, net'[t][i], inq'[t]) /\ ~Open(i, net'[t][i], inq'[t]) /\ Alone(i, t)
      /\ \A u \in Targets : u # t => net'[u] = net[u] /\ inq'[u] = inq[u]
  BY ResultLine
<1>2. Others(i)
  BY <1>1 DEF Alone, Others
<1>3. ASSUME NEW u \in Targets PROVE Line(i, net'[u][i], inq'[u]) /\ ~Open(i, net'[u][i], inq'[u])
  <2>1. CASE u = t
    BY <1>1, <2>1
  <2>2. CASE u # t
    BY <1>1, <2>2 DEF LinesInv, Lines
  <2> QED BY <2>1, <2>2
<1> QED BY <1>2, <1>3, OneLines

\* A task sends its commands.  Nothing was waited for before.
LEMMA SendLines ==
    ASSUME IInv, LinesInv, NEW i \in Instns, instn[i].cur = None,
           NEW cmds, Send(cmds, i), UNCHANGED inq,
           \A t \in Targets \cap DOMAIN cmds : cmds[t] \in Messages(t),
           NEW n, instn' = [instn EXCEPT ![i] = n],
           DOMAIN cmds \subseteq n.wait, n.wait \subseteq Awaited(n)
    PROVE  /\ LinesInv' /\ Others(i)
           /\ \A t \in Targets \ DOMAIN cmds : net'[t] = net[t]
           /\ \A t \in Targets : LiveOps(net[t][i], "none")
           /\ \A t \in Targets \cap DOMAIN cmds : LiveOps(net'[t][i], cmds[t].op)
           /\ \A t \in Targets : ~HasAck(inq[t], i)
<1>1. ASSUME NEW t \in Targets
      PROVE  Line(i, net[t][i], inq[t]) /\ ~Open(i, net[t][i], inq[t])
  BY DEF LinesInv, Lines, Awaited
<1>2. ASSUME NEW t \in Targets
      PROVE  /\ t \in DOMAIN cmds \cap up
                  => /\ net'[t][i] = Append(net[t][i], cmds[t])
                     /\ \A j \in Instns : j # i => net'[t][j] = net[t][j]
             /\ t \notin DOMAIN cmds \cap up => net'[t] = net[t]
  BY ChannelTypes DEF Send
<1>3. Others(i)
  <2> SUFFICES ASSUME NEW j \in Instns, NEW t \in Targets, j # i PROVE net'[t][j] = net[t][j]
    BY DEF Others
  <2> QED BY <1>2
<1>4. ASSUME NEW t \in Targets, t \in DOMAIN cmds \cap up
      PROVE  Line(i, net'[t][i], inq'[t]) /\ LiveOps(net'[t][i], cmds[t].op)
  <2>1. net[t][i] \in Seq(Messages(t)) /\ cmds[t] \in Messages(t) /\ ~Pend(net[t][i])
    BY <1>1, <1>4, ChannelTypes DEF Open
  <2>2. /\ LastLive(Append(net[t][i], cmds[t]))
        /\ LiveOps(Append(net[t][i], cmds[t]), cmds[t].op)
    BY <2>1, QueueAppend
  <2> QED BY <1>1, <1>2, <1>4, <2>2 DEF Line, Open
<1>5. ASSUME NEW t \in Targets
      PROVE  /\ Line(i, net'[t][i], inq'[t])
             /\ Open(i, net'[t][i], inq'[t]) => t \in n.wait
             /\ ~HasAck(inq[t], i) /\ ~Pend(net[t][i])
             /\ t \in DOMAIN cmds => LiveOps(net'[t][i], cmds[t].op)
  <2>1. CASE t \in DOMAIN cmds \cap up
    BY <1>1, <1>4, <2>1 DEF Open
  <2>2. CASE t \notin DOMAIN cmds \cap up
    BY <1>1, <1>2, <2>2 DEF Open, Pend, LiveOps
  <2> QED BY <2>1, <2>2
<1>6. LinesInv'
  BY <1>3, <1>5, OneLines
<1>7. \A t \in Targets : LiveOps(net[t][i], "none")
  BY <1>5 DEF Pend, LiveOps
<1> QED BY <1>2, <1>3, <1>5, <1>6, <1>7

-----------------------------------------------------------------------------
(* What an operation leaves of an object.                                  *)

Zoned(o) == Has(o, "zonesUpdate")

Alike(o, n) ==
    /\ n.where = o.where /\ n.aggr = o.aggr /\ n.zones = o.zones
    /\ n.state = o.state /\ n.want = o.want

LEMMA EnqueueAlike ==
    ASSUME NEW o \in Objects, NEW t \in Tasks
    PROVE  LET n == Enqueue(o, t)
           IN /\ n \in Objects /\ Alike(o, n) /\ n.cur = o.cur /\ n.wait = o.wait
              /\ Zoned(n) => Zoned(o) \/ t.f = "zonesUpdate"
              /\ Single(o, "zonesUpdate") /\ (t.f = "zonesUpdate" => ~Zoned(o))
                    => Single(n, "zonesUpdate")
<1> DEFINE n == [o EXCEPT !.tasks = Append(@, t)]
<1>1. CASE svc = "stopping"
  BY <1>1 DEF Enqueue, Alike
<1>2. CASE svc # "stopping"
  <2>1. o.tasks \in Seq(Tasks)
    BY DEF Objects
  <2>2. /\ Append(o.tasks, t) \in Seq(Tasks) /\ Len(o.tasks) \in Nat
        /\ DOMAIN o.tasks = 1..Len(o.tasks)
        /\ DOMAIN Append(o.tasks, t) = 1..(Len(o.tasks) + 1)
        /\ \A k \in 1..Len(o.tasks) : Append(o.tasks, t)[k] = o.tasks[k]
        /\ Append(o.tasks, t)[Len(o.tasks) + 1] = t
    BY <2>1, AppendProperties, LenProperties
  <2>3. \A k \in DOMAIN Append(o.tasks, t) :
            \/ (k = Len(o.tasks) + 1 /\ Append(o.tasks, t)[k] = t)
            \/ (k \in DOMAIN o.tasks /\ Append(o.tasks, t)[k] = o.tasks[k])
    BY <2>2
  <2>4. n \in Objects /\ Alike(o, n) /\ n.cur = o.cur /\ n.wait = o.wait
        /\ n.tasks = Append(o.tasks, t)
    BY <2>2 DEF Objects, Alike
  <2>5. Zoned(n) => Zoned(o) \/ t.f = "zonesUpdate"
    BY <2>3, <2>4 DEF Zoned, Has
  <2>6. Single(o, "zonesUpdate") /\ (t.f = "zonesUpdate" => ~Zoned(o))
            => Single(n, "zonesUpdate")
    BY <2>3, <2>4 DEF Zoned, Has, Single
  <2> QED BY <1>2, <2>4, <2>5, <2>6 DEF Enqueue
<1> QED BY <1>1, <1>2

LEMMA SettleAlike ==
    ASSUME NEW o \in Objects
    PROVE  LET n == Settle(o)
           IN /\ n \in Objects /\ n.cur = None /\ n.wait = {}
              /\ o.where = "dead" => n.where \in {"dead", "none"}
              /\ o.where # "dead" => Alike(o, n) /\ n.tasks = o.tasks
<1>1. Blank \in Objects /\ Blank.cur = None /\ Blank.wait = {} /\ Blank.where = "none"
  BY EmptySeq DEF Blank, Objects, Confs, Zones
<1> DEFINE n == [o EXCEPT !.cur = None, !.wait = {}]
<1>2. /\ n \in Objects /\ Alike(o, n) /\ n.cur = None /\ n.wait = {} /\ n.tasks = o.tasks
  BY DEF Objects, Alike
<1> HIDE DEF n
<1>3. Settle(o) = IF o.where = "dead" /\ o.tasks = <<>> THEN Blank ELSE n
  BY DEF Settle, n
<1> QED BY <1>1, <1>2, <1>3 DEF Alike

\* Beginning the next task.
LEMMA ShiftedAlike ==
    ASSUME IInv, LinesInv, NEW i \in Instns, NEW funcs, Ready(i, funcs)
    PROVE  LET o == instn[i] n == Shifted(i)
           IN /\ o \in Objects /\ n \in Objects /\ Alike(o, n) /\ o.cur = None
              /\ o.wait = {} /\ n.wait = {} /\ n.cur # None /\ n.cur.f \in funcs
              /\ n.aggr \in Aggrs /\ n.conf = o.conf
              /\ Zoned(n) => Zoned(o)
              /\ n.cur.f = "zonesUpdate" => Zoned(o)
              /\ Single(o, "zonesUpdate") => /\ Single(n, "zonesUpdate")
                                             /\ n.cur.f = "zonesUpdate" => ~Zoned(n)
<1> DEFINE o == instn[i] n == Shifted(i)
<1>1. ObjectInv(i, o) /\ o.tasks # <<>> /\ n.cur.f \in funcs /\ o.cur = None
  BY ReadyObject DEF Ready
<1>2. /\ n \in Objects /\ Alike(o, n) /\ n.wait = o.wait /\ n.aggr \in Aggrs /\ n.conf = o.conf
      /\ n.cur \in Tasks
      /\ \A k \in DOMAIN n.tasks : k + 1 \in DOMAIN o.tasks /\ n.tasks[k] = o.tasks[k + 1]
      /\ o.tasks[1] = n.cur /\ 1 \in DOMAIN o.tasks
  BY <1>1, ShiftedObject DEF Alike
<1>3. n.cur # None
  BY <1>2, NoneAssumption
<1>4. o.wait = {}
  BY <1>1 DEF LinesInv, Lines, Awaited
<1>5. o \in Objects /\ n.tasks \in Seq(Tasks)
  BY <1>1, <1>2 DEF ObjectInv, Objects
<1>6. \A k \in DOMAIN n.tasks : k \in Int /\ k >= 1
  BY <1>5, LenProperties
<1> HIDE DEF o, n
<1>7. /\ Zoned(n) => Zoned(o)
      /\ n.cur.f = "zonesUpdate" => Zoned(o)
  BY <1>2 DEF Zoned, Has
<1>8. Single(o, "zonesUpdate") => Single(n, "zonesUpdate")
  <2> SUFFICES ASSUME Single(o, "zonesUpdate"), NEW j \in DOMAIN n.tasks, NEW k \in DOMAIN n.tasks,
                      n.tasks[j].f = "zonesUpdate", n.tasks[k].f = "zonesUpdate"
               PROVE  j = k
    BY DEF Single
  <2>1. j + 1 = k + 1
    BY <1>2 DEF Single
  <2> QED BY <1>6, <2>1
<1>9. Single(o, "zonesUpdate") /\ n.cur.f = "zonesUpdate" => ~Zoned(n)
  <2> SUFFICES ASSUME Single(o, "zonesUpdate"), n.cur.f = "zonesUpdate", NEW k \in DOMAIN n.tasks,
                      n.tasks[k].f = "zonesUpdate"
               PROVE  FALSE
    BY DEF Zoned, Has
  <2>1. k + 1 = 1
    BY <1>2 DEF Single
  <2> QED BY <1>6, <2>1
<1> QED BY <1>1, <1>2, <1>3, <1>4, <1>5, <1>7, <1>8, <1>9 DEF o, n

-----------------------------------------------------------------------------
(* Steps that leave the entries and the channels of the instrumenters.     *)

\* The entries are those of the old object, and no update of them begins ...
Plain(o, n) ==
    /\ n.where = "creating" => On(n) = {} \/ (o.where = "creating" /\ n.state = o.state)
    /\ Does(n, "zonesUpdate") => Does(o, "zonesUpdate")
    /\ n.where = "live" =>
          /\ o.where = "live" /\ n.state = o.state /\ n.want = o.want /\ n.zones = o.zones
          /\ Does(n, "instrsUpdate") => Does(o, "instrsUpdate") /\ n.wait = o.wait
          /\ Zoned(n) => Zoned(o)
          /\ Single(o, "zonesUpdate") => Single(n, "zonesUpdate")

\* ... or nothing is enabled yet.
Fresh(n) ==
    n.where = "live" /\ n.cur = None /\ n.wait = {} /\ On(n) = {} /\ Single(n, "zonesUpdate")

Calm ==
    /\ \A h \in Hosts : net'[h] = net[h] /\ inq'[h] = inq[h] /\ hostHas'[h] = hostHas[h]
    /\ up' \cap Hosts = up \cap Hosts /\ known \subseteq known'
    /\ \A i \in Instns : Plain(instn[i], instn'[i]) \/ Fresh(instn'[i])

LEMMA PlainSame == ASSUME NEW o PROVE Plain(o, o)
BY DEF Plain

LEMMA CalmAgents ==
    ASSUME IInv, IInv', LinesInv', EntriesInv, BeliefInv, Calm
    PROVE  EntriesInv' /\ BeliefInv'
<1>1. ASSUME NEW i \in Instns PROVE Entries(i, instn'[i], known')
  <2> DEFINE o == instn[i] n == instn'[i]
  <2>1. Entries(i, o, known) /\ known \subseteq known'
    BY DEF EntriesInv, Calm
  <2>2. Plain(o, n) \/ Fresh(n)
    BY DEF Calm
  <2> HIDE DEF o, n
  <2>3. Entries(i, n, known')
    <3>1. CASE Fresh(n)
      BY <3>1 DEF Fresh, Entries, Does
    <3>2. CASE Plain(o, n)
      BY <2>1, <3>2 DEF Plain, Entries, On, Zoned, ZonesAsked
    <3> QED BY <2>2, <3>1, <3>2
  <2> QED BY <2>3 DEF n
<1>2. ASSUME NEW i \in Instns, NEW h \in Hosts
      PROVE  Belief(i, h, instn'[i], net'[h][i], inq'[h], hostHas'[h], up')
  <2> DEFINE o == instn[i] n == instn'[i] q == net[h][i] r == inq[h] s == hostHas[h]
  <2>1. /\ net'[h][i] = q /\ inq'[h] = r /\ hostHas'[h] = s /\ (h \in up' <=> h \in up)
        /\ Plain(o, n) \/ Fresh(n)
    BY DEF Calm
  <2>2. Belief(i, h, o, q, r, s, up)
    BY DEF BeliefInv
  <2>3. Open(i, q, r) => h \in n.wait
    BY <2>1 DEF LinesInv, Lines, Targets
  <2> HIDE DEF o, n, q, r, s
  <2>4. Belief(i, h, n, q, r, s, up)
    <3>1. CASE Fresh(n)
      BY <2>3, <3>1 DEF Fresh, Belief, Open, Pend, LiveOps, On
    <3>2. CASE Plain(o, n)
      BY <2>2, <3>2 DEF Plain, Belief, Wanted
    <3> QED BY <2>1, <3>1, <3>2
  <2> QED BY <2>1, <2>4 DEF Belief, There, n
<1> QED BY <1>1, <1>2 DEF EntriesInv, BeliefInv

\* One change after another.
LEMMA PlainThen ==
    ASSUME NEW o, NEW n, NEW m, Plain(o, n), Plain(n, m)
    PROVE  Plain(o, m)
BY DEF Plain, On

\* An object with the same entries and the same tasks, that does nothing with
\* either; a task that is queued; the end of a task.
LEMMA PlainAlike ==
    ASSUME NEW o, NEW n, Alike(o, n), n.tasks = o.tasks,
           (n.cur = o.cur /\ n.wait = o.wait) \/ n.cur = None
                \/ n.cur.f \notin {"zonesUpdate", "instrsUpdate"}
    PROVE  Plain(o, n)
BY DEF Plain, Alike, Does, Single, Zoned, Has

LEMMA PlainEnqueue ==
    ASSUME NEW o \in Objects, NEW t \in Tasks, t.f # "zonesUpdate"
    PROVE  /\ Plain(o, Enqueue(o, t)) /\ Enqueue(o, t) \in Objects
           /\ Alike(o, Enqueue(o, t))
           /\ Enqueue(o, t).cur = o.cur /\ Enqueue(o, t).wait = o.wait
BY EnqueueAlike DEF Plain, Alike, Does

LEMMA PlainSettle ==
    ASSUME NEW o \in Objects
    PROVE  /\ Plain(o, Settle(o)) /\ Settle(o) \in Objects
           /\ Settle(o).wait = {} /\ Settle(o).cur = None
BY SettleAlike DEF Plain, Alike, Does, Single, Zoned, Has

\* A step that changes one object.
LEMMA OneCalm ==
    ASSUME IInv, NEW i \in Instns, NEW n, instn' = [instn EXCEPT ![i] = n],
           Plain(instn[i], n) \/ Fresh(n),
           \A h \in Hosts : net'[h] = net[h] /\ inq'[h] = inq[h],
           UNCHANGED <<hostHas, up, known>>
    PROVE  Calm
<1>1. ASSUME NEW j \in Instns PROVE Plain(instn[j], instn'[j]) \/ Fresh(instn'[j])
  <2>1. CASE j = i
    BY <2>1, ChannelTypes
  <2>2. CASE j # i
    BY <2>2, ChannelTypes, PlainSame
  <2> QED BY <2>1, <2>2
<1> QED BY <1>1 DEF Calm

LEMMA OtherHosts ==
    /\ Stash \in Targets /\ \A h \in Hosts : h # Stash /\ h \in Targets
    /\ \A a \in Aggrs : a \in Targets /\ a # Stash /\ \A h \in Hosts : h # a
BY ConstantsAssumption DEF Targets

-----------------------------------------------------------------------------
(* The tasks that save, and those for the aggregator.                      *)

LEMMA StartSaveAgents ==
    ASSUME IInv, LinesInv, NEW i \in Instns, StartSave(i)
    PROVE  LinesInv' /\ Calm
<1> DEFINE o == Shifted(i)
           n == [o EXCEPT !.deleted = Deleted(o), !.wait = {Stash}]
           conf == IF o.cur.f = "setprops" THEN [o.conf EXCEPT !.val = o.cur.val] ELSE o.conf
           cmd == IF Deleted(o) THEN Command("del", None)
                  ELSE Command("put", SaveRequest(o, conf))
           cmds == [t \in {Stash} |-> cmd]
<1>1. /\ Ready(i, StashFuncs) /\ instn' = [instn EXCEPT ![i] = n] /\ Send(cmds, i)
      /\ UNCHANGED <<svcVars, extVars, inq>>
  BY DEF StartSave
<1>2. /\ instn[i] \in Objects /\ o \in Objects /\ Alike(instn[i], o) /\ instn[i].cur = None
      /\ o.cur # None /\ o.cur.f \in StashFuncs /\ o.aggr \in Aggrs
      /\ Zoned(o) => Zoned(instn[i])
      /\ Single(instn[i], "zonesUpdate") => Single(o, "zonesUpdate")
  BY <1>1, ShiftedAlike
<1>3. cmd \in Messages(Stash)
  <2>1. conf \in Confs /\ o.zones \in Zones
    BY <1>2 DEF Objects, Confs, Tasks
  <2>2. SaveRequest(o, conf) \in Buckets
    BY <1>2, <2>1 DEF SaveRequest, Buckets
  <2> QED BY <2>2 DEF Command, Messages
<1>4. Alike(o, n) /\ n.tasks = o.tasks /\ n.cur = o.cur /\ n.wait = {Stash}
  BY <1>2 DEF Objects, Alike
<1>5. DOMAIN cmds = {Stash} /\ cmds[Stash] \in Messages(Stash)
  BY <1>3
<1> HIDE DEF cmds, n, o
<1>6. Plain(instn[i], n)
  <2>1. o.cur.f \notin {"zonesUpdate", "instrsUpdate"}
    BY <1>2 DEF StashFuncs
  <2>2. Plain(instn[i], o)
    BY <1>2, <2>1 DEF Plain, Alike, Does
  <2>3. Plain(o, n)
    BY <1>4, <2>1, PlainAlike
  <2> QED BY <2>2, <2>3, PlainThen
<1>7. Awaited(n) = {Stash}
  BY <1>2, <1>4 DEF Awaited
<1>8. LinesInv' /\ \A h \in Hosts : net'[h] = net[h]
  <2>1. LinesInv' /\ \A t \in Targets \ DOMAIN cmds : net'[t] = net[t]
    BY <1>1, <1>2, <1>4, <1>5, <1>7, SendLines
  <2> QED BY <1>5, <2>1, OtherHosts
<1> QED BY <1>1, <1>6, <1>8, OneCalm DEF svcVars, extVars

LEMMA StartAggrAgents ==
    ASSUME IInv, LinesInv, NEW i \in Instns, StartAggr(i)
    PROVE  LinesInv' /\ Calm
<1> DEFINE o == Shifted(i)
           cmd == IF o.cur.f = "aggrUpdate" THEN Command("enable", o.conf)
                  ELSE Command("disable", None)
           cmds == [t \in {o.aggr} |-> cmd]
           n == [o EXCEPT !.wait = {o.aggr}]
<1>1. Ready(i, {"aggrUpdate", "aggrDisable"}) /\ UNCHANGED <<svcVars, extVars, inq>>
  BY DEF StartAggr
<1>2. /\ instn[i] \in Objects /\ o \in Objects /\ Alike(instn[i], o) /\ instn[i].cur = None
      /\ instn[i].wait = {}
      /\ o.cur # None /\ o.cur.f \in {"aggrUpdate", "aggrDisable"} /\ o.aggr \in Aggrs
      /\ Zoned(o) => Zoned(instn[i])
      /\ Single(instn[i], "zonesUpdate") => Single(o, "zonesUpdate")
  BY <1>1, ShiftedAlike
<1>3. Plain(instn[i], o)
  BY <1>2 DEF Plain, Alike, Does
<1>4. CASE o.aggr \in known
  <2>1. instn' = [instn EXCEPT ![i] = n] /\ Send(cmds, i)
    BY <1>4 DEF StartAggr
  <2>2. cmd \in Messages(o.aggr)
    BY <1>2, OtherHosts DEF Command, Messages, Objects
  <2>3. DOMAIN cmds = {o.aggr} /\ cmds[o.aggr] \in Messages(o.aggr)
    BY <2>2
  <2>4. Alike(o, n) /\ n.tasks = o.tasks /\ n.cur = o.cur /\ n.wait = {o.aggr}
    BY <1>2 DEF Objects, Alike
  <2> HIDE DEF cmds, n, o
  <2>5. Plain(instn[i], n)
    BY <1>2, <1>3, <2>4, PlainAlike, PlainThen
  <2>6. Awaited(n) = {o.aggr}
    BY <1>2, <2>4 DEF Awaited, AggrFuncs, StashFuncs, Alike
  <2>7. LinesInv' /\ \A t \in Targets \ DOMAIN cmds : net'[t] = net[t]
    BY <1>1, <1>2, <2>1, <2>3, <2>4, <2>6, SendLines
  <2> QED BY <1>1, <1>2, <2>1, <2>3, <2>5, <2>7, OtherHosts, OneCalm DEF svcVars, extVars
<1>5. CASE o.aggr \notin known
  <2>1. instn' = [instn EXCEPT ![i] = Settle(o)] /\ UNCHANGED net
    BY <1>5 DEF StartAggr
  <2>2. Plain(instn[i], Settle(o)) /\ Settle(o).wait = {}
    BY <1>2, <1>3, PlainSettle, PlainThen
  <2>3. LinesInv'
    <3>1. /\ Others(i)
          /\ \A t \in Targets : Line(i, net'[t][i], inq'[t]) /\ ~Open(i, net'[t][i], inq'[t])
      BY <1>1, <1>2, <2>1 DEF Others, LinesInv, Lines
    <3> QED BY <2>1, <2>2, <3>1, OneLines
  <2> QED BY <1>1, <2>1, <2>2, <2>3, OneCalm DEF svcVars, extVars
<1> QED BY <1>4, <1>5

\* The end of a task that waits for the stash or for the aggregator.
LEMMA EndCalm ==
    ASSUME IInv, LinesInv, NEW i \in Instns, NEW t \in Targets \ Hosts, NEW ok, Result(t, i, ok),
           Awaited(instn[i]) \subseteq {t}, NEW n, instn' = [instn EXCEPT ![i] = n],
           n.wait = {}, Plain(instn[i], n) \/ Fresh(n), UNCHANGED <<hostHas, up, known>>
    PROVE  LinesInv' /\ Calm
<1>1. LinesInv'
  BY EndLines
<1>2. \A h \in Hosts : net'[h] = net[h] /\ inq'[h] = inq[h]
  BY ResultLine, OtherHosts
<1> QED BY <1>1, <1>2, OneCalm

LEMMA RunningAwaits ==
    ASSUME IInv, NEW i \in Instns, NEW funcs, Running(i, funcs)
    PROVE  /\ instn[i] \in Objects /\ instn[i].aggr \in Aggrs
           /\ funcs \subseteq StashFuncs => Awaited(instn[i]) = {Stash}
           /\ funcs \subseteq AggrFuncs => Awaited(instn[i]) = {instn[i].aggr}
           /\ funcs = {"instrsUpdate"} => Awaited(instn[i]) = Hosts
           /\ funcs = {"zonesUpdate"} => Awaited(instn[i]) = {}
           /\ instn[i].cur # None /\ instn[i].cur.f \in funcs /\ instn[i].cur \in Tasks
BY RunningObject DEF Awaited, AggrFuncs, StashFuncs

LEMMA CreateDoneAgents ==
    ASSUME IInv, LInv, LinesInv, EntriesInv, NEW i \in Instns, NEW ok \in BOOLEAN,
           CreateDone(i, ok)
    PROVE  LinesInv' /\ Calm
<1> DEFINE o == instn[i]
           n == [o EXCEPT !.where = "live"]
           e == Enqueue(n, Task("aggrUpdate"))
           m == Enqueue(e, Task("zonesUpdate"))
<1>1. Running(i, {"create"}) /\ Result(Stash, i, ok) /\ UNCHANGED <<hostHas, up, known>>
  BY DEF CreateDone, extVars
<1>2. /\ o \in Objects /\ o.cur # None /\ o.cur.f = "create" /\ Awaited(o) = {Stash}
      /\ Stash \in Targets \ Hosts
  BY <1>1, RunningAwaits, OtherHosts DEF StashFuncs
<1>3. CASE ok
  <2>1. instn' = [instn EXCEPT ![i] = Settle(m)]
    BY <1>3 DEF CreateDone
  <2>2. o.where = "creating" /\ o.tasks = <<>>
    BY <1>2 DEF LInv, ErrandInv, Errand, Does
  <2>3. On(o) = {}
    BY <2>2 DEF EntriesInv, Entries
  <2>4. /\ n \in Objects /\ n.where = "live" /\ n.state = o.state /\ n.tasks = <<>>
    BY <1>2, <2>2 DEF Objects
  <2>5. ~Zoned(n) /\ Single(n, "zonesUpdate")
    BY <2>4 DEF Zoned, Has, Single
  <2>6. /\ Task("aggrUpdate") \in Tasks /\ Task("aggrUpdate").f = "aggrUpdate"
        /\ Task("zonesUpdate") \in Tasks /\ Task("zonesUpdate").f = "zonesUpdate"
    BY TaskFacts
  <2> HIDE DEF n, o
  <2>7. /\ e \in Objects /\ Alike(n, e) /\ ~Zoned(e) /\ Single(e, "zonesUpdate")
    BY <2>4, <2>5, <2>6, EnqueueAlike
  <2> HIDE DEF e
  <2>8. /\ m \in Objects /\ Alike(e, m) /\ Single(m, "zonesUpdate")
    BY <2>6, <2>7, EnqueueAlike
  <2> HIDE DEF m
  <2>9. /\ Settle(m).where = "live" /\ Settle(m).state = o.state /\ Settle(m).tasks = m.tasks
        /\ Settle(m).cur = None /\ Settle(m).wait = {}
    BY <2>4, <2>7, <2>8, SettleAlike DEF Alike
  <2>10. Fresh(Settle(m))
    BY <2>3, <2>8, <2>9 DEF Fresh, On, Single
  <2> QED BY <1>1, <1>2, <2>1, <2>9, <2>10, EndCalm DEF o
<1>4. CASE ~ok
  <2>1. instn' = [instn EXCEPT ![i] = Blank]
    BY <1>4 DEF CreateDone
  <2>2. Plain(o, Blank) /\ Blank.wait = {}
    BY DEF Plain, Blank, Does
  <2> QED BY <1>1, <1>2, <2>1, <2>2, EndCalm
<1> QED BY <1>3, <1>4

LEMMA SaveDoneAgents ==
    ASSUME IInv, LInv, LinesInv, NEW i \in Instns, NEW ok \in BOOLEAN,
           SaveDone(i, ok) \/ SetPropsDone(i, ok)
    PROVE  LinesInv' /\ Calm
<1> DEFINE o == instn[i]
           n == [o EXCEPT !.conf.val = o.cur.val]
           e == Enqueue(n, Task("aggrUpdate"))
           m == IF SetPropsDone(i, ok) /\ ok THEN e ELSE o
<1>1. /\ Running(i, {"save", "setprops"}) /\ Result(Stash, i, ok)
      /\ UNCHANGED <<hostHas, up, known>>
  BY DEF SaveDone, SetPropsDone, svcVars, extVars, Running
<1>2. /\ o \in Objects /\ o.cur # None /\ o.cur.f \in {"save", "setprops"} /\ o.cur \in Tasks
      /\ Awaited(o) = {Stash} /\ Stash \in Targets \ Hosts
  BY <1>1, RunningAwaits, OtherHosts DEF StashFuncs
<1>3. SaveDone(i, ok) => instn' = [instn EXCEPT ![i] = Settle(o)]
  BY DEF SaveDone
<1>4. SetPropsDone(i, ok) => instn' = [instn EXCEPT ![i] = Settle(IF ok THEN e ELSE o)]
  BY DEF SetPropsDone
<1>5. n \in Objects
  <2>1. [o.conf EXCEPT !.val = o.cur.val] \in Confs
    BY <1>2 DEF Objects, Confs, Tasks
  <2>2. n = [o EXCEPT !.conf = [o.conf EXCEPT !.val = o.cur.val]]
    OBVIOUS
  <2> QED BY <1>2, <2>1, <2>2 DEF Objects
<1>6. Alike(o, n) /\ n.tasks = o.tasks /\ n.cur = o.cur /\ n.wait = o.wait
  BY <1>2 DEF Objects, Alike
<1>7. Task("aggrUpdate") \in Tasks /\ Task("aggrUpdate").f = "aggrUpdate"
  BY TaskFacts
<1> HIDE DEF n, o
<1>8. Plain(o, n) /\ Plain(n, e) /\ e \in Objects
  BY <1>5, <1>6, <1>7, PlainAlike, PlainEnqueue
<1> HIDE DEF e
<1>9. \A x \in {o, e} : Plain(o, Settle(x)) /\ Settle(x).wait = {}
  BY <1>2, <1>8, PlainThen, PlainSettle, PlainSame
<1>10. PICK x \in {o, e} : instn' = [instn EXCEPT ![i] = Settle(x)]
  BY <1>3, <1>4
<1> QED BY <1>1, <1>2, <1>9, <1>10, EndCalm DEF o

LEMMA DeleteDoneAgents ==
    ASSUME IInv, LInv, LinesInv, NEW i \in Instns, NEW ok \in BOOLEAN, DeleteDone(i, ok)
    PROVE  LinesInv' /\ Calm
<1> DEFINE o == instn[i]
           d == [o EXCEPT !.where = "dead", !.zones = {}]
           n == [d EXCEPT !.tasks = <<>>]
           e == Enqueue(n, Task("aggrDisable"))
           m == Enqueue(e, Task("instrsUpdate"))
           u == [o EXCEPT !.deleted = FALSE]
<1>1. /\ Running(i, {"delete"}) /\ Result(Stash, i, ok)
      /\ UNCHANGED <<hostHas, up, known>>
      /\ instn' = [instn EXCEPT ![i] = IF ok THEN Settle(m) ELSE Settle(u)]
  BY DEF DeleteDone, svcVars, extVars, Flush
<1>2. /\ o \in Objects /\ Awaited(o) = {Stash} /\ Stash \in Targets \ Hosts
  BY <1>1, RunningAwaits, OtherHosts DEF StashFuncs
<1>3. n \in Objects /\ n.where = "dead"
  BY <1>2, EmptySeq DEF Objects, Zones
<1>4. u \in Objects /\ Alike(o, u) /\ u.tasks = o.tasks /\ u.cur = o.cur /\ u.wait = o.wait
  BY <1>2 DEF Objects, Alike
<1>5. /\ Task("aggrDisable") \in Tasks /\ Task("instrsUpdate") \in Tasks
  BY TaskFacts
<1> HIDE DEF n, u, o
<1>6. e \in Objects /\ e.where = "dead"
  BY <1>3, <1>5, EnqueueAlike DEF Alike
<1> HIDE DEF e
<1>7. m \in Objects /\ m.where = "dead"
  BY <1>5, <1>6, EnqueueAlike DEF Alike
<1> HIDE DEF m
<1>8. Plain(o, Settle(m)) /\ Settle(m).wait = {}
  BY <1>7, SettleAlike DEF Plain, Does
<1>9. Plain(o, Settle(u)) /\ Settle(u).wait = {}
  BY <1>4, PlainAlike, PlainSettle, PlainThen
<1> QED BY <1>1, <1>2, <1>8, <1>9, EndCalm DEF o

LEMMA AggrDoneAgents ==
    ASSUME IInv, LInv, LinesInv, NEW i \in Instns, NEW ok \in BOOLEAN, AggrDone(i, ok)
    PROVE  LinesInv' /\ Calm
<1> DEFINE o == instn[i]
           e == Enqueue(o, Task("aggrDisable"))
<1>1. /\ Running(i, AggrFuncs) /\ Result(o.aggr, i, ok)
      /\ UNCHANGED <<hostHas, up, known>>
      /\ instn' = [instn EXCEPT ![i] = Settle(Retried(o, ok))]
  BY DEF AggrDone, svcVars, extVars, AggrFuncs
<1>2. /\ o \in Objects /\ Awaited(o) = {o.aggr} /\ o.aggr \in Targets \ Hosts
  BY <1>1, RunningAwaits, OtherHosts
<1>3. Task("aggrDisable") \in Tasks /\ Task("aggrDisable").f = "aggrDisable"
  BY TaskFacts
<1> HIDE DEF o
<1>4. Plain(o, e) /\ e \in Objects
  BY <1>2, <1>3, PlainEnqueue
<1> HIDE DEF e
<1>5. \A x \in {o, e} : Plain(o, Settle(x)) /\ Settle(x).wait = {}
  BY <1>2, <1>4, PlainThen, PlainSettle, PlainSame
<1>6. Retried(o, ok) \in {o, e}
  BY DEF Retried, e
<1> QED BY <1>1, <1>2, <1>5, <1>6, EndCalm DEF o

-----------------------------------------------------------------------------
(* Requests, the life of the service, and notifications.                   *)

\* Nothing is sent and nothing is read.
LEMMA QuietChannels ==
    ASSUME UNCHANGED <<net, inq>>
    PROVE  SameChannels
BY DEF SameChannels

\* A message that is no answer is read, or arrives.
LEMMA ReadChannels ==
    ASSUME IInv, NEW t \in Targets, inq[t] # <<>>, Head(inq[t]) \in {Online, LateAck},
           inq' = [inq EXCEPT ![t] = Tail(@)], UNCHANGED net
    PROVE  SameChannels /\ \A u \in Targets : u # t => inq'[u] = inq[u]
<1>1. /\ inq \in [Targets -> Seq(Replies)] /\ inq[t] \in Seq(Replies)
      /\ inq'[t] = Tail(inq[t])
      /\ \A u \in Targets : u # t => inq'[u] = inq[u]
  BY ChannelTypes
<1>2. ASSUME NEW i \in Instns, Once(inq[t], i)
      PROVE  Once(inq'[t], i) /\ (HasAck(inq'[t], i) <=> HasAck(inq[t], i))
  <2>1. Head(inq[t]) # Ack(i)
    BY AckNames
  <2> QED BY <1>1, <1>2, <2>1, AckTail
<1>3. SameChannels
  <2> SUFFICES ASSUME NEW i \in Instns, NEW u \in Targets, Once(inq[u], i)
               PROVE  Once(inq'[u], i) /\ (HasAck(inq'[u], i) <=> HasAck(inq[u], i))
    BY DEF SameChannels
  <2> QED BY <1>1, <1>2
<1> QED BY <1>1, <1>3

LEMMA ArriveChannels ==
    ASSUME IInv, NEW t \in Targets, inq' \in {inq, [inq EXCEPT ![t] = Append(@, Online)]},
           UNCHANGED net
    PROVE  SameChannels /\ \A u \in Targets : u # t => inq'[u] = inq[u]
<1>1. /\ inq \in [Targets -> Seq(Replies)] /\ inq[t] \in Seq(Replies)
      /\ inq'[t] = inq[t] \/ inq'[t] = Append(inq[t], Online)
      /\ \A u \in Targets : u # t => inq'[u] = inq[u]
  BY ChannelTypes
<1>2. Online \in Replies
  BY DEF Online, Replies
<1>3. ASSUME NEW i \in Instns, Once(inq[t], i)
      PROVE  Once(inq'[t], i) /\ (HasAck(inq'[t], i) <=> HasAck(inq[t], i))
  <2> DEFINE m == Online
  <2>1. m # Ack(i) /\ m \in Replies
    BY <1>2, AckNames
  <2>2. inq'[t] = inq[t] \/ inq'[t] = Append(inq[t], m)
    BY <1>1
  <2> HIDE DEF m
  <2>3. Once(Append(inq[t], m), i) /\ (HasAck(Append(inq[t], m), i) <=> HasAck(inq[t], i))
    BY <1>1, <1>3, <2>1, AckAppend
  <2> QED BY <1>3, <2>2, <2>3
<1>4. SameChannels
  <2> SUFFICES ASSUME NEW i \in Instns, NEW u \in Targets, Once(inq[u], i)
               PROVE  Once(inq'[u], i) /\ (HasAck(inq'[u], i) <=> HasAck(inq[u], i))
    BY DEF SameChannels
  <2> QED BY <1>1, <1>3
<1> QED BY <1>1, <1>4

LEMMA StillLines ==
    ASSUME IInv, LinesInv, SameChannels, UNCHANGED instn
    PROVE  LinesInv'
<1>1. \A i \in Instns : instn'[i].wait \subseteq Awaited(instn'[i])
  BY DEF LinesInv, Lines
<1> QED BY <1>1, SameLines

\* A target goes away with its queue.
LEMMA DownLines ==
    ASSUME IInv, LinesInv, NEW t \in Targets, UNCHANGED <<inq, instn>>,
           net' = [net EXCEPT ![t] = [i \in Instns |-> <<>>]]
    PROVE  /\ LinesInv' /\ \A i \in Instns : net'[t][i] = <<>>
           /\ \A u \in Targets : u # t => net'[u] = net[u]
<1>1. /\ \A i \in Instns : net'[t][i] = <<>>
      /\ \A u \in Targets : u # t => net'[u] = net[u]
  BY ChannelTypes
<1>2. LastLive(<<>>) /\ ~Pend(<<>>)
  BY DEF LastLive, Pend
<1>3. ASSUME NEW i \in Instns, NEW u \in Targets
      PROVE  /\ Line(i, net'[u][i], inq'[u])
             /\ Open(i, net'[u][i], inq'[u]) => u \in instn[i].wait
  <2>1. Line(i, net[u][i], inq[u]) /\ (Open(i, net[u][i], inq[u]) => u \in instn[i].wait)
    BY DEF LinesInv, Lines
  <2>2. CASE u = t
    BY <1>1, <1>2, <2>1, <2>2 DEF Line, Open
  <2>3. CASE u # t
    BY <1>1, <2>1, <2>3
  <2> QED BY <2>2, <2>3
<1>4. \A i \in Instns : instn[i].wait \subseteq Awaited(instn[i])
  BY DEF LinesInv, Lines
<1> QED BY <1>1, <1>3, <1>4 DEF LinesInv, Lines

\* A target carries out the first command of i.
LEMMA CarryLines ==
    ASSUME IInv, LinesInv, NEW t \in Targets, NEW i \in Instns, Carry(t, i), UNCHANGED instn
    PROVE  /\ LinesInv'
           /\ net'[t][i] = Tail(net[t][i]) /\ ~HasAck(inq[t], i)
           /\ \A j \in Instns : j # i => net'[t][j] = net[t][j]
           /\ \A u \in Targets : u # t => net'[u] = net[u] /\ inq'[u] = inq[u]
           /\ inq'[t] = (IF Head(net[t][i]).live THEN Append(inq[t], Ack(i)) ELSE inq[t])
           /\ HasAck(inq'[t], i) => Head(net[t][i]).live
           /\ Head(net[t][i]) \in Messages(t)
<1> DEFINE q == net[t][i] r == inq[t] m == Head(q) p == net'[t][i] s == inq'[t]
<1>1. /\ q \in Seq(Messages(t)) /\ r \in Seq(Replies)
      /\ net[t] \in [Instns -> Seq(Messages(t))] /\ net = [u \in Targets |-> net[u]]
      /\ inq \in [Targets -> Seq(Replies)]
  BY ChannelTypes
<1>2. /\ q # <<>> /\ net' = [net EXCEPT ![t][i] = Tail(q)]
      /\ inq' = (IF m.live THEN [inq EXCEPT ![t] = Append(r, Ack(i))] ELSE inq)
  BY DEF Carry
<1>3. /\ p = Tail(q) /\ \A j \in Instns : j # i => net'[t][j] = net[t][j]
      /\ m.live => s = Append(r, Ack(i))
      /\ ~m.live => s = r
      /\ \A u \in Targets : u # t => net'[u] = net[u] /\ inq'[u] = inq[u]
  BY <1>1, <1>2
<1>4. Line(i, q, r) /\ (Open(i, q, r) => t \in instn[i].wait)
  BY DEF LinesInv, Lines
<1>5. LastLive(p) /\ (m.live => p = <<>>) /\ (Pend(p) \/ m.live => Pend(q))
  BY <1>1, <1>2, <1>3, <1>4, QueueTail DEF Line
<1>6. ~HasAck(r, i) /\ Once(r, i)
  BY <1>2, <1>4 DEF Line
<1>7. ASSUME NEW j \in Instns, Once(r, j)
      PROVE  Once(s, j) /\ (j # i => (HasAck(s, j) <=> HasAck(r, j)))
  <2>1. CASE ~m.live
    BY <1>3, <1>7, <2>1
  <2>2. CASE m.live
    <3>1. s = Append(r, Ack(i))
      BY <1>3, <2>2
    <3> HIDE DEF r, s
    <3>2. /\ Once(Append(r, Ack(i)), j)
          /\ j # i => (HasAck(Append(r, Ack(i)), j) <=> HasAck(r, j))
      BY <1>1, <1>6, <1>7, AckArrives
    <3> QED BY <3>1, <3>2
  <2> QED BY <2>1, <2>2
<1>8. HasAck(s, i) => m.live
  BY <1>3, <1>6
<1>9. m \in Messages(t)
  BY <1>1, <1>2, HeadTailProperties
<1>10. LinesInv'
  <2>1. instn' = [instn EXCEPT ![i] = instn[i]]
    BY ChannelTypes
  <2>2. Others(i)
    BY <1>3, <1>7 DEF Others
  <2>3. instn[i].wait \subseteq Awaited(instn[i])
    BY DEF LinesInv, Lines
  <2>4. ASSUME NEW u \in Targets
        PROVE  /\ Line(i, net'[u][i], inq'[u])
               /\ Open(i, net'[u][i], inq'[u]) => u \in instn[i].wait
    <3>1. CASE u = t
      <4>1. Line(i, p, s) /\ (Open(i, p, s) => t \in instn[i].wait)
        <5> HIDE DEF q, r, m, p, s
        <5> QED BY <1>4, <1>5, <1>6, <1>7, <1>8 DEF Line, Open
      <4> QED BY <3>1, <4>1
    <3>2. CASE u # t
      BY <1>3, <3>2 DEF LinesInv, Lines
    <3> QED BY <3>1, <3>2
  <2> QED BY <2>1, <2>2, <2>3, <2>4, OneLines
<1> QED BY <1>3, <1>6, <1>8, <1>9, <1>10

\* Requests on an instrumentation, and the reaper.
LEMMA HttpAgents ==
    ASSUME IInv, LinesInv, NEW i \in Instns, Http(i)
    PROVE  LinesInv' /\ Calm
<1>1. PICK t \in Tasks : t.f \in {"setprops", "delete"} /\ HttpTask(i, t)
  <2>1. /\ Task("delete") \in Tasks /\ Task("delete").f = "delete"
        /\ Request("delete", None) \in Tasks /\ Request("delete", None).f = "delete"
        /\ \A v \in PropVals : Request("setprops", v) \in Tasks
                               /\ Request("setprops", v).f = "setprops"
    BY TaskType DEF Funcs, StashFuncs
  <2> QED BY <2>1 DEF Http, HttpDelete, Reap, HttpSetProps
<1>2. /\ instn' = [instn EXCEPT ![i] = Enqueue(instn[i], t)]
      /\ UNCHANGED <<svcVars, extVars, msgVars>>
  BY <1>1 DEF HttpTask
<1>3. /\ Plain(instn[i], Enqueue(instn[i], t)) /\ Alike(instn[i], Enqueue(instn[i], t))
      /\ Enqueue(instn[i], t).wait = instn[i].wait /\ Enqueue(instn[i], t).cur = instn[i].cur
  BY <1>1, PlainEnqueue, ChannelTypes
<1>4. Calm
  BY <1>2, <1>3, OneCalm DEF svcVars, extVars, msgVars
<1>5. LinesInv'
  <2>1. Others(i)
    BY <1>2 DEF Others, msgVars
  <2>2. Awaited(Enqueue(instn[i], t)) = Awaited(instn[i])
    BY <1>3 DEF Awaited, Alike
  <2> QED BY <1>2, <1>3, <2>1, <2>2, OneLines DEF LinesInv, Lines, msgVars
<1> QED BY <1>4, <1>5

LEMMA NewAgents ==
    ASSUME IInv, LInv, LinesInv, NEW s \in Scopes, NEW v \in PropVals, HttpCreate(s, v)
    PROVE  LinesInv' /\ Calm
<1> DEFINE i == <<s, nextid[s]>>
           b(a) == [Blank EXCEPT !.where = "creating", !.aggr = a, !.conf.val = v]
           n(a) == Enqueue(b(a), Request("create", None))
<1>1. /\ i \in Instns /\ instn[i].cur = None /\ UNCHANGED <<net, inq>>
      /\ UNCHANGED <<hostHas, up, known>>
  BY HttpCreateObject DEF HttpCreate, extVars
<1>2. UNCHANGED instn \/ \E a \in Aggrs : instn' = [instn EXCEPT ![i] = n(a)]
  BY DEF HttpCreate
<1>3. CASE UNCHANGED instn
  BY <1>1, <1>3, QuietChannels, StillLines, PlainSame DEF Calm
<1>4. ASSUME NEW a \in Aggrs, instn' = [instn EXCEPT ![i] = n(a)] PROVE LinesInv' /\ Calm
  <2>1. /\ b(a) \in Objects /\ b(a).wait = {} /\ b(a).cur = None /\ b(a).where = "creating"
        /\ b(a).state = [h \in Hosts |-> "absent"]
    <3>1. Blank \in Objects
      BY BlankObject, <1>1 DEF ObjectInv
    <3>2. [Blank.conf EXCEPT !.val = v] \in Confs
      BY <3>1 DEF Objects, Confs
    <3>3. b(a) = [Blank EXCEPT !.where = "creating", !.aggr = a,
                               !.conf = [Blank.conf EXCEPT !.val = v]]
      OBVIOUS
    <3>4. b(a) \in Objects
      BY <3>1, <3>2, <3>3 DEF Objects
    <3> QED BY <3>4 DEF Blank
  <2>2. Request("create", None) \in Tasks
    BY TaskType DEF Funcs, StashFuncs
  <2> DEFINE m == n(a)
  <2>3. Alike(b(a), m) /\ m.cur = None /\ m.wait = {}
    BY <2>1, <2>2, EnqueueAlike
  <2>4. instn' = [instn EXCEPT ![i] = m]
    BY <1>4
  <2> HIDE DEF b, m, i, n
  <2>5. Plain(instn[i], m)
    BY <2>1, <2>3 DEF Plain, Alike, On, Does
  <2>6. LinesInv'
    <3>1. Others(i)
      BY <1>1 DEF Others
    <3>2. \A t \in Targets : Line(i, net[t][i], inq[t]) /\ ~Open(i, net[t][i], inq[t])
      BY <1>1 DEF LinesInv, Lines, Awaited
    <3> QED BY <1>1, <2>3, <2>4, <3>1, <3>2, OneLines
  <2> QED BY <1>1, <2>4, <2>5, <2>6, OneCalm
<1> QED BY <1>2, <1>3, <1>4

LEMMA AggOnlineAgents ==
    ASSUME IInv, LinesInv, NEW a \in Aggrs, AggOnline(a)
    PROVE  LinesInv' /\ Calm
<1> DEFINE n(i) == IF ToPoke(i, a) THEN Enqueue(instn[i], Task("aggrUpdate")) ELSE instn[i]
<1>1. /\ inq[a] # <<>> /\ Head(inq[a]) = Online /\ inq' = [inq EXCEPT ![a] = Tail(@)]
      /\ UNCHANGED <<net, hostHas, up>> /\ known' = known \cup {a}
      /\ instn' = [i \in Instns |-> n(i)]
  BY DEF AggOnline, Heard, extVars
<1>2. SameChannels /\ \A u \in Targets : u # a => inq'[u] = inq[u]
  BY <1>1, ReadChannels, OtherHosts
<1>3. Task("aggrUpdate") \in Tasks /\ Task("aggrUpdate").f = "aggrUpdate"
  BY TaskFacts
<1>4. ASSUME NEW i \in Instns
      PROVE  /\ Plain(instn[i], n(i)) /\ n(i).wait = instn[i].wait
             /\ n(i).wait \subseteq Awaited(n(i))
  <2>1. instn[i] \in Objects /\ instn[i].wait \subseteq Awaited(instn[i])
    BY ChannelTypes DEF LinesInv, Lines
  <2>2. CASE ToPoke(i, a)
    <3> DEFINE e == Enqueue(instn[i], Task("aggrUpdate"))
    <3>1. /\ Plain(instn[i], e) /\ Alike(instn[i], e)
          /\ e.wait = instn[i].wait /\ e.cur = instn[i].cur
      BY <1>3, <2>1, PlainEnqueue
    <3> HIDE DEF e
    <3>2. Awaited(e) = Awaited(instn[i])
      BY <3>1 DEF Awaited, Alike
    <3> QED BY <2>1, <2>2, <3>1, <3>2 DEF e
  <2>3. CASE ~ToPoke(i, a)
    BY <2>1, <2>3, PlainSame
  <2> QED BY <2>2, <2>3
<1> HIDE DEF n
<1>5. \A i \in Instns : instn'[i] = n(i)
  BY <1>1
<1>6. LinesInv'
  BY <1>2, <1>4, <1>5, SameLines
<1>7. Calm
  BY <1>1, <1>2, <1>4, <1>5, OtherHosts DEF Calm
<1> QED BY <1>6, <1>7

\* stop() drops the queued tasks.
LEMMA StopAgents ==
    ASSUME IInv, LinesInv, Stop
    PROVE  LinesInv' /\ Calm
<1> DEFINE reached(o) == o.where \in {"live", "dead"}
           n(i) == IF reached(instn[i]) THEN Flush(instn[i]) ELSE instn[i]
<1>1. /\ UNCHANGED <<net, inq, hostHas, up, known>> /\ instn' = [i \in Instns |-> n(i)]
  BY DEF Stop, extVars, msgVars
<1>2. ASSUME NEW i \in Instns
      PROVE  /\ Plain(instn[i], n(i)) /\ n(i).wait = instn[i].wait
             /\ n(i).wait \subseteq Awaited(n(i))
  <2> DEFINE o == instn[i] f == [o EXCEPT !.tasks = <<>>]
  <2>1. o \in Objects /\ o.wait \subseteq Awaited(o)
    BY ChannelTypes DEF LinesInv, Lines
  <2>2. Alike(o, f) /\ f.cur = o.cur /\ f.wait = o.wait /\ f.tasks = <<>>
    BY <2>1 DEF Objects, Alike
  <2> HIDE DEF o, f
  <2>3. Awaited(f) = Awaited(o) /\ Plain(o, f)
    BY <2>2 DEF Awaited, Alike, Plain, Does, Zoned, Has, Single
  <2>4. n(i) \in {o, f}
    BY DEF o, f, Flush
  <2> HIDE DEF n
  <2> QED BY <2>1, <2>2, <2>3, <2>4, PlainSame DEF o
<1> HIDE DEF n
<1>3. \A i \in Instns : instn'[i] = n(i)
  BY <1>1
<1> QED BY <1>1, <1>2, <1>3, QuietChannels, SameLines DEF Calm

\* Loading: nothing is enabled yet, and the zones are asked for once.
LEMMA LoadedFresh ==
    ASSUME IInv, NEW i \in Instns, disk[i] # None
    PROVE  Fresh(Loaded(i))
<1> DEFINE b == disk[i]
           n == Loaded(i)
           zones == IF Scope(i) # Global /\ b.zones = None THEN {} ELSE b.zones
           cached == Scope(i) = Global \/ b.zones # None
           mid == IF cached THEN <<Task("instrsUpdate")>> ELSE <<>>
           tasks == <<Task("aggrUpdate")>> \o mid \o <<Task("zonesUpdate")>>
<1>1. n = [Blank EXCEPT !.where = "live", !.conf = b.conf, !.aggr = b.aggr, !.zones = zones,
                        !.tasks = tasks]
  BY DEF Loaded
<1>2. \A k \in DOMAIN tasks : tasks[k].f = "zonesUpdate" => k = Len(tasks)
  <2> DEFINE front == <<Task("aggrUpdate")>> \o mid
             last == <<Task("zonesUpdate")>>
             Rest == {t \in Tasks : t.f # "zonesUpdate"}
  <2>1. /\ Task("aggrUpdate") \in Rest /\ Task("instrsUpdate") \in Rest
        /\ Task("zonesUpdate") \in Tasks
    BY TaskFacts
  <2>2. front \in Seq(Rest)
    <3> HIDE DEF Rest
    <3>1. <<Task("aggrUpdate")>> \in Seq(Rest) /\ mid \in Seq(Rest)
      BY <2>1, EmptySeq
    <3> QED BY <3>1, ConcatProperties
  <2>3. last \in Seq(Tasks) /\ Len(last) = 1 /\ tasks = front \o last
    BY <2>1
  <2>4. front \in Seq(Tasks) /\ Len(front) \in Nat /\ \A k \in 1..Len(front) : front[k] \in Rest
    <3>1. \A k \in 1..Len(front) : front[k] \in Tasks
      BY <2>2
    <3> HIDE DEF front
    <3>2. front \in Seq(Rest) /\ Rest \subseteq Tasks
      BY <2>2
    <3> HIDE DEF Rest
    <3> QED BY <3>2
  <2> HIDE DEF front, last, tasks
  <2>5. /\ tasks \in Seq(Tasks) /\ Len(tasks) = Len(front) + 1
        /\ \A k \in 1..Len(front) : tasks[k] = front[k]
    <3>1. front \in Seq(Tasks) /\ last \in Seq(Tasks)
      BY <2>3, <2>4
    <3>2. front \o last \in Seq(Tasks) /\ Len(front \o last) = Len(front) + Len(last)
      BY <3>1, ConcatProperties
    <3>3. \A k \in 1..Len(front) : (front \o last)[k] = front[k]
      <4>1. \A k \in 1..(Len(front) + Len(last)) :
                (front \o last)[k] = IF k <= Len(front) THEN front[k] ELSE last[k - Len(front)]
        BY <3>1, ConcatProperties
      <4>2. Len(front) \in Nat /\ Len(last) = 1
        BY <2>3, <2>4
      <4> QED BY <4>1, <4>2
    <3> QED BY <2>3, <3>2, <3>3
  <2>6. DOMAIN tasks = 1..Len(tasks)
    BY <2>5, LenProperties
  <2> SUFFICES ASSUME NEW k \in DOMAIN tasks, tasks[k].f = "zonesUpdate" PROVE k = Len(tasks)
    OBVIOUS
  <2>7. k \in 1..(Len(front) + 1) /\ ~(k \in 1..Len(front))
    BY <2>4, <2>5, <2>6
  <2> QED BY <2>4, <2>5, <2>7
<1> HIDE DEF tasks, zones, n
<1>3. /\ n.where = "live" /\ n.cur = None /\ n.tasks = tasks /\ n.wait = {}
      /\ n.state = [h \in Hosts |-> "absent"]
  BY <1>1 DEF Blank
<1>4. Single(n, "zonesUpdate")
  BY <1>2, <1>3 DEF Single
<1>5. On(n) = {}
  BY <1>3 DEF On
<1> QED BY <1>3, <1>4, <1>5 DEF Fresh, n

LEMMA LoadAgents ==
    ASSUME IInv, LinesInv, Start \/ LoadList
    PROVE  LinesInv' /\ Calm
<1>1. UNCHANGED <<instn, net, inq, hostHas, up, known>>
  BY DEF Start, LoadList, msgVars, extVars
<1> QED BY <1>1, QuietChannels, StillLines, PlainSame DEF Calm

\* The channels when the configuration has been fetched: what is loaded waits
\* for nothing, and what it displaces is not answered any more.
LEMMA LoadFetchLine ==
    ASSUME IInv, LinesInv, LoadFetch, NEW i \in Instns, NEW t \in Targets
    PROVE  LET found == {j \in listed : disk[j] # None}
           IN /\ Line(i, net'[t][i], inq'[t])
              /\ Open(i, net'[t][i], inq'[t]) => i \notin found /\ t \in instn[i].wait
              /\ i \notin found => /\ net'[t][i] = net[t][i]
                                   /\ HasAck(inq'[t], i) <=> HasAck(inq[t], i)
              /\ Will(inq[t], i) => Will(inq'[t], i)
<1> DEFINE found == {j \in listed : disk[j] # None}
           taken == {j \in found : instn[j].where # "none"}
           q == net[t][i]
           r == inq[t]
<1>1. /\ net'[t][i] = IF i \in taken THEN Forget(q) ELSE q
      /\ inq'[t] = DisownAll(r, taken)
  BY DEF LoadFetch
<1>2. q \in Seq(Messages(t)) /\ taken \in SUBSET Instns
  BY ChannelTypes DEF IInv, TypeOK, ServiceType
<1>3. Line(i, q, r) /\ (Open(i, q, r) => t \in instn[i].wait)
  BY DEF LinesInv, Lines
<1>4. instn[i].where = "none" => instn[i].wait = {}
  BY DEF IInv, ObjectsInv, ObjectInv, Placed, LinesInv, Lines, Awaited
<1>5. i \in found /\ i \notin taken => instn[i].where = "none"
  OBVIOUS
<1>6. taken \subseteq found
  OBVIOUS
<1>7. Will(r, i) => Will(DisownAll(r, taken), i)
  <2>1. /\ DOMAIN DisownAll(r, taken) = DOMAIN r
        /\ \A k \in DOMAIN r : DisownAll(r, taken)[k] =
                 IF r[k] \in {Ack(j) : j \in taken} THEN LateAck ELSE r[k]
    BY DEF DisownAll
  <2>2. Online \notin {Ack(j) : j \in taken} /\ Ack(i) # LateAck
    BY <1>2, AckNames
  <2> HIDE DEF taken, r
  <2> QED BY <2>1, <2>2 DEF Will
<1> HIDE DEF found, taken, q, r
<1>8. /\ Once(DisownAll(r, taken), i)
      /\ i \notin taken => (HasAck(DisownAll(r, taken), i) <=> HasAck(r, i))
      /\ i \in taken => ~HasAck(DisownAll(r, taken), i)
  BY <1>2, <1>3, AckDisownAll DEF Line
<1>9. CASE i \in taken
  <2>1. ~Pend(Forget(q)) /\ LastLive(Forget(q))
    BY <1>2, QueueForget
  <2>2. Line(i, Forget(q), inq'[t]) /\ ~Open(i, Forget(q), inq'[t])
    BY <1>1, <1>8, <1>9, <2>1 DEF Line, Open
  <2> QED BY <1>1, <1>6, <1>7, <1>9, <2>2 DEF found, r
<1>10. CASE i \notin taken
  <2>1. net'[t][i] = q /\ (HasAck(inq'[t], i) <=> HasAck(r, i))
    BY <1>1, <1>8, <1>10
  <2>2. Line(i, q, inq'[t]) /\ (Open(i, q, inq'[t]) => t \in instn[i].wait)
    BY <1>1, <1>3, <1>8, <2>1 DEF Line, Open
  <2>3. i \in found => ~Open(i, q, inq'[t])
    BY <1>4, <1>5, <1>10, <2>2
  <2> QED BY <1>1, <1>7, <2>1, <2>2, <2>3 DEF found, q, r
<1> QED BY <1>9, <1>10

LEMMA LoadFetchAgents ==
    ASSUME IInv, LinesInv, EntriesInv, BeliefInv, LoadFetch
    PROVE  LinesInv' /\ EntriesInv' /\ BeliefInv'
<1> DEFINE found == {i \in listed : disk[i] # None}
<1>1. /\ instn' = [i \in Instns |-> IF i \in found THEN Loaded(i) ELSE instn[i]]
      /\ UNCHANGED <<known, hostHas, up>>
  BY DEF LoadFetch, extVars
<1>2. ASSUME NEW i \in Instns
      PROVE  IF i \in found THEN Fresh(instn'[i]) ELSE instn'[i] = instn[i]
  BY <1>1, LoadedFresh
<1>3. ASSUME NEW i \in Instns, NEW t \in Targets
      PROVE  /\ Line(i, net'[t][i], inq'[t])
             /\ Open(i, net'[t][i], inq'[t]) => i \notin found /\ t \in instn[i].wait
             /\ i \notin found => /\ net'[t][i] = net[t][i]
                                  /\ HasAck(inq'[t], i) <=> HasAck(inq[t], i)
             /\ Will(inq[t], i) => Will(inq'[t], i)
  BY LoadFetchLine
<1> HIDE DEF found
<1>4. LinesInv'
  <2> SUFFICES ASSUME NEW i \in Instns PROVE Lines(i, instn[i])'
    BY DEF LinesInv
  <2>1. instn'[i].wait \subseteq Awaited(instn'[i])
    <3>1. CASE i \in found
      BY <1>2, <3>1 DEF Fresh
    <3>2. CASE i \notin found
      BY <1>2, <3>2 DEF LinesInv, Lines
    <3> QED BY <3>1, <3>2
  <2>2. ASSUME NEW t \in Targets
        PROVE  /\ Line(i, net'[t][i], inq'[t])
               /\ Open(i, net'[t][i], inq'[t]) => t \in instn'[i].wait
    BY <1>2, <1>3
  <2> QED BY <2>1, <2>2 DEF Lines
<1>5. ASSUME NEW i \in Instns PROVE Entries(i, instn'[i], known')
  <2>1. CASE i \in found
    BY <1>2, <2>1 DEF Fresh, Entries, Does
  <2>2. CASE i \notin found
    BY <1>1, <1>2, <2>2 DEF EntriesInv
  <2> QED BY <2>1, <2>2
<1>6. ASSUME NEW i \in Instns, NEW h \in Hosts
      PROVE  Belief(i, h, instn'[i], net'[h][i], inq'[h], hostHas'[h], up')
  <2>1. h \in Targets
    BY OtherHosts
  <2>2. CASE i \in found
    <3>1. ~Open(i, net'[h][i], inq'[h]) /\ Fresh(instn'[i])
      BY <1>2, <1>3, <2>1, <2>2
    <3> QED BY <3>1 DEF Fresh, Belief, Open, Pend, LiveOps, On
  <2>3. CASE i \notin found
    <3>1. /\ instn'[i] = instn[i] /\ net'[h][i] = net[h][i]
          /\ HasAck(inq'[h], i) <=> HasAck(inq[h], i)
          /\ Will(inq[h], i) => Will(inq'[h], i)
      BY <1>2, <1>3, <2>1, <2>3
    <3>2. Belief(i, h, instn[i], net[h][i], inq[h], hostHas[h], up)
      BY DEF BeliefInv
    <3> QED BY <1>1, <3>1, <3>2 DEF Belief, There
  <2> QED BY <2>2, <2>3
<1> QED BY <1>4, <1>5, <1>6 DEF EntriesInv, BeliefInv

-----------------------------------------------------------------------------
(* The targets.                                                            *)

LEMMA OtherTargetAgents ==
    ASSUME IInv, LinesInv, NEW t \in Targets \ Hosts,
           \/ Announce(t) \/ TargetUp(t) \/ TargetDown(t) \/ DropLate(t)
           \/ \E i \in Instns : (t \in Aggrs /\ AggCarry(t, i))
                \/ (t = Stash /\ \E ok \in BOOLEAN : StashCarry(i, ok))
    PROVE  LinesInv' /\ Calm
<1>1. /\ UNCHANGED <<instn, hostHas, known>> /\ up' \cap Hosts = up \cap Hosts
  BY DEF Announce, TargetUp, TargetDown, DropLate, AggCarry, StashCarry, svcVars, extVars
<1>2. /\ LinesInv'
      /\ \A u \in Targets : u # t => net'[u] = net[u] /\ inq'[u] = inq[u]
  <2>1. CASE Announce(t) \/ TargetUp(t)
    BY <2>1, <1>1, ArriveChannels, StillLines DEF Announce, TargetUp
  <2>2. CASE DropLate(t)
    BY <2>2, <1>1, ReadChannels, StillLines DEF DropLate
  <2>3. CASE TargetDown(t)
    BY <2>3, <1>1, DownLines DEF TargetDown
  <2>4. ASSUME NEW i \in Instns,
               AggCarry(t, i) \/ (t = Stash /\ \E ok \in BOOLEAN : StashCarry(i, ok))
        PROVE  /\ LinesInv'
               /\ \A u \in Targets : u # t => net'[u] = net[u] /\ inq'[u] = inq[u]
    <3>1. Carry(t, i)
      BY <2>4 DEF AggCarry, StashCarry
    <3> QED BY <3>1, <1>1, CarryLines
  <2> QED BY <2>1, <2>2, <2>3, <2>4
<1>3. \A h \in Hosts : net'[h] = net[h] /\ inq'[h] = inq[h]
  BY <1>2, OtherHosts
<1> QED BY <1>1, <1>2, <1>3, PlainSame DEF Calm

\* The announcement that is to come, after a message is read, arrives or is
\* disowned.
LEMMA WillTail ==
    ASSUME NEW r \in Seq(Replies), r # <<>>, NEW i, Will(r, i),
           Head(r) # Online \/ HasAck(Tail(r), i)
    PROVE  Will(Tail(r), i)
<1>1. /\ Tail(r) \in Seq(Replies) /\ Len(r) \in Nat \ {0} /\ Len(Tail(r)) = Len(r) - 1
      /\ \A k \in 1..Len(Tail(r)) : Tail(r)[k] = r[k + 1]
      /\ Head(r) = r[1]
  BY HeadTailProperties, EmptySeq
<1>2. DOMAIN r = 1..Len(r) /\ DOMAIN Tail(r) = 1..(Len(r) - 1)
  BY <1>1, LenProperties
<1>3. \A k \in DOMAIN Tail(r) : k + 1 \in DOMAIN r /\ Tail(r)[k] = r[k + 1] /\ k >= 1 /\ k \in Int
  BY <1>1, <1>2
<1>4. \A k \in DOMAIN r : k = 1 \/ (k - 1 \in DOMAIN Tail(r) /\ Tail(r)[k - 1] = r[k])
  BY <1>1, <1>2
<1>5. PICK k \in DOMAIN r : r[k] = Online /\ \A j \in DOMAIN r : r[j] = Ack(i) => j < k
  BY DEF Will
<1>6. k # 1 /\ k \in Int
  <2>1. k \in Int
    BY <1>2, <1>1
  <2>2. CASE HasAck(Tail(r), i)
    <3>1. PICK j \in DOMAIN Tail(r) : Tail(r)[j] = Ack(i)
      BY <2>2 DEF HasAck
    <3>2. j + 1 < k /\ j >= 1 /\ j \in Int
      BY <1>3, <1>5, <3>1
    <3> QED BY <2>1, <3>2
  <2>3. CASE Head(r) # Online
    BY <1>1, <1>5, <2>1, <2>3
  <2> QED BY <2>2, <2>3
<1>7. k - 1 \in DOMAIN Tail(r) /\ Tail(r)[k - 1] = Online
  BY <1>4, <1>5, <1>6
<1>8. ASSUME NEW j \in DOMAIN Tail(r), Tail(r)[j] = Ack(i) PROVE j < k - 1
  <2>1. j + 1 < k /\ j \in Int
    BY <1>3, <1>5, <1>8
  <2> QED BY <1>6, <2>1
<1> QED BY <1>7, <1>8 DEF Will

LEMMA WillAppend ==
    ASSUME NEW r \in Seq(Replies), NEW m \in Replies, NEW i
    PROVE  /\ Will(r, i) /\ m # Ack(i) => Will(Append(r, m), i)
           /\ m = Online /\ m # Ack(i) => Will(Append(r, m), i)
<1>1. /\ Len(r) \in Nat /\ DOMAIN r = 1..Len(r)
      /\ DOMAIN Append(r, m) = 1..(Len(r) + 1)
      /\ \A k \in 1..Len(r) : Append(r, m)[k] = r[k]
      /\ Append(r, m)[Len(r) + 1] = m
  BY AppendProperties, LenProperties
<1> DEFINE p == Append(r, m) n == Len(r) + 1
<1>2. \A k \in DOMAIN p : (k \in DOMAIN r /\ p[k] = r[k] /\ k < n) \/ (k = n /\ p[k] = m)
  BY <1>1
<1>3. n \in DOMAIN p /\ \A k \in DOMAIN r : k \in DOMAIN p /\ p[k] = r[k]
  BY <1>1
<1> HIDE DEF p, n
<1>4. Will(r, i) /\ m # Ack(i) => Will(p, i)
  <2> SUFFICES ASSUME m # Ack(i), NEW k \in DOMAIN r, r[k] = Online,
                      \A j \in DOMAIN r : r[j] = Ack(i) => j < k
               PROVE  Will(p, i)
    BY DEF Will
  <2>1. k \in DOMAIN p /\ p[k] = Online
    BY <1>3
  <2>2. ASSUME NEW j \in DOMAIN p, p[j] = Ack(i) PROVE j < k
    BY <1>2, <2>2
  <2> QED BY <2>1, <2>2 DEF Will
<1>5. m = Online /\ m # Ack(i) => Will(p, i)
  BY <1>1, <1>2, <1>3 DEF Will, p, n
<1> QED BY <1>4, <1>5 DEF p

LEMMA WillDisown ==
    ASSUME NEW r, NEW i \in Instns, NEW j \in Instns, Will(r, i)
    PROVE  Will(Disown(r, j), i)
<1>1. /\ DOMAIN Disown(r, j) = DOMAIN r
      /\ \A k \in DOMAIN r : Disown(r, j)[k] = IF r[k] = Ack(j) THEN LateAck ELSE r[k]
  BY DEF Disown
<1> QED BY <1>1, AckNames DEF Will

\* A step of one instrumenter, seen from the instrumentations.
LEMMA HostAgents ==
    ASSUME IInv, EntriesInv, BeliefInv, NEW h \in Hosts, UNCHANGED <<instn, known>>,
           \A g \in Hosts : g # h => /\ net'[g] = net[g] /\ inq'[g] = inq[g]
                                     /\ hostHas'[g] = hostHas[g] /\ (g \in up' <=> g \in up),
           \A i \in Instns : Belief(i, h, instn[i], net'[h][i], inq'[h], hostHas'[h], up')
    PROVE  EntriesInv' /\ BeliefInv'
<1>1. EntriesInv'
  BY DEF EntriesInv
<1>2. ASSUME NEW i \in Instns, NEW g \in Hosts
      PROVE  Belief(i, g, instn'[i], net'[g][i], inq'[g], hostHas'[g], up')
  <2>1. CASE g = h
    BY <2>1
  <2>2. CASE g # h
    <3>1. Belief(i, g, instn[i], net[g][i], inq[g], hostHas[g], up)
      BY DEF BeliefInv
    <3>2. /\ net'[g] = net[g] /\ inq'[g] = inq[g] /\ hostHas'[g] = hostHas[g]
          /\ (g \in up' <=> g \in up)
      BY <2>2
    <3> QED BY <3>1, <3>2 DEF Belief, There
  <2> QED BY <2>1, <2>2
<1> QED BY <1>1, <1>2 DEF BeliefInv

LEMMA HostTargetAgents ==
    ASSUME IInv, LInv, LinesInv, EntriesInv, BeliefInv, NEW h \in Hosts,
           Announce(h) \/ TargetUp(h) \/ TargetDown(h) \/ DropLate(h)
    PROVE  LinesInv' /\ EntriesInv' /\ BeliefInv'
<1>1. h \in Targets /\ h # Stash /\ h \notin Aggrs
  BY OtherHosts
<1>2. /\ UNCHANGED <<instn, known>>
      /\ \A g \in Hosts : g # h => hostHas'[g] = hostHas[g] /\ (g \in up' <=> g \in up)
  BY ChannelTypes DEF Announce, TargetUp, TargetDown, DropLate, svcVars, extVars
<1>3. inq[h] \in Seq(Replies) /\ inq \in [Targets -> Seq(Replies)]
  BY <1>1, ChannelTypes
<1>4. \A i \in Instns : Belief(i, h, instn[i], net[h][i], inq[h], hostHas[h], up)
  BY DEF BeliefInv
<1>5. CASE Announce(h) \/ TargetUp(h)
  <2>1. /\ UNCHANGED <<net, hostHas>>
        /\ inq' \in {inq, [inq EXCEPT ![h] = Append(@, Online)]}
        /\ inq'[h] = Append(inq[h], Online) \/ svc = "down"
    BY <1>1, <1>3, <1>5 DEF Announce, TargetUp
  <2>2. SameChannels /\ \A u \in Targets : u # h => inq'[u] = inq[u]
    BY <1>1, <2>1, ArriveChannels
  <2>3. ASSUME NEW i \in Instns
        PROVE  Belief(i, h, instn[i], net'[h][i], inq'[h], hostHas'[h], up')
    <3>1. CASE svc = "down"
      BY <3>1, <1>2 DEF LInv, CountInv, Off, Belief
    <3>2. CASE inq'[h] = Append(inq[h], Online)
      <4> DEFINE m == Online
      <4>1. m \in Replies /\ m = Online /\ m # Ack(i)
        BY AckNames DEF Online, Replies
      <4>2. inq'[h] = Append(inq[h], m)
        BY <3>2
      <4> HIDE DEF m
      <4>3. Will(inq'[h], i)
        BY <1>3, <4>1, <4>2, WillAppend
      <4> QED BY <1>4, <2>1, <4>3 DEF Belief, There
    <3> QED BY <2>1, <3>1, <3>2
  <2> QED BY <1>2, <2>1, <2>2, <2>3, OtherHosts, StillLines, HostAgents
<1>6. CASE TargetDown(h)
  <2>1. /\ net' = [net EXCEPT ![h] = [i \in Instns |-> <<>>]] /\ UNCHANGED inq /\ h \notin up'
    BY <1>6 DEF TargetDown
  <2>2. /\ LinesInv' /\ \A i \in Instns : net'[h][i] = <<>>
        /\ \A u \in Targets : u # h => net'[u] = net[u]
    BY <1>1, <1>2, <2>1, DownLines
  <2>3. ASSUME NEW i \in Instns
        PROVE  Belief(i, h, instn[i], net'[h][i], inq'[h], hostHas'[h], up')
    BY <2>1, <2>2 DEF Belief, There, LiveOps
  <2> QED BY <1>2, <2>1, <2>2, <2>3, OtherHosts, HostAgents
<1>7. CASE DropLate(h)
  <2>1. /\ inq[h] # <<>> /\ Head(inq[h]) = LateAck /\ inq' = [inq EXCEPT ![h] = Tail(@)]
        /\ UNCHANGED <<net, hostHas, up>>
    BY <1>7 DEF DropLate, extVars
  <2>2. SameChannels /\ (\A u \in Targets : u # h => inq'[u] = inq[u]) /\ inq'[h] = Tail(inq[h])
    BY <1>1, <1>3, <2>1, ReadChannels
  <2>3. ASSUME NEW i \in Instns
        PROVE  Belief(i, h, instn[i], net'[h][i], inq'[h], hostHas'[h], up')
    <3>1. HasAck(inq'[h], i) <=> HasAck(inq[h], i)
      BY <1>1, <2>2 DEF SameChannels, LinesInv, Lines, Line
    <3>2. Will(inq[h], i) => Will(inq'[h], i)
      <4>1. Head(inq[h]) # Online
        BY <2>1 DEF LateAck, Online
      <4> QED BY <1>3, <2>1, <2>2, <4>1, WillTail
    <3> QED BY <1>4, <2>1, <3>1, <3>2 DEF Belief, There
  <2> QED BY <1>2, <2>1, <2>2, <2>3, OtherHosts, StillLines, HostAgents
<1> QED BY <1>5, <1>6, <1>7

LEMMA HostCarryAgents ==
    ASSUME IInv, LinesInv, EntriesInv, BeliefInv, NEW h \in Hosts, NEW i \in Instns,
           HostCarry(h, i)
    PROVE  LinesInv' /\ EntriesInv' /\ BeliefInv'
<1> DEFINE q == net[h][i] m == Head(q)
<1>1. /\ UNCHANGED <<instn, known, up>> /\ Carry(h, i) /\ q # <<>>
      /\ hostHas' = [hostHas EXCEPT ![h] = IF m.op = "enable" THEN @ \cup {i} ELSE @ \ {i}]
  BY DEF HostCarry, Carry, svcVars
<1>2. h \in Targets
  BY OtherHosts
<1>3. /\ LinesInv' /\ net'[h][i] = Tail(q) /\ ~HasAck(inq[h], i)
      /\ \A j \in Instns : j # i => net'[h][j] = net[h][j]
      /\ \A u \in Targets : u # h => net'[u] = net[u] /\ inq'[u] = inq[u]
      /\ inq'[h] = (IF m.live THEN Append(inq[h], Ack(i)) ELSE inq[h])
      /\ HasAck(inq'[h], i) => m.live
  BY <1>1, <1>2, CarryLines
<1>4. /\ \A j \in Instns : j # i => (j \in hostHas'[h] <=> j \in hostHas[h])
      /\ m.op = "enable" => i \in hostHas'[h]
      /\ \A g \in Hosts : g # h => hostHas'[g] = hostHas[g]
  BY <1>1, ChannelTypes
<1>5. \A j \in Instns : Belief(j, h, instn[j], net[h][j], inq[h], hostHas[h], up)
  BY DEF BeliefInv
<1>6. ASSUME NEW j \in Instns
      PROVE  Belief(j, h, instn[j], net'[h][j], inq'[h], hostHas'[h], up')
  <2>1. CASE j = i
    <3>1. /\ LastLive(q) /\ q \in Seq(Messages(h))
          /\ LiveOps(q, "enable") => LiveOps(Tail(q), "enable") /\ (m.live => m.op = "enable")
      <4>1. LastLive(q) /\ q \in Seq(Messages(h))
        BY <1>2, ChannelTypes DEF LinesInv, Lines, Line
      <4> QED BY <1>1, <4>1, QueueTail
    <3> HIDE DEF q, m
    <3>2. Belief(i, h, instn[i], q, inq[h], hostHas[h], up)
      BY <1>5 DEF q
    <3> QED BY <1>1, <1>3, <1>4, <2>1, <3>1, <3>2 DEF Belief, There
  <2>2. CASE j # i
    <3>1. HasAck(inq'[h], j) <=> HasAck(inq[h], j)
      <4>1. Once(inq[h], j) /\ Once(inq[h], i)
        BY <1>2 DEF LinesInv, Lines, Line
      <4> QED BY <1>2, <1>3, <2>2, <4>1, AckArrives, ChannelTypes
    <3>2. Will(inq[h], j) => Will(inq'[h], j)
      <4> DEFINE a == Ack(i)
      <4>1. a # Ack(j) /\ a \in Replies
        BY <2>2, AckNames DEF Ack, Replies
      <4>2. inq'[h] = (IF m.live THEN Append(inq[h], a) ELSE inq[h]) /\ inq[h] \in Seq(Replies)
        BY <1>2, <1>3, ChannelTypes
      <4> HIDE DEF a
      <4> QED BY <4>1, <4>2, WillAppend
    <3> QED BY <1>1, <1>3, <1>4, <1>5, <2>2, <3>1, <3>2 DEF Belief, There
  <2> QED BY <2>1, <2>2
<1>7. \A g \in Hosts : g # h => /\ net'[g] = net[g] /\ inq'[g] = inq[g]
                                /\ hostHas'[g] = hostHas[g] /\ (g \in up' <=> g \in up)
  BY <1>1, <1>3, <1>4, OtherHosts
<1> QED BY <1>1, <1>3, <1>6, <1>7, HostAgents

-----------------------------------------------------------------------------
(* The zones.                                                              *)

\* A step that changes one object and no channel.
LEMMA OneAgent ==
    ASSUME IInv, LinesInv, EntriesInv, BeliefInv, NEW i \in Instns, NEW n,
           instn' = [instn EXCEPT ![i] = n],
           UNCHANGED <<net, inq, hostHas, up, known>>,
           instn[i].wait = {}, n.wait = {}, Entries(i, n, known),
           n.where = "live" =>
               \A h \in Hosts : n.state[h] = "on" /\ Wanted(n, h) =>
                   instn[i].where = "live" /\ instn[i].state[h] = "on" /\ Wanted(instn[i], h)
    PROVE  LinesInv' /\ EntriesInv' /\ BeliefInv'
<1>1. \A t \in Targets : Line(i, net[t][i], inq[t]) /\ ~Open(i, net[t][i], inq[t])
  BY DEF LinesInv, Lines
<1>2. LinesInv'
  <2>1. Others(i)
    BY DEF Others
  <2> QED BY <1>1, <2>1, OneLines
<1>3. /\ instn'[i] = n
      /\ \A j \in Instns : j # i => instn'[j] = instn[j]
  BY ChannelTypes
<1>4. EntriesInv'
  <2> SUFFICES ASSUME NEW j \in Instns PROVE Entries(j, instn'[j], known)
    BY DEF EntriesInv
  <2> QED BY <1>3 DEF EntriesInv
<1>5. ASSUME NEW j \in Instns, NEW h \in Hosts
      PROVE  Belief(j, h, instn'[j], net[h][j], inq[h], hostHas[h], up)
  <2>1. Belief(j, h, instn[j], net[h][j], inq[h], hostHas[h], up)
    BY DEF BeliefInv
  <2>2. CASE j = i
    <3>1. LiveOps(net[h][i], "enable") /\ ~HasAck(inq[h], i)
      BY <1>1, OtherHosts DEF Open, Pend, LiveOps
    <3> QED BY <1>3, <2>1, <2>2, <3>1 DEF Belief
  <2>3. CASE j # i
    BY <1>3, <2>1, <2>3
  <2> QED BY <2>2, <2>3
<1>6. BeliefInv'
  BY <1>5 DEF BeliefInv
<1> QED BY <1>2, <1>4, <1>6

LEMMA StartZonesAgents ==
    ASSUME IInv, LinesInv, EntriesInv, BeliefInv, NEW i \in Instns,
           StartZonesGlobal(i) \/ StartZonesCust(i)
    PROVE  LinesInv' /\ EntriesInv' /\ BeliefInv'
<1> DEFINE b == instn[i]
           o == Shifted(i)
           z == [o EXCEPT !.zones = None]
           e == Enqueue(z, Task("instrsUpdate"))
<1>1. Ready(i, {"zonesUpdate"}) /\ UNCHANGED <<net, inq, hostHas, up, known>>
  BY DEF StartZonesGlobal, StartZonesCust, svcVars, extVars, msgVars
<1>2. /\ o \in Objects /\ Alike(b, o) /\ b.wait = {} /\ o.wait = {}
      /\ o.cur # None /\ o.cur.f = "zonesUpdate"
      /\ Zoned(o) => Zoned(b)
      /\ Zoned(b)
      /\ Single(b, "zonesUpdate") => Single(o, "zonesUpdate") /\ ~Zoned(o)
      /\ b.cur = None
  BY <1>1, ShiftedAlike
<1>3. Entries(i, b, known)
  BY DEF EntriesInv
<1>4. CASE StartZonesCust(i)
  <2>1. Scope(i) # Global /\ instn' = [instn EXCEPT ![i] = o]
    BY <1>4 DEF StartZonesCust
  <2> HIDE DEF o
  <2>2. Entries(i, o, known)
    <3> HIDE DEF b
    <3> QED BY <1>2, <1>3, <2>1 DEF Entries, Alike, Does, On, ZonesAsked, Zoned
  <2>3. \A h \in Hosts : Wanted(o, h) => Wanted(b, h)
    BY <1>2 DEF Alike, Wanted
  <2> QED BY <1>1, <1>2, <2>1, <2>2, <2>3, OneAgent DEF Alike
<1>5. CASE StartZonesGlobal(i)
  <2>1. Scope(i) = Global /\ instn' = [instn EXCEPT ![i] = Settle(e)]
    BY <1>5 DEF StartZonesGlobal
  <2>2. /\ z \in Objects /\ z.where = o.where /\ z.state = o.state /\ z.want = o.want
        /\ z.zones = None
    BY <1>2 DEF Objects, Zones
  <2>3. Task("instrsUpdate") \in Tasks
    BY TaskFacts
  <2> HIDE DEF o, z
  <2>4. e \in Objects /\ Alike(z, e)
    BY <2>2, <2>3, EnqueueAlike
  <2> DEFINE n == Settle(e)
  <2> HIDE DEF e
  <2>5. /\ n.cur = None /\ n.wait = {}
        /\ n.where \in {"live", "creating"} =>
               /\ n.where = b.where /\ n.state = b.state /\ n.want = b.want /\ n.zones = None
    BY <1>2, <2>2, <2>4, SettleAlike DEF Alike
  <2> HIDE DEF n
  <2>6. Entries(i, n, known)
    <3> HIDE DEF b
    <3> QED BY <1>3, <2>1, <2>5 DEF Entries, Does, On
  <2>7. n.where = "live" => \A h \in Hosts : b.state[h] = "on" => Wanted(b, h)
    <3> HIDE DEF b
    <3> QED BY <1>3, <2>1, <2>5 DEF Entries, On, Wanted
  <2> QED BY <1>1, <1>2, <2>1, <2>5, <2>6, <2>7, OneAgent DEF n
<1> QED BY <1>4, <1>5

\* VMAPI answers, or fails to.
LEMMA ZonesDoneAgents ==
    ASSUME IInv, LinesInv, EntriesInv, BeliefInv, NEW i \in Instns, NEW zs \in SUBSET Hosts,
           ZonesDone(i, zs)
    PROVE  LinesInv' /\ EntriesInv' /\ BeliefInv'
<1> DEFINE b == instn[i]
           z == [b EXCEPT !.zones = zs]
           e == Enqueue(z, Task("save"))
           f == Enqueue(e, Task("instrsUpdate"))
           n == Settle(f)
<1>1. /\ Running(i, {"zonesUpdate"}) /\ UNCHANGED <<net, inq, hostHas, up, known>>
      /\ instn' = [instn EXCEPT ![i] = n]
  BY DEF ZonesDone, svcVars, extVars, msgVars
<1>2. b \in Objects /\ b.cur # None /\ b.cur.f = "zonesUpdate" /\ b.wait = {}
  <2>1. b \in Objects /\ b.cur # None /\ b.cur.f \in {"zonesUpdate"} /\ Awaited(b) = {}
    BY <1>1, RunningAwaits
  <2> QED BY <2>1 DEF LinesInv, Lines
<1>3. /\ Task("save") \in Tasks /\ Task("save").f = "save"
      /\ Task("instrsUpdate") \in Tasks /\ Task("instrsUpdate").f = "instrsUpdate"
  BY TaskFacts
<1>4. Entries(i, b, known) /\ ScopeOK(i, b)
  BY DEF EntriesInv, IInv, ObjectsInv, ObjectInv
<1>5. /\ z \in Objects /\ z.where = b.where /\ z.state = b.state /\ z.want = b.want
      /\ z.tasks = b.tasks
  BY <1>2 DEF Objects, Zones
<1> HIDE DEF z
<1>6. e \in Objects /\ Alike(z, e)
      /\ (Zoned(e) => Zoned(z)) /\ (Single(z, "zonesUpdate") => Single(e, "zonesUpdate"))
  BY <1>3, <1>5, EnqueueAlike
<1> HIDE DEF e
<1>7. f \in Objects /\ Alike(e, f)
      /\ (Zoned(f) => Zoned(e)) /\ (Single(e, "zonesUpdate") => Single(f, "zonesUpdate"))
  BY <1>3, <1>6, EnqueueAlike
<1> HIDE DEF f
<1>8. /\ n.cur = None /\ n.wait = {}
      /\ n.where \in {"live", "creating"} =>
             /\ n.where = b.where /\ n.state = b.state /\ n.want = b.want
             /\ n.tasks = f.tasks
  BY <1>5, <1>6, <1>7, SettleAlike DEF Alike
<1> HIDE DEF n, b
<1>9. Zoned(z) <=> Zoned(b)
  BY <1>5 DEF Zoned, Has
<1>10. Single(z, "zonesUpdate") <=> Single(b, "zonesUpdate")
  BY <1>5 DEF Single
<1>11. n.where = "live" => /\ ~Zoned(b) /\ Single(b, "zonesUpdate") /\ Scope(i) # Global
                           /\ ZonesAsked(b)
  BY <1>2, <1>4, <1>8 DEF Entries, Does, Zoned, ZonesAsked
<1>12. n.where = "live" => ~Zoned(n) /\ Single(n, "zonesUpdate")
  BY <1>6, <1>7, <1>8, <1>9, <1>10, <1>11 DEF Zoned, Has, Single
<1>13. Entries(i, n, known)
  BY <1>4, <1>8, <1>11, <1>12 DEF Entries, Does, On, ZonesAsked, Zoned
<1>14. n.where = "live" => \A h \in Hosts : b.state[h] = "on" => Wanted(b, h)
  BY <1>4, <1>8, <1>11 DEF Entries, On, Wanted
<1> QED BY <1>1, <1>2, <1>8, <1>13, <1>14, OneAgent DEF b

LEMMA ZonesFailAgents ==
    ASSUME IInv, LinesInv, EntriesInv, BeliefInv, NEW i \in Instns, ZonesFail(i)
    PROVE  LinesInv' /\ EntriesInv' /\ BeliefInv'
<1> DEFINE b == instn[i]
           e == Enqueue(b, Task("zonesUpdate"))
           n == Settle(e)
<1>1. /\ Running(i, {"zonesUpdate"}) /\ UNCHANGED <<net, inq, hostHas, up, known>>
      /\ instn' = [instn EXCEPT ![i] = n]
  BY DEF ZonesFail, svcVars, extVars, msgVars
<1>2. b \in Objects /\ b.cur # None /\ b.cur.f = "zonesUpdate" /\ b.wait = {}
  <2>1. b \in Objects /\ b.cur # None /\ b.cur.f \in {"zonesUpdate"} /\ Awaited(b) = {}
    BY <1>1, RunningAwaits
  <2> QED BY <2>1 DEF LinesInv, Lines
<1>3. Task("zonesUpdate") \in Tasks /\ Task("zonesUpdate").f = "zonesUpdate"
  BY TaskFacts
<1>4. Entries(i, b, known)
  BY DEF EntriesInv
<1> HIDE DEF b
<1>5. e \in Objects /\ Alike(b, e)
      /\ (Single(b, "zonesUpdate") /\ ~Zoned(b) => Single(e, "zonesUpdate"))
  BY <1>2, <1>3, EnqueueAlike
<1> HIDE DEF e
<1>6. /\ n.cur = None /\ n.wait = {}
      /\ n.where \in {"live", "creating"} =>
             /\ n.where = b.where /\ n.state = b.state /\ n.want = b.want /\ n.zones = b.zones
             /\ n.tasks = e.tasks
  BY <1>5, SettleAlike DEF Alike
<1> HIDE DEF n
<1>7. n.where = "live" => /\ ~Zoned(b) /\ Single(b, "zonesUpdate") /\ Scope(i) # Global
                          /\ ZonesAsked(b)
  BY <1>2, <1>4, <1>6 DEF Entries, Does, Zoned, ZonesAsked
<1>8. n.where = "live" => Single(n, "zonesUpdate")
  BY <1>5, <1>6, <1>7 DEF Single
<1>9. Entries(i, n, known)
  BY <1>4, <1>6, <1>7, <1>8 DEF Entries, Does, On
<1>10. n.where = "live" => \A h \in Hosts : Wanted(n, h) => Wanted(b, h)
  BY <1>6 DEF Wanted
<1> QED BY <1>1, <1>2, <1>6, <1>9, <1>10, OneAgent DEF b

-----------------------------------------------------------------------------
(* The update of the instrumenters.                                        *)

\* A step that changes one object and its channels.
LEMMA OneEntry ==
    ASSUME IInv, LinesInv, EntriesInv, BeliefInv, NEW i \in Instns, NEW n,
           instn' = [instn EXCEPT ![i] = n], UNCHANGED <<hostHas, up, known>>,
           Others(i), Entries(i, n, known),
           \A j \in Instns, h \in Hosts : Will(inq[h], j) /\ j # i => Will(inq'[h], j),
           \A h \in Hosts : Belief(i, h, n, net'[h][i], inq'[h], hostHas[h], up)
    PROVE  EntriesInv' /\ BeliefInv'
<1>1. /\ instn'[i] = n
      /\ \A j \in Instns : j # i => instn'[j] = instn[j]
  BY ChannelTypes
<1>2. EntriesInv'
  <2> SUFFICES ASSUME NEW j \in Instns PROVE Entries(j, instn'[j], known)
    BY DEF EntriesInv
  <2> QED BY <1>1 DEF EntriesInv
<1>3. ASSUME NEW j \in Instns, NEW h \in Hosts
      PROVE  Belief(j, h, instn'[j], net'[h][j], inq'[h], hostHas[h], up)
  <2>1. CASE j = i
    BY <1>1, <2>1
  <2>2. CASE j # i
    <3>1. Belief(j, h, instn[j], net[h][j], inq[h], hostHas[h], up)
      BY DEF BeliefInv
    <3>2. net'[h][j] = net[h][j] /\ (HasAck(inq'[h], j) <=> HasAck(inq[h], j))
      <4>1. h \in Targets
        BY OtherHosts
      <4>2. Once(inq[h], j)
        BY <4>1 DEF LinesInv, Lines, Line
      <4> QED BY <2>2, <4>1, <4>2 DEF Others
    <3> QED BY <1>1, <2>2, <3>1, <3>2 DEF Belief, There
  <2> QED BY <2>1, <2>2
<1>4. BeliefInv'
  BY <1>3 DEF BeliefInv
<1> QED BY <1>2, <1>4

LEMMA StartInstrsAgents ==
    ASSUME IInv, LInv, LinesInv, EntriesInv, BeliefInv, NEW i \in Instns, StartInstrs(i)
    PROVE  LinesInv' /\ EntriesInv' /\ BeliefInv'
<1> DEFINE b == instn[i]
           o == Shifted(i)
           hosts == IF o.zones = None THEN known \cap Hosts ELSE o.zones
           state == [h \in Hosts |-> IF h \in hosts /\ o.state[h] = "absent"
                                     THEN "off" ELSE o.state[h]]
           stale == o.conf.nsrc # Cardinality(hosts) /\ ~o.deleted
           o1 == [o EXCEPT !.state = state, !.want = hosts]
           p == [o1 EXCEPT !.conf.nsrc = Cardinality(hosts)]
           o2 == IF stale THEN Enqueue(p, Task("aggrUpdate")) ELSE o1
           todo == {h \in known \cap supports : state[h] = IF h \in hosts THEN "off" ELSE "on"}
           cmd(h) == Command(IF h \in hosts THEN "enable" ELSE "disable", None)
           cmds == [h \in todo |-> cmd(h)]
           n == IF todo = {} THEN Settle(o2) ELSE [o2 EXCEPT !.wait = todo]
<1>1. /\ Ready(i, {"instrsUpdate"}) /\ UNCHANGED <<hostHas, up, known, inq>>
      /\ instn' = [instn EXCEPT ![i] = n] /\ Send(cmds, i)
  BY DEF StartInstrs, svcVars, extVars
<1>2. /\ b \in Objects /\ o \in Objects /\ Alike(b, o) /\ b.cur = None /\ b.wait = {}
      /\ o.cur # None /\ o.cur.f = "instrsUpdate"
      /\ Zoned(o) => Zoned(b)
      /\ Single(b, "zonesUpdate") => Single(o, "zonesUpdate")
  BY <1>1, ShiftedAlike
<1>3. b.where # "creating"
  BY <1>1, ReadyFree
<1>4. hosts \in SUBSET Hosts /\ (o.zones = None => hosts = known \cap Hosts)
      /\ (o.zones # None => hosts = o.zones)
  BY <1>2 DEF Objects, Zones
<1>5. /\ todo \subseteq Hosts /\ todo \subseteq known
      /\ \A h \in todo : h \in hosts => state[h] = "off"
      /\ DOMAIN cmds = todo
      /\ \A h \in todo : cmds[h] = cmd(h)
  BY DEF IInv, TypeOK, ServiceType
<1>6. ASSUME NEW h \in todo
      PROVE  cmds[h] \in Messages(h) /\ (h \in hosts => cmds[h].op = "enable")
  BY <1>5, OtherHosts DEF Command, Messages
<1>7. state \in [Hosts -> {"absent", "off", "on"}]
      /\ \A h \in Hosts : state[h] = "on" <=> b.state[h] = "on"
  BY <1>2 DEF Objects, Alike
<1> HIDE DEF state, hosts
<1>8. /\ o1 \in Objects
      /\ o1.where = o.where /\ o1.zones = o.zones /\ o1.state = state /\ o1.want = hosts
      /\ o1.cur = o.cur /\ o1.tasks = o.tasks
  <2> HIDE DEF o
  <2> QED BY <1>2, <1>4, <1>7 DEF Objects
<1> HIDE DEF o, o1
<1>9. /\ p \in Objects
      /\ p.where = o.where /\ p.zones = o.zones /\ p.state = state /\ p.want = hosts
      /\ p.cur = o.cur /\ p.tasks = o.tasks
  <2>1. Cardinality(hosts) \in 0..Cardinality(Hosts)
    BY <1>4, SourcesType
  <2>2. [o1.conf EXCEPT !.nsrc = Cardinality(hosts)] \in Confs
    BY <1>8, <2>1 DEF Objects, Confs
  <2>3. p = [o1 EXCEPT !.conf = [o1.conf EXCEPT !.nsrc = Cardinality(hosts)]]
    OBVIOUS
  <2> HIDE DEF p
  <2> QED BY <1>8, <2>2, <2>3 DEF Objects
<1> HIDE DEF p, stale
<1>10. /\ o2 \in Objects
       /\ o2.where = o.where /\ o2.zones = o.zones /\ o2.state = state /\ o2.want = hosts
       /\ o2.cur = o.cur
       /\ Zoned(o2) => Zoned(o)
       /\ Single(o, "zonesUpdate") => Single(o2, "zonesUpdate")
  <2>1. CASE ~stale
    BY <1>8, <2>1 DEF Zoned, Has, Single
  <2>2. CASE stale
    <3> DEFINE e == Enqueue(p, Task("aggrUpdate"))
    <3>1. Task("aggrUpdate") \in Tasks /\ Task("aggrUpdate").f = "aggrUpdate"
      BY TaskFacts
    <3>2. /\ e \in Objects /\ Alike(p, e) /\ e.cur = p.cur
          /\ Zoned(e) => Zoned(p)
          /\ Single(p, "zonesUpdate") => Single(e, "zonesUpdate")
      BY <1>9, <3>1, EnqueueAlike
    <3> HIDE DEF e
    <3>3. o2 = e
      BY <2>2 DEF e
    <3>4. (Zoned(p) => Zoned(o)) /\ (Single(o, "zonesUpdate") => Single(p, "zonesUpdate"))
      BY <1>9 DEF Zoned, Has, Single
    <3> QED BY <1>9, <3>2, <3>3, <3>4 DEF Alike
  <2> QED BY <2>1, <2>2
<1> HIDE DEF o2, cmds, todo
<1>11. /\ n.wait = todo /\ n.wait \subseteq Awaited(n)
       /\ n.where # "creating" /\ ~Does(n, "zonesUpdate")
       /\ n.where = "live" => /\ b.where = "live"
                              /\ n.zones = b.zones /\ n.state = state /\ n.want = hosts
                              /\ Zoned(n) => Zoned(o2)
                              /\ Single(o2, "zonesUpdate") => Single(n, "zonesUpdate")
  <2>1. CASE todo = {}
    <3> DEFINE m == Settle(o2)
    <3>1. /\ m.cur = None /\ m.wait = {}
          /\ o2.where = "dead" => m.where \in {"dead", "none"}
          /\ o2.where # "dead" => Alike(o2, m) /\ m.tasks = o2.tasks
      BY <1>10, SettleAlike
    <3>2. n = m
      BY <2>1
    <3> HIDE DEF m, n
    <3> QED BY <1>2, <1>3, <1>10, <2>1, <3>1, <3>2 DEF Alike, Does, Zoned, Has, Single
  <2>2. CASE todo # {}
    <3> DEFINE m == [o2 EXCEPT !.wait = todo]
    <3>1. Alike(o2, m) /\ m.tasks = o2.tasks /\ m.cur = o2.cur /\ m.wait = todo
      BY <1>10 DEF Objects, Alike
    <3>2. n = m
      BY <2>2
    <3> HIDE DEF m, n
    <3>3. Awaited(n) = Hosts
      BY <1>2, <1>10, <3>1, <3>2 DEF Awaited, StashFuncs, AggrFuncs
    <3> QED BY <1>2, <1>3, <1>5, <1>10, <3>1, <3>2, <3>3 DEF Alike, Does, Zoned, Has, Single
  <2> QED BY <2>1, <2>2
<1> HIDE DEF n
<1>12. /\ LinesInv' /\ Others(i)
       /\ \A t \in Targets \ todo : net'[t] = net[t]
       /\ \A t \in Targets \cap todo : LiveOps(net'[t][i], cmds[t].op)
  <2>1. \A t \in Targets \cap DOMAIN cmds : cmds[t] \in Messages(t)
    BY <1>5, <1>6
  <2>2. DOMAIN cmds \subseteq n.wait
    BY <1>5, <1>11
  <2> QED BY <1>1, <1>2, <1>5, <1>11, <2>1, <2>2, SendLines
<1>13. Entries(i, b, known)
  BY DEF EntriesInv
<1>14. Entries(i, n, known)
  <2>1. On(n) = On(b) \/ n.where # "live"
    BY <1>7, <1>11 DEF On
  <2> HIDE DEF b
  <2> QED BY <1>2, <1>4, <1>5, <1>10, <1>11, <1>13, <2>1
          DEF Entries, Alike, ZonesAsked, Does, Zoned
<1>15. ASSUME NEW h \in Hosts
       PROVE  Belief(i, h, n, net'[h][i], inq'[h], hostHas[h], up)
  <2>1. h \in Targets /\ ~Open(i, net[h][i], inq[h])
    BY <1>2, OtherHosts DEF LinesInv, Lines
  <2>2. LiveOps(net[h][i], "enable") /\ ~HasAck(inq'[h], i)
    BY <1>1, <2>1 DEF Open, Pend, LiveOps
  <2>3. h \in hosts => LiveOps(net'[h][i], "enable")
    BY <1>6, <1>12, <2>1, <2>2
  <2>4. ASSUME FALSE \notin Metadata, n.where = "live", n.state[h] = "on", Wanted(n, h)
        PROVE  net'[h][i] = <<>> /\ There(i, h, inq'[h], hostHas[h], up)
    <3>1. b.where = "live" /\ b.state[h] = "on" /\ state[h] = "on" /\ h \in On(b)
      BY <1>7, <1>11, <2>4 DEF On
    <3>2. On(b) \subseteq known
      BY <1>13, <3>1 DEF Entries
    <3>3. h \in hosts /\ Wanted(b, h)
      <4> HIDE DEF b
      <4> QED BY <1>2, <1>4, <1>11, <2>4, <3>1, <3>2 DEF Wanted, Alike
    <3>4. h \notin todo
      BY <1>5, <3>1, <3>3
    <3>5. Belief(i, h, b, net[h][i], inq[h], hostHas[h], up)
      BY DEF BeliefInv
    <3> HIDE DEF b
    <3> QED BY <1>1, <1>12, <2>1, <2>4, <3>1, <3>3, <3>4, <3>5 DEF Belief
  <2> QED BY <1>11, <2>2, <2>3, <2>4 DEF Belief
<1>16. EntriesInv' /\ BeliefInv'
  BY <1>1, <1>12, <1>14, <1>15, OneEntry
<1> QED BY <1>12, <1>16

LEMMA EmptyHasNone == \A i : ~HasAck(<<>>, i)
BY DEF HasAck

LEMMA InstrDoneAgents ==
    ASSUME IInv, LInv, LinesInv, EntriesInv, BeliefInv, NEW i \in Instns, NEW h \in Hosts,
           NEW ok \in BOOLEAN, InstrDone(i, h, ok)
    PROVE  LinesInv' /\ EntriesInv' /\ BeliefInv'
<1> DEFINE b == instn[i]
           o == [b EXCEPT !.wait = @ \ {h},
                          !.state[h] = IF ~ok THEN @ ELSE IF h \in b.want THEN "on" ELSE "absent"]
           n == IF o.wait = {} THEN Settle(o) ELSE o
<1>1. /\ Running(i, {"instrsUpdate"}) /\ h \in b.wait /\ Result(h, i, ok)
      /\ UNCHANGED <<hostHas, up, known>> /\ instn' = [instn EXCEPT ![i] = n]
  BY DEF InstrDone, svcVars, extVars
<1>2. /\ b \in Objects /\ b.cur # None /\ b.cur.f = "instrsUpdate" /\ b.where # "creating"
  BY <1>1, RunningFree
<1>3. b.wait \subseteq Hosts
  BY <1>1, RunningAwaits DEF LinesInv, Lines
<1>4. /\ o \in Objects /\ o.wait = b.wait \ {h} /\ o.where = b.where /\ o.zones = b.zones
      /\ o.want = b.want /\ o.cur = b.cur /\ o.tasks = b.tasks
      /\ \A g \in Hosts : g # h => o.state[g] = b.state[g]
      /\ o.state[h] = (IF ~ok THEN b.state[h] ELSE IF h \in b.want THEN "on" ELSE "absent")
  BY <1>2 DEF Objects
<1> HIDE DEF o
<1>5. /\ n.wait = b.wait \ {h} /\ n.wait \subseteq Awaited(n)
      /\ n.where # "creating" /\ ~Does(n, "zonesUpdate")
      /\ n.where = "live" => /\ b.where = "live"
                             /\ n.zones = b.zones /\ n.state = o.state /\ n.want = b.want
                             /\ n.tasks = b.tasks
  <2>1. CASE o.wait = {}
    <3> DEFINE m == Settle(o)
    <3>1. /\ m.cur = None /\ m.wait = {}
          /\ o.where = "dead" => m.where \in {"dead", "none"}
          /\ o.where # "dead" => Alike(o, m) /\ m.tasks = o.tasks
      BY <1>4, SettleAlike
    <3>2. n = m
      BY <2>1
    <3> HIDE DEF m, n, b
    <3> QED BY <1>2, <1>4, <2>1, <3>1, <3>2 DEF Alike, Does
  <2>2. CASE o.wait # {}
    <3>1. n = o
      BY <2>2
    <3> HIDE DEF n, b
    <3>2. Awaited(n) = Hosts
      BY <1>2, <1>4, <3>1 DEF Awaited, StashFuncs, AggrFuncs
    <3> QED BY <1>2, <1>3, <1>4, <3>1, <3>2 DEF Does
  <2> QED BY <2>1, <2>2
<1> HIDE DEF n
<1>6. /\ Line(i, net'[h][i], inq'[h]) /\ ~Open(i, net'[h][i], inq'[h])
      /\ Alone(i, h)
      /\ ok => HasAck(inq[h], i) /\ Head(inq[h]) = Ack(i) /\ inq'[h] = Tail(inq[h])
      /\ net[h][i] = <<>> => net'[h][i] = <<>>
      /\ ~ok => inq'[h] = Disown(inq[h], i)
      /\ \A u \in Targets : u # h => net'[u] = net[u] /\ inq'[u] = inq[u]
      /\ h \in Targets
  BY <1>1, OtherHosts, ResultLine
<1>7. Others(i)
  BY <1>6 DEF Alone, Others
<1>8. LinesInv'
  <2>1. ASSUME NEW t \in Targets
        PROVE  /\ Line(i, net'[t][i], inq'[t])
               /\ Open(i, net'[t][i], inq'[t]) => t \in n.wait
    BY <1>5, <1>6 DEF LinesInv, Lines
  <2> QED BY <1>1, <1>5, <1>7, <2>1, OneLines
<1>9. ASSUME NEW j \in Instns, Will(inq[h], j)
      PROVE  Will(inq'[h], j)
  <2>1. CASE ok
    <3>1. Head(inq[h]) # Online /\ inq[h] \in Seq(Replies) /\ inq[h] # <<>>
      BY <1>6, <2>1, AckNames, ChannelTypes, EmptyHasNone
    <3> QED BY <1>6, <1>9, <2>1, <3>1, WillTail
  <2>2. CASE ~ok
    BY <1>6, <1>9, <2>2, WillDisown
  <2> QED BY <2>1, <2>2
<1>10. \A j \in Instns, g \in Hosts : Will(inq[g], j) /\ j # i => Will(inq'[g], j)
  BY <1>6, <1>9, OtherHosts
<1>11. Entries(i, b, known)
  BY DEF EntriesInv
<1>12. Entries(i, n, known)
  <2>1. n.where = "live" => /\ On(n) \subseteq On(b) \cup {h}
                            /\ h \in On(n) => h \in On(b) \/ h \in b.want
    <3> HIDE DEF b
    <3> QED BY <1>4, <1>5 DEF On
  <2>2. h \in b.wait
    BY <1>1
  <2> HIDE DEF b
  <2> QED BY <1>2, <1>5, <1>11, <2>1, <2>2 DEF Entries, ZonesAsked, Does, Has, Single
<1>13. ASSUME NEW g \in Hosts
       PROVE  Belief(i, g, n, net'[g][i], inq'[g], hostHas[g], up)
  <2>1. Belief(i, g, b, net[g][i], inq[g], hostHas[g], up)
    BY DEF BeliefInv
  <2>2. CASE g # h
    <3>1. net'[g] = net[g] /\ inq'[g] = inq[g]
      BY <1>6, <2>2, OtherHosts
    <3> HIDE DEF b
    <3> QED BY <1>4, <1>5, <2>1, <2>2, <3>1 DEF Belief, Wanted
  <2>3. CASE g = h
    <3>1. LiveOps(net'[h][i], "enable") /\ ~HasAck(inq'[h], i)
      BY <1>6 DEF Open, Pend, LiveOps
    <3>2. HasAck(inq[h], i) => net[h][i] = <<>>
      BY <1>6 DEF LinesInv, Lines, Line
    <3>3. There(i, h, inq[h], hostHas[h], up) => There(i, h, inq'[h], hostHas[h], up)
      BY <1>9 DEF There
    <3> HIDE DEF b
    <3>4. ASSUME FALSE \notin Metadata, n.where = "live", n.state[h] = "on", Wanted(n, h)
          PROVE  net'[h][i] = <<>> /\ There(i, h, inq'[h], hostHas[h], up)
      <4>1. CASE ok
        BY <1>4, <1>5, <1>6, <2>1, <2>3, <3>2, <3>3, <3>4, <4>1 DEF Belief
      <4>2. CASE ~ok
        BY <1>4, <1>5, <1>6, <2>1, <2>3, <3>3, <3>4, <4>2 DEF Belief, Wanted
      <4> QED BY <4>1, <4>2
    <3> QED BY <2>3, <3>1, <3>4 DEF Belief
  <2> QED BY <2>2, <2>3
<1>14. EntriesInv' /\ BeliefInv'
  BY <1>1, <1>7, <1>10, <1>12, <1>13, OneEntry
<1> QED BY <1>8, <1>14

-----------------------------------------------------------------------------
(* An instrumenter announces itself, and the service dies.                 *)

\* What is left of the entry for h of an active object.
Reset(o, n, h) ==
    /\ n.where = o.where /\ n.cur = o.cur /\ n.wait = o.wait
    /\ n.aggr = o.aggr /\ n.zones = o.zones /\ n.want = o.want
    /\ n.state[h] # "on" /\ \A g \in Hosts : n.state[g] = "on" => o.state[g] = "on"

LEMMA RestartedReset ==
    ASSUME IInv, NEW i \in Instns, NEW h \in Hosts, Live(i)
    PROVE  LET o == instn[i] n == Restarted(Refreshed(i, h), h)
           IN /\ Reset(o, n, h)
              /\ Scope(i) # Global => /\ Zoned(n) => Zoned(o)
                                      /\ Single(o, "zonesUpdate") => Single(n, "zonesUpdate")
<1> DEFINE o == instn[i]
           e == Refreshed(i, h)
           z == [e EXCEPT !.state[h] = "off"]
           n == Restarted(e, h)
<1>1. o \in Objects
  BY ChannelTypes
<1>2. /\ Task("zonesUpdate") \in Tasks /\ Task("instrsUpdate") \in Tasks
      /\ Task("instrsUpdate").f = "instrsUpdate"
  BY TaskFacts
<1>3. /\ e \in Objects /\ Alike(o, e) /\ e.cur = o.cur /\ e.wait = o.wait
      /\ Scope(i) # Global => e = o
  <2> DEFINE f == Enqueue(o, Task("zonesUpdate"))
  <2>1. f \in Objects /\ Alike(o, f) /\ f.cur = o.cur /\ f.wait = o.wait
    BY <1>1, <1>2, EnqueueAlike
  <2>2. e = f \/ e = o
    BY DEF Refreshed
  <2>3. Scope(i) # Global => e = o
    BY DEF Refreshed
  <2> HIDE DEF e, f
  <2> QED BY <1>1, <2>1, <2>2, <2>3 DEF Alike
<1> HIDE DEF o, e
<1>4. CASE e.state[h] = "absent"
  <2>1. n = e
    BY <1>4 DEF Restarted
  <2>2. Reset(o, e, h)
    BY <1>3, <1>4 DEF Reset, Alike
  <2> HIDE DEF n
  <2> QED BY <1>3, <2>1, <2>2 DEF n, o, e
<1>5. CASE e.state[h] # "absent"
  <2>1. /\ z \in Objects /\ z.where = e.where /\ z.cur = e.cur /\ z.wait = e.wait
        /\ z.zones = e.zones /\ z.want = e.want /\ z.tasks = e.tasks /\ z.aggr = e.aggr
        /\ z.state[h] = "off" /\ \A g \in Hosts : g # h => z.state[g] = e.state[g]
    BY <1>3 DEF Objects
  <2> HIDE DEF z
  <2> DEFINE f == Enqueue(z, Task("instrsUpdate"))
  <2>2. /\ f \in Objects /\ Alike(z, f) /\ f.cur = z.cur /\ f.wait = z.wait
        /\ Zoned(f) => Zoned(z)
        /\ Single(z, "zonesUpdate") => Single(f, "zonesUpdate")
    BY <1>2, <2>1, EnqueueAlike
  <2>3. n = f
    BY <1>5 DEF Restarted, z
  <2> HIDE DEF f, n
  <2>4. (Zoned(z) <=> Zoned(e)) /\ (Single(z, "zonesUpdate") <=> Single(e, "zonesUpdate"))
    BY <2>1 DEF Zoned, Has, Single
  <2>5. Reset(o, n, h)
    BY <1>3, <2>1, <2>2, <2>3 DEF Reset, Alike
  <2> QED BY <1>3, <2>2, <2>3, <2>4, <2>5 DEF n, o, e
<1> QED BY <1>4, <1>5 DEF o, e

LEMMA HostOnlineAgents ==
    ASSUME IInv, LinesInv, EntriesInv, BeliefInv, NEW h \in Hosts, HostOnline(h, TRUE)
    PROVE  LinesInv' /\ EntriesInv' /\ BeliefInv'
<1>1. /\ inq[h] # <<>> /\ Head(inq[h]) = Online /\ inq' = [inq EXCEPT ![h] = Tail(@)]
      /\ UNCHANGED <<net, hostHas, up>> /\ known' = known \cup {h}
      /\ instn' = [i \in Instns |-> IF Live(i) THEN Restarted(Refreshed(i, h), h)
                                    ELSE instn[i]]
      /\ h \in Targets
  BY OtherHosts DEF HostOnline, Heard, extVars
<1>2. SameChannels /\ \A u \in Targets : u # h => inq'[u] = inq[u]
  BY <1>1, ReadChannels
<1>3. inq[h] \in Seq(Replies) /\ inq'[h] = Tail(inq[h])
  BY <1>1, ChannelTypes
<1>4. ASSUME NEW i \in Instns
      PROVE  /\ instn[i].where = "live" =>
                    /\ Reset(instn[i], instn'[i], h)
                    /\ Scope(i) # Global =>
                          /\ Zoned(instn'[i]) => Zoned(instn[i])
                          /\ Single(instn[i], "zonesUpdate") => Single(instn'[i], "zonesUpdate")
             /\ instn[i].where # "live" => instn'[i] = instn[i]
  BY <1>1, RestartedReset DEF Live
<1>5. LinesInv'
  <2>1. ASSUME NEW i \in Instns
        PROVE  /\ instn[i].wait \subseteq instn'[i].wait
               /\ instn'[i].wait \subseteq Awaited(instn'[i])
    <3>1. instn[i].wait \subseteq Awaited(instn[i])
      BY DEF LinesInv, Lines
    <3>2. CASE instn[i].where # "live"
      BY <1>4, <3>1, <3>2
    <3>3. CASE instn[i].where = "live"
      <4>1. /\ instn'[i].cur = instn[i].cur /\ instn'[i].wait = instn[i].wait
            /\ instn'[i].aggr = instn[i].aggr
        BY <1>4, <3>3 DEF Reset
      <4> QED BY <3>1, <4>1 DEF Awaited
    <3> QED BY <3>2, <3>3
  <2> QED BY <1>2, <2>1, SameLines
<1>6. ASSUME NEW i \in Instns PROVE Entries(i, instn'[i], known')
  <2> DEFINE o == instn[i] n == instn'[i]
  <2>1. Entries(i, o, known) /\ known \subseteq known'
    BY <1>1 DEF EntriesInv
  <2>2. /\ o.where = "live" =>
              /\ Reset(o, n, h)
              /\ Scope(i) # Global => /\ Zoned(n) => Zoned(o)
                                      /\ Single(o, "zonesUpdate") => Single(n, "zonesUpdate")
        /\ o.where # "live" => n = o
    BY <1>4
  <2> HIDE DEF o, n
  <2>3. Entries(i, n, known')
    <3>1. CASE o.where # "live"
      BY <2>1, <2>2, <3>1 DEF Entries
    <3>2. CASE o.where = "live"
      BY <2>1, <2>2, <3>2 DEF Entries, Reset, On, Does, Zoned, ZonesAsked
    <3> QED BY <3>1, <3>2
  <2> QED BY <2>3 DEF n
<1>7. ASSUME NEW i \in Instns, NEW g \in Hosts
      PROVE  Belief(i, g, instn'[i], net'[g][i], inq'[g], hostHas'[g], up')
  <2> DEFINE o == instn[i] n == instn'[i]
  <2>1. Belief(i, g, o, net[g][i], inq[g], hostHas[g], up)
    BY DEF BeliefInv
  <2>2. (o.where = "live" => Reset(o, n, h)) /\ (o.where # "live" => n = o)
    BY <1>4
  <2>3. /\ HasAck(inq'[g], i) <=> HasAck(inq[g], i)
        /\ g \in Targets
    BY <1>2, OtherHosts DEF SameChannels, LinesInv, Lines, Line
  <2>4. Will(inq[g], i) /\ (g # h \/ HasAck(inq'[g], i)) => Will(inq'[g], i)
    BY <1>1, <1>2, <1>3, <2>3, WillTail
  <2> HIDE DEF o, n
  <2>5. Belief(i, g, n, net[g][i], inq'[g], hostHas[g], up)
    <3>1. CASE o.where # "live"
      BY <2>2, <3>1 DEF Belief
    <3>2. CASE o.where = "live" /\ g = h
      BY <2>1, <2>2, <2>3, <2>4, <3>2 DEF Belief, Reset, There
    <3>3. CASE o.where = "live" /\ g # h
      BY <2>1, <2>2, <2>3, <2>4, <3>3 DEF Belief, Reset, There, Wanted
    <3> QED BY <3>1, <3>2, <3>3
  <2> QED BY <1>1, <2>5 DEF n
<1> QED BY <1>5, <1>6, <1>7 DEF EntriesInv, BeliefInv

\* After a conflict of its metadata only the announcement is gone.
LEMMA HostConflictAgents ==
    ASSUME IInv, LinesInv, EntriesInv, NEW h \in Hosts, HostOnline(h, FALSE), FALSE \in Metadata
    PROVE  LinesInv' /\ EntriesInv' /\ BeliefInv'
<1>1. /\ inq[h] # <<>> /\ Head(inq[h]) = Online /\ inq' = [inq EXCEPT ![h] = Tail(@)]
      /\ UNCHANGED <<net, instn>> /\ known' = known \cup {h} /\ h \in Targets
  BY OtherHosts, ChannelTypes DEF HostOnline, Heard
<1>2. LinesInv'
  BY <1>1, ReadChannels, StillLines
<1>3. EntriesInv'
  <2> SUFFICES ASSUME NEW i \in Instns PROVE Entries(i, instn'[i], known')
    BY DEF EntriesInv
  <2>1. Entries(i, instn[i], known) /\ instn'[i] = instn[i] /\ known \subseteq known'
    BY <1>1 DEF EntriesInv
  <2> QED BY <2>1 DEF Entries
<1>4. BeliefInv'
  BY DEF BeliefInv, Belief
<1> QED BY <1>2, <1>3, <1>4

LEMMA DieAgents ==
    ASSUME IInv, LinesInv, Die
    PROVE  LinesInv' /\ EntriesInv' /\ BeliefInv'
<1>1. /\ \A i \in Instns : instn'[i] = Blank
      /\ \A t \in Targets, i \in Instns : net'[t][i] = Forget(net[t][i])
      /\ \A t \in Targets : inq'[t] = <<>>
  BY DEF Die
<1>2. /\ Blank.where = "none" /\ Blank.cur = None /\ Blank.wait = {}
  BY DEF Blank
<1>3. ASSUME NEW i \in Instns, NEW t \in Targets
      PROVE  Line(i, Forget(net[t][i]), <<>>) /\ ~Open(i, Forget(net[t][i]), <<>>)
  <2>1. ~Pend(Forget(net[t][i])) /\ LastLive(Forget(net[t][i]))
    BY ChannelTypes, QueueForget
  <2>2. ~HasAck(<<>>, i) /\ Once(<<>>, i)
    BY DEF HasAck, Once
  <2> QED BY <2>1, <2>2 DEF Line, Open
<1>4. LinesInv'
  BY <1>1, <1>2, <1>3 DEF LinesInv, Lines
<1>5. EntriesInv' /\ BeliefInv'
  BY <1>1, <1>2 DEF EntriesInv, Entries, Does, BeliefInv, Belief
<1> QED BY <1>4, <1>5

-----------------------------------------------------------------------------
(* All steps.                                                              *)

AgentsInv == LinesInv /\ EntriesInv /\ BeliefInv

LEMMA InitAgents == Init => AgentsInv
<1> SUFFICES ASSUME Init PROVE AgentsInv
  OBVIOUS
<1>1. /\ \A i \in Instns : instn[i] = Blank
      /\ \A t \in Targets, i \in Instns : net[t][i] = <<>>
      /\ \A t \in Targets : inq[t] = <<>>
  BY DEF Init, Empty
<1>2. Blank.where = "none" /\ Blank.cur = None /\ Blank.wait = {}
  BY DEF Blank
<1>3. \A i \in Instns : Line(i, <<>>, <<>>) /\ ~Open(i, <<>>, <<>>)
  BY DEF Line, Open, LastLive, Once, HasAck, Pend
<1>4. LinesInv
  BY <1>1, <1>2, <1>3 DEF LinesInv, Lines
<1>5. EntriesInv /\ BeliefInv
  BY <1>1, <1>2 DEF EntriesInv, Entries, Does, BeliefInv, Belief
<1> QED BY <1>4, <1>5 DEF AgentsInv

\* A step of an instrumentation.
LEMMA InstnAgents ==
    ASSUME IInv, LInv, IInv', AgentsInv, NEW i \in Instns,
           \/ Http(i) \/ StartTask(i) \/ ZonesFail(i)
           \/ \E ok \in BOOLEAN : EndTask(i, ok)
           \/ \E zs \in SUBSET Hosts : ZonesDone(i, zs)
    PROVE  AgentsInv'
<1> USE DEF AgentsInv
<1>1. CASE Http(i)
  BY <1>1, HttpAgents, CalmAgents
<1>2. CASE StartTask(i)
  BY <1>2, StartSaveAgents, StartAggrAgents, CalmAgents, StartZonesAgents, StartInstrsAgents
     DEF StartTask
<1>3. CASE ZonesFail(i)
  BY <1>3, ZonesFailAgents
<1>4. ASSUME NEW ok \in BOOLEAN, EndTask(i, ok) PROVE AgentsInv'
  BY <1>4, CreateDoneAgents, SaveDoneAgents, DeleteDoneAgents, AggrDoneAgents, CalmAgents,
     InstrDoneAgents DEF EndTask
<1>5. ASSUME NEW zs \in SUBSET Hosts, ZonesDone(i, zs) PROVE AgentsInv'
  BY <1>5, ZonesDoneAgents
<1> QED BY <1>1, <1>2, <1>3, <1>4, <1>5

\* A step of a target, or one that reads a message of it.
LEMMA TargetAgents ==
    ASSUME IInv, LInv, IInv', AgentsInv, NEW t \in Targets,
           \/ Notified(t) \/ Announce(t) \/ TargetDown(t) \/ TargetUp(t)
           \/ \E i \in Instns : Execute(t, i)
    PROVE  AgentsInv'
<1> USE DEF AgentsInv
<1>1. CASE t \in Aggrs /\ AggOnline(t)
  BY <1>1, AggOnlineAgents, CalmAgents
<1>2. ASSUME t \in Hosts, NEW ok \in Metadata, HostOnline(t, ok) PROVE AgentsInv'
  <2>1. ok \in BOOLEAN
    BY ConstantsAssumption
  <2> QED BY <1>2, <2>1, HostOnlineAgents, HostConflictAgents
<1>3. CASE t \in Hosts
  <2>1. CASE Announce(t) \/ TargetUp(t) \/ TargetDown(t) \/ DropLate(t)
    BY <1>3, <2>1, HostTargetAgents
  <2>2. ASSUME NEW i \in Instns, Execute(t, i) PROVE AgentsInv'
    BY <1>3, <2>2, OtherHosts, HostCarryAgents DEF Execute
  <2> QED BY <1>1, <1>2, <1>3, <2>1, <2>2 DEF Notified
<1>4. CASE t \notin Hosts
  <2>1. ASSUME NEW i \in Instns, Execute(t, i)
        PROVE  (t \in Aggrs /\ AggCarry(t, i))
                  \/ (t = Stash /\ \E ok \in BOOLEAN : StashCarry(i, ok))
    BY <1>4, <2>1 DEF Execute
  <2>2. CASE Announce(t) \/ TargetUp(t) \/ TargetDown(t) \/ DropLate(t)
             \/ \E i \in Instns : Execute(t, i)
    <3>1. LinesInv' /\ Calm
      BY <1>4, <2>1, <2>2, OtherTargetAgents
    <3> QED BY <3>1, CalmAgents
  <2> QED BY <1>1, <1>4, <2>2 DEF Notified
<1> QED BY <1>3, <1>4

LEMMA NextAgents ==
    ASSUME IInv, LInv, AgentsInv, [Next]_vars
    PROVE  AgentsInv'
<1>1. IInv'
  BY NextInv
<1>2. CASE Start \/ LoadList \/ Stop
  <2>1. LinesInv' /\ Calm
    BY <1>2, LoadAgents, StopAgents DEF AgentsInv
  <2> QED BY <1>1, <2>1, CalmAgents DEF AgentsInv
<1>6. CASE LoadFetch
  BY <1>6, LoadFetchAgents DEF AgentsInv
<1>3. CASE AssertStopped \/ Crash \/ StopDone
  BY <1>3, DieAgents DEF AgentsInv, AssertStopped, Crash, StopDone
<1>4. ASSUME NEW s \in Scopes, NEW v \in PropVals, HttpCreate(s, v) PROVE AgentsInv'
  <2>1. LinesInv' /\ Calm
    BY <1>4, NewAgents DEF AgentsInv
  <2> QED BY <1>1, <2>1, CalmAgents DEF AgentsInv
<1>5. CASE UNCHANGED vars
  BY <1>5 DEF AgentsInv, LinesInv, Lines, EntriesInv, BeliefInv, vars, svcVars, extVars, msgVars
<1> QED BY <1>1, <1>2, <1>3, <1>4, <1>5, <1>6, InstnAgents, TargetAgents DEF Next, Boot

THEOREM AgentsInductive == Spec => [](IInv /\ LInv /\ AgentsInv)
<1>1. Init => IInv /\ LInv /\ AgentsInv
  BY InitInv, InitLInv, InitAgents
<1>2. (IInv /\ LInv /\ AgentsInv) /\ [Next]_vars => (IInv /\ LInv /\ AgentsInv)'
  BY NextInv, NextLInv, NextAgents
<1> QED BY <1>1, <1>2, PTL DEF Spec

\* What amqpInstrOnline and instnTaskInstrsUpdate make of cfi_instrs is sound:
\* an instrumenter that the service takes for enabled has the instrumentation,
\* or it is away, or its announcement is still to be read, whatever was
\* refused, timed out, was carried out late or restarted.  (If its metadata
\* never conflict: amqpInstrOnline does not reset the entries of one whose
\* metadata are refused.)
THEOREM BeliefIsSound == ASSUME FALSE \notin Metadata PROVE Spec => []BeliefSound
<1>1. AgentsInv => BeliefSound
  <2> SUFFICES ASSUME AgentsInv, NEW i \in Instns, NEW h \in Hosts,
                      Live(i), h \in instn[i].want, instn[i].state[h] = "on"
               PROVE  \/ i \in hostHas[h]
                      \/ h \notin up
                      \/ \E k \in DOMAIN inq[h] : inq[h][k] = Online
    BY DEF BeliefSound
  <2>1. Belief(i, h, instn[i], net[h][i], inq[h], hostHas[h], up)
    BY DEF AgentsInv, BeliefInv
  <2> QED BY <2>1 DEF Belief, Wanted, There, Will, Live
<1> QED BY <1>1, AgentsInductive, PTL

-----------------------------------------------------------------------------
(* The aggregators of deleted instrumentations, before the first crash or  *)
(* stop of the service.  q, r and has are the commands for i in the queue  *)
(* of its aggregator, the answers of that aggregator and what it has of i. *)

Quitting(o) == Has(o, "aggrDisable") \/ Does(o, "aggrDisable")

Defused(q) == \A k \in DOMAIN q : q[k].op = "disable" => q[k].arg = None

Disarmed(i, o, q, r, has) ==
    /\ Defused(q)
    /\ Does(o, "aggrDisable") => LiveOps(q, "disable") /\ (HasAck(r, i) => has = None)

\* The aggregator has been told, and nothing in its queue takes that back.
Clean(q, has) == has = None /\ AllOps(q, "disable")
Cleaned(o, q, has) == o.where = "dead" /\ ~Quitting(o) => Clean(q, has)

Quits(i, a, o, q, r, has) == Disarmed(i, o, q, r, has) /\ (o.aggr = a => Cleaned(o, q, has))

QuitsInv ==
    \A i \in Instns, a \in Aggrs :
        Quits(i, a, instn[i], net[a][i], inq[a], aggHas[a][i])

\* No aggregator has been forgotten: those named in memory, in the stash and
\* in what is on its way to it have been heard from.
Named(q, kn) == \A k \in DOMAIN q : q[k].arg # None => q[k].arg.aggr \in kn

FirstLife ==
    /\ svc # "stopping"
    /\ \A i \in Instns : instn[i].where # "none" => instn[i].aggr \in known
    /\ \A i \in Instns : disk[i] # None => disk[i].aggr \in known
    /\ \A i \in Instns : Named(net[Stash][i], known)

FirstInv == QuitsInv /\ FirstLife

\* What most operations do to an object: a deletion from the aggregator neither
\* begins nor ends.
Sober(o, n) ==
    /\ n.where # "none" => o.where # "none" /\ n.aggr = o.aggr
    /\ o.where = "dead" => n.where \in {"dead", "none"}
    /\ Does(n, "aggrDisable") => Does(o, "aggrDisable")
    /\ n.where = "dead" /\ ~Quitting(n) => o.where = "dead" /\ ~Quitting(o)
    /\ o.where = "dead" /\ n.where = "none" => ~Quitting(o)

LEMMA SoberSame == ASSUME NEW o PROVE Sober(o, o)
BY DEF Sober

LEMMA SoberThen ==
    ASSUME NEW o, NEW n, NEW m, Sober(o, n), Sober(n, m)
    PROVE  Sober(o, m)
BY DEF Sober

LEMMA SoberFields ==
    ASSUME NEW o, NEW n, n.where = o.where, n.aggr = o.aggr, n.tasks = o.tasks, n.cur = o.cur
    PROVE  Sober(o, n)
BY DEF Sober, Quitting, Has, Does

LEMMA SoberEnqueue ==
    ASSUME NEW o \in Objects, NEW t \in Tasks
    PROVE  /\ Sober(o, Enqueue(o, t)) /\ Enqueue(o, t) \in Objects
           /\ Enqueue(o, t).where = o.where /\ Enqueue(o, t).cur = o.cur
           /\ Enqueue(o, t).aggr = o.aggr
           /\ svc # "stopping" => Has(Enqueue(o, t), t.f)
           /\ \A f : Has(o, f) => Has(Enqueue(o, t), f)
<1> DEFINE n == [o EXCEPT !.tasks = Append(@, t)]
<1>1. CASE svc = "stopping"
  BY <1>1, SoberSame DEF Enqueue
<1>2. CASE svc # "stopping"
  <2>1. o.tasks \in Seq(Tasks)
    BY DEF Objects
  <2>2. /\ Append(o.tasks, t) \in Seq(Tasks) /\ Len(o.tasks) \in Nat
        /\ DOMAIN o.tasks = 1..Len(o.tasks)
        /\ DOMAIN Append(o.tasks, t) = 1..(Len(o.tasks) + 1)
        /\ \A k \in 1..Len(o.tasks) : Append(o.tasks, t)[k] = o.tasks[k]
        /\ Append(o.tasks, t)[Len(o.tasks) + 1] = t
    BY <2>1, AppendProperties, LenProperties
  <2>3. /\ \A k \in DOMAIN o.tasks : k \in DOMAIN Append(o.tasks, t)
                                     /\ Append(o.tasks, t)[k] = o.tasks[k]
        /\ \E k \in DOMAIN Append(o.tasks, t) : Append(o.tasks, t)[k] = t
    BY <2>2
  <2>4. /\ n \in Objects /\ n.where = o.where /\ n.cur = o.cur /\ n.aggr = o.aggr
        /\ n.tasks = Append(o.tasks, t)
    BY <2>2 DEF Objects
  <2>5. Has(n, t.f) /\ \A f : Has(o, f) => Has(n, f)
    BY <2>3, <2>4 DEF Has
  <2>6. Sober(o, n)
    BY <2>4, <2>5 DEF Sober, Quitting, Does
  <2> QED BY <1>2, <2>4, <2>5, <2>6 DEF Enqueue
<1> QED BY <1>1, <1>2

LEMMA SoberSettle ==
    ASSUME NEW o \in Objects, ~Does(o, "aggrDisable")
    PROVE  Sober(o, Settle(o))
<1> DEFINE n == [o EXCEPT !.cur = None, !.wait = {}]
<1>1. CASE o.where = "dead" /\ o.tasks = <<>>
  <2>1. Settle(o) = Blank /\ Blank.where = "none" /\ Blank.cur = None
    BY <1>1 DEF Settle, Blank
  <2>2. ~Quitting(o)
    BY <1>1 DEF Quitting, Has
  <2> HIDE DEF Blank
  <2> QED BY <2>1, <2>2 DEF Sober, Does
<1>2. CASE ~(o.where = "dead" /\ o.tasks = <<>>)
  <2>1. n.where = o.where /\ n.cur = None /\ n.aggr = o.aggr /\ n.tasks = o.tasks
    BY DEF Objects
  <2> HIDE DEF n
  <2>2. Sober(o, n)
    BY <2>1 DEF Sober, Quitting, Has, Does
  <2> QED BY <1>2, <2>2 DEF Settle, n
<1> QED BY <1>1, <1>2

LEMMA SoberShifted ==
    ASSUME IInv, NEW i \in Instns, NEW funcs, Ready(i, funcs), "aggrDisable" \notin funcs
    PROVE  /\ Sober(instn[i], Shifted(i)) /\ Shifted(i) \in Objects
           /\ Shifted(i).cur.f \in funcs /\ ~Does(Shifted(i), "aggrDisable")
           /\ Shifted(i).cur # None
<1> DEFINE o == instn[i] n == Shifted(i)
<1>1. ObjectInv(i, o) /\ o.tasks # <<>> /\ n.cur.f \in funcs /\ o.cur = None
  BY ReadyObject DEF Ready
<1>2. n \in Objects /\ n.where = o.where /\ n.aggr = o.aggr /\ n.cur \in Tasks
      /\ n.cur = Head(o.tasks) /\ n.tasks = Tail(o.tasks) /\ o.tasks \in Seq(Tasks)
  BY <1>1, ShiftedObject DEF Shifted, ObjectInv, Objects
<1>3. n.cur # None
  BY <1>2, NoneAssumption
<1>4. \A k \in DOMAIN o.tasks : \/ o.tasks[k] = n.cur
                                \/ (k - 1 \in DOMAIN n.tasks /\ n.tasks[k - 1] = o.tasks[k])
  <2>1. /\ Tail(o.tasks) \in Seq(Tasks)
        /\ Len(o.tasks) \in Nat \ {0} /\ Len(Tail(o.tasks)) = Len(o.tasks) - 1
        /\ \A k \in 1..Len(Tail(o.tasks)) : Tail(o.tasks)[k] = o.tasks[k + 1]
        /\ Head(o.tasks) = o.tasks[1]
    BY <1>1, <1>2, HeadTailProperties, EmptySeq
  <2>2. DOMAIN o.tasks = 1..Len(o.tasks) /\ DOMAIN Tail(o.tasks) = 1..(Len(o.tasks) - 1)
    BY <1>2, <2>1, LenProperties
  <2> DEFINE u == o.tasks v == Tail(u) l == Len(u)
  <2>3. /\ DOMAIN u = 1..l /\ l \in Nat \ {0} /\ DOMAIN v = 1..(l - 1) /\ Len(v) = l - 1
        /\ \A k \in 1..Len(v) : v[k] = u[k + 1]
    BY <2>1, <2>2
  <2>4. n.cur = u[1] /\ n.tasks = v
    BY <1>2, <2>1
  <2> HIDE DEF n, o, u, v, l
  <2>5. ASSUME NEW k \in DOMAIN u, k # 1 PROVE k - 1 \in DOMAIN v /\ v[k - 1] = u[k]
    <3>1. k - 1 \in 1..Len(v) /\ (k - 1) + 1 = k
      BY <2>3, <2>5
    <3> QED BY <2>3, <3>1
  <2>6. \A k \in DOMAIN u : u[k] = n.cur \/ (k - 1 \in DOMAIN n.tasks /\ n.tasks[k - 1] = u[k])
    BY <2>4, <2>5
  <2> QED BY <2>6 DEF u
<1> HIDE DEF n, o
<1>5. Sober(o, n) /\ ~Does(n, "aggrDisable")
  BY <1>1, <1>2, <1>3, <1>4 DEF Sober, Quitting, Has, Does
<1> QED BY <1>1, <1>2, <1>3, <1>5 DEF n, o

-----------------------------------------------------------------------------
(* Steps that leave the aggregators and their channels.                    *)

New(o, n) == o.where = "none" /\ n.where = "creating" /\ n.cur = None /\ n.aggr \in known

Still(i, a) ==
    /\ net'[a][i] = net[a][i] /\ aggHas'[a][i] = aggHas[a][i]
    /\ HasAck(inq'[a], i) => HasAck(inq[a], i)

Steady ==
    /\ known \subseteq known' /\ \A i \in Instns, a \in Aggrs : Still(i, a)
    /\ \A i \in Instns : Sober(instn[i], instn'[i]) \/ New(instn[i], instn'[i])

\* A deleted instrumentation that is forgotten leaves a clean aggregator.
Leaves ==
    \A i \in Instns, a \in Aggrs :
        (instn[i].where = "dead" /\ instn[i].aggr = a /\ instn'[i].where = "none")
            => Clean(net'[a][i], aggHas'[a][i])

LEMMA SteadyQuits ==
    ASSUME QuitsInv, Steady
    PROVE  QuitsInv' /\ Leaves
<1>1. ASSUME NEW i \in Instns, NEW a \in Aggrs
      PROVE  /\ Quits(i, a, instn'[i], net'[a][i], inq'[a], aggHas'[a][i])
             /\ (instn[i].where = "dead" /\ instn[i].aggr = a /\ instn'[i].where = "none")
                    => Clean(net'[a][i], aggHas'[a][i])
  <2> DEFINE o == instn[i] n == instn'[i] q == net[a][i] r == inq[a] s == inq'[a]
             has == aggHas[a][i]
  <2>1. Quits(i, a, o, q, r, has)
    BY DEF QuitsInv
  <2>2. net'[a][i] = q /\ aggHas'[a][i] = has /\ (HasAck(s, i) => HasAck(r, i))
    BY DEF Steady, Still
  <2>3. Sober(o, n) \/ New(o, n)
    BY DEF Steady
  <2> HIDE DEF o, n, q, r, s, has
  <2>4. Quits(i, a, n, q, s, has) /\ (o.where = "dead" /\ o.aggr = a /\ n.where = "none"
                                        => Clean(q, has))
    <3>1. CASE Sober(o, n)
      BY <2>1, <2>2, <3>1 DEF Sober, Quits, Disarmed, Cleaned
    <3>2. CASE New(o, n)
      BY <2>1, <2>2, <3>2 DEF New, Quits, Disarmed, Cleaned, Does
    <3> QED BY <2>3, <3>1, <3>2
  <2> QED BY <2>2, <2>4 DEF o, n, s
<1> QED BY <1>1 DEF QuitsInv, Leaves

\* A step that changes one object and not the channels of the others.
LEMMA OneQuits ==
    ASSUME IInv, QuitsInv, NEW i \in Instns, NEW n, instn' = [instn EXCEPT ![i] = n],
           \A j \in Instns, a \in Aggrs : j # i => Still(j, a),
           \A a \in Aggrs : Quits(i, a, n, net'[a][i], inq'[a], aggHas'[a][i]),
           instn[i].where = "dead" /\ n.where = "none" =>
               Clean(net'[instn[i].aggr][i], aggHas'[instn[i].aggr][i])
    PROVE  QuitsInv' /\ Leaves
<1>1. /\ instn'[i] = n
      /\ \A j \in Instns : j # i => instn'[j] = instn[j]
  BY ChannelTypes
<1>2. ASSUME NEW j \in Instns, NEW a \in Aggrs
      PROVE  Quits(j, a, instn'[j], net'[a][j], inq'[a], aggHas'[a][j])
  <2>1. CASE j = i
    BY <1>1, <2>1
  <2>2. CASE j # i
    BY <1>1, <2>2 DEF QuitsInv, Still, Quits, Disarmed
  <2> QED BY <2>1, <2>2
<1>3. Leaves
  BY <1>1 DEF Leaves
<1> QED BY <1>2, <1>3 DEF QuitsInv

\* A step that changes one object and no channel of an aggregator.
LEMMA SteadyOne ==
    ASSUME IInv, NEW i \in Instns, NEW n, instn' = [instn EXCEPT ![i] = n],
           Sober(instn[i], n) \/ New(instn[i], n),
           \A a \in Aggrs : net'[a] = net[a] /\ inq'[a] = inq[a],
           UNCHANGED <<known, aggHas>>
    PROVE  Steady
<1>1. ASSUME NEW j \in Instns PROVE Sober(instn[j], instn'[j]) \/ New(instn[j], instn'[j])
  <2>1. CASE j = i
    BY <2>1, ChannelTypes
  <2>2. CASE j # i
    BY <2>2, ChannelTypes, SoberSame
  <2> QED BY <2>1, <2>2
<1> QED BY <1>1 DEF Steady, Still

\* Nothing is sent to an aggregator, or answered by one.
LEMMA SendOthers ==
    ASSUME NEW cmds, NEW i, Send(cmds, i), DOMAIN cmds \cap Aggrs = {}
    PROVE  \A a \in Aggrs : net'[a] = net[a]
BY OtherHosts DEF Send

LEMMA ResultOthers ==
    ASSUME IInv, LinesInv, NEW i \in Instns, NEW t \in Targets \ Aggrs, NEW ok, Result(t, i, ok)
    PROVE  \A a \in Aggrs : net'[a] = net[a] /\ inq'[a] = inq[a]
BY ResultLine, OtherHosts

LEMMA StartSaveSteady ==
    ASSUME IInv, NEW i \in Instns, StartSave(i)
    PROVE  Steady
<1> DEFINE o == Shifted(i)
           n == [o EXCEPT !.deleted = Deleted(o), !.wait = {Stash}]
<1>1. Ready(i, StashFuncs) /\ UNCHANGED <<inq, known, aggHas>>
      /\ instn' = [instn EXCEPT ![i] = n] /\ "aggrDisable" \notin StashFuncs
  BY DEF StartSave, svcVars, extVars, StashFuncs
<1>2. Sober(instn[i], o) /\ o \in Objects
  BY <1>1, SoberShifted
<1>3. n.where = o.where /\ n.aggr = o.aggr /\ n.tasks = o.tasks /\ n.cur = o.cur
  BY <1>2 DEF Objects
<1>4. PICK cmd : Send([t \in {Stash} |-> cmd], i)
  BY DEF StartSave
<1>5. \A a \in Aggrs : net'[a] = net[a]
  <2> DEFINE cmds == [t \in {Stash} |-> cmd]
  <2>1. Send(cmds, i) /\ DOMAIN cmds \cap Aggrs = {}
    BY <1>4, OtherHosts
  <2> HIDE DEF cmds
  <2> QED BY <2>1, SendOthers
<1> HIDE DEF n, o
<1>6. Sober(instn[i], n)
  BY <1>2, <1>3, SoberFields, SoberThen
<1> QED BY <1>1, <1>5, <1>6, SteadyOne

LEMMA StartZonesSteady ==
    ASSUME IInv, NEW i \in Instns, StartZonesGlobal(i) \/ StartZonesCust(i)
    PROVE  Steady
<1> DEFINE o == Shifted(i)
           z == [o EXCEPT !.zones = None]
           e == Enqueue(z, Task("instrsUpdate"))
<1>1. Ready(i, {"zonesUpdate"}) /\ UNCHANGED <<net, inq, known, aggHas>>
  BY DEF StartZonesGlobal, StartZonesCust, svcVars, extVars, msgVars
<1>2. /\ Sober(instn[i], o) /\ o \in Objects /\ o.cur.f = "zonesUpdate"
  BY <1>1, SoberShifted
<1>3. /\ z \in Objects /\ z.where = o.where /\ z.aggr = o.aggr /\ z.tasks = o.tasks
      /\ z.cur = o.cur
  BY <1>2 DEF Objects, Zones
<1>4. Task("instrsUpdate") \in Tasks
  BY TaskFacts
<1>5. CASE StartZonesCust(i)
  BY <1>1, <1>2, <1>5, SteadyOne DEF StartZonesCust
<1>6. CASE StartZonesGlobal(i)
  <2>1. instn' = [instn EXCEPT ![i] = Settle(e)]
    BY <1>6 DEF StartZonesGlobal
  <2> HIDE DEF o, z
  <2>2. Sober(o, z) /\ Sober(z, e) /\ e \in Objects /\ e.cur = z.cur
    BY <1>3, <1>4, SoberFields, SoberEnqueue
  <2> HIDE DEF e
  <2>3. Sober(e, Settle(e))
    BY <1>2, <1>3, <2>2, SoberSettle DEF Does
  <2>4. Sober(instn[i], Settle(e))
    BY <1>2, <2>2, <2>3, SoberThen
  <2> QED BY <1>1, <2>1, <2>4, SteadyOne
<1> QED BY <1>5, <1>6

LEMMA StartInstrsSteady ==
    ASSUME IInv, NEW i \in Instns, StartInstrs(i)
    PROVE  Steady
<1> DEFINE o == Shifted(i)
           hosts == IF o.zones = None THEN known \cap Hosts ELSE o.zones
           state == [h \in Hosts |-> IF h \in hosts /\ o.state[h] = "absent"
                                     THEN "off" ELSE o.state[h]]
           stale == o.conf.nsrc # Cardinality(hosts) /\ ~o.deleted
           o1 == [o EXCEPT !.state = state, !.want = hosts]
           p == [o1 EXCEPT !.conf.nsrc = Cardinality(hosts)]
           o2 == IF stale THEN Enqueue(p, Task("aggrUpdate")) ELSE o1
           todo == {h \in known \cap supports : state[h] = IF h \in hosts THEN "off" ELSE "on"}
           cmd(h) == Command(IF h \in hosts THEN "enable" ELSE "disable", None)
           cmds == [h \in todo |-> cmd(h)]
           n == IF todo = {} THEN Settle(o2) ELSE [o2 EXCEPT !.wait = todo]
<1>1. /\ Ready(i, {"instrsUpdate"}) /\ UNCHANGED <<inq, known, aggHas>>
      /\ instn' = [instn EXCEPT ![i] = n] /\ Send(cmds, i)
  BY DEF StartInstrs, svcVars, extVars
<1>2. Sober(instn[i], o) /\ o \in Objects /\ o.cur.f = "instrsUpdate"
  <2>1. Ready(i, {"instrsUpdate"}) /\ "aggrDisable" \notin {"instrsUpdate"}
    BY <1>1
  <2>2. Sober(instn[i], Shifted(i)) /\ Shifted(i) \in Objects
        /\ Shifted(i).cur.f \in {"instrsUpdate"}
    BY <2>1, SoberShifted
  <2> QED BY <2>2
<1>3. hosts \in SUBSET Hosts
  BY <1>2 DEF Objects, Zones
<1>4. DOMAIN cmds \cap Aggrs = {}
  BY ConstantsAssumption DEF IInv, TypeOK, ServiceType
<1>5. \A a \in Aggrs : net'[a] = net[a]
  <2> HIDE DEF cmds
  <2> QED BY <1>1, <1>4, SendOthers
<1>6. state \in [Hosts -> {"absent", "off", "on"}]
  BY <1>2 DEF Objects
<1> HIDE DEF state, hosts, o
<1>7. /\ o1 \in Objects /\ o1.where = o.where /\ o1.aggr = o.aggr /\ o1.tasks = o.tasks
      /\ o1.cur = o.cur
  BY <1>2, <1>3, <1>6 DEF Objects
<1> HIDE DEF o1
<1>8. /\ p \in Objects /\ p.where = o.where /\ p.aggr = o.aggr /\ p.tasks = o.tasks
      /\ p.cur = o.cur
  <2>1. Cardinality(hosts) \in 0..Cardinality(Hosts)
    BY <1>3, SourcesType
  <2>2. [o1.conf EXCEPT !.nsrc = Cardinality(hosts)] \in Confs
    BY <1>7, <2>1 DEF Objects, Confs
  <2>3. p = [o1 EXCEPT !.conf = [o1.conf EXCEPT !.nsrc = Cardinality(hosts)]]
    OBVIOUS
  <2> HIDE DEF p
  <2> QED BY <1>7, <2>2, <2>3 DEF Objects
<1> HIDE DEF p, stale
<1>9. Sober(o, o2) /\ o2 \in Objects /\ o2.cur = o.cur
  <2> DEFINE e == Enqueue(p, Task("aggrUpdate"))
  <2>1. Sober(o, o1) /\ Sober(o, p)
    BY <1>7, <1>8, SoberFields
  <2>2. Sober(p, e) /\ e \in Objects /\ e.cur = p.cur
    BY <1>8, TaskFacts, SoberEnqueue
  <2> HIDE DEF e
  <2>3. Sober(o, e)
    BY <2>1, <2>2, SoberThen
  <2>4. o2 \in {e, o1}
    BY DEF e
  <2> HIDE DEF o2
  <2> QED BY <1>7, <1>8, <2>1, <2>2, <2>3, <2>4
<1> HIDE DEF o2
<1>10. Sober(o, n)
  <2> DEFINE s == Settle(o2) m == [o2 EXCEPT !.wait = todo]
  <2>1. m.where = o2.where /\ m.aggr = o2.aggr /\ m.tasks = o2.tasks /\ m.cur = o2.cur
    BY <1>9 DEF Objects
  <2>2. Sober(o2, s)
    BY <1>2, <1>9, SoberSettle DEF Does
  <2>3. n \in {s, m}
    OBVIOUS
  <2> HIDE DEF s, m, n
  <2>4. Sober(o2, m)
    BY <2>1, SoberFields
  <2>5. Sober(o2, n)
    BY <2>2, <2>3, <2>4
  <2> QED BY <1>9, <2>5, SoberThen
<1> HIDE DEF n
<1>11. Sober(instn[i], n)
  BY <1>2, <1>10, SoberThen
<1> QED BY <1>1, <1>5, <1>11, SteadyOne

\* The end of a task that waits for no aggregator.
LEMMA EndSteady ==
    ASSUME IInv, LinesInv, NEW i \in Instns, NEW t \in Targets \ Aggrs, NEW ok, Result(t, i, ok),
           NEW n, instn' = [instn EXCEPT ![i] = n], Sober(instn[i], n),
           UNCHANGED <<known, aggHas>>
    PROVE  Steady
<1>1. \A a \in Aggrs : net'[a] = net[a] /\ inq'[a] = inq[a]
  BY ResultOthers
<1> QED BY <1>1, SteadyOne

LEMMA StashNoAggr == Stash \in Targets \ Aggrs /\ \A h \in Hosts : h \in Targets \ Aggrs
BY OtherHosts

LEMMA CreateDoneSteady ==
    ASSUME IInv, LInv, LinesInv, NEW i \in Instns, NEW ok \in BOOLEAN, CreateDone(i, ok)
    PROVE  Steady
<1> DEFINE o == instn[i]
           n == [o EXCEPT !.where = "live"]
           e == Enqueue(n, Task("aggrUpdate"))
           m == Enqueue(e, Task("zonesUpdate"))
<1>1. Running(i, {"create"}) /\ Result(Stash, i, ok) /\ UNCHANGED <<known, aggHas>>
  BY DEF CreateDone, extVars
<1>2. o \in Objects /\ o.cur # None /\ o.cur.f = "create"
  BY <1>1, RunningAwaits
<1>3. o.where = "creating"
  BY <1>2 DEF LInv, ErrandInv, Errand, Does
<1>4. Task("aggrUpdate") \in Tasks /\ Task("zonesUpdate") \in Tasks
  BY TaskFacts
<1>5. CASE ok
  <2>1. instn' = [instn EXCEPT ![i] = Settle(m)]
    BY <1>5 DEF CreateDone
  <2>2. n \in Objects /\ n.where = "live" /\ n.aggr = o.aggr /\ n.tasks = o.tasks /\ n.cur = o.cur
    BY <1>2 DEF Objects
  <2> HIDE DEF o, n
  <2>3. Sober(o, n)
    BY <1>3, <2>2 DEF Sober, Does
  <2>4. Sober(n, e) /\ e \in Objects /\ e.cur = n.cur
    BY <1>4, <2>2, SoberEnqueue
  <2> HIDE DEF e
  <2>5. Sober(e, m) /\ m \in Objects /\ m.cur = e.cur
    BY <1>4, <2>4, SoberEnqueue
  <2> HIDE DEF m
  <2>6. Sober(m, Settle(m))
    BY <1>2, <2>2, <2>4, <2>5, SoberSettle DEF Does
  <2>7. Sober(o, Settle(m))
    BY <2>3, <2>4, <2>5, <2>6, SoberThen
  <2> QED BY <1>1, <2>1, <2>7, EndSteady, StashNoAggr DEF o
<1>6. CASE ~ok
  <2>1. instn' = [instn EXCEPT ![i] = Blank]
    BY <1>6 DEF CreateDone
  <2>2. Sober(o, Blank)
    BY <1>3 DEF Sober, Blank, Does
  <2> QED BY <1>1, <2>1, <2>2, EndSteady, StashNoAggr
<1> QED BY <1>5, <1>6

LEMMA SaveDoneSteady ==
    ASSUME IInv, LinesInv, NEW i \in Instns, NEW ok \in BOOLEAN,
           SaveDone(i, ok) \/ SetPropsDone(i, ok)
    PROVE  Steady
<1> DEFINE o == instn[i]
           n == [o EXCEPT !.conf.val = o.cur.val]
           e == Enqueue(n, Task("aggrUpdate"))
           m == IF SetPropsDone(i, ok) /\ ok THEN e ELSE o
<1>1. Running(i, {"save", "setprops"}) /\ Result(Stash, i, ok) /\ UNCHANGED <<known, aggHas>>
  BY DEF SaveDone, SetPropsDone, svcVars, extVars, Running
<1>2. /\ o \in Objects /\ o.cur # None /\ o.cur.f \in {"save", "setprops"} /\ o.cur \in Tasks
  BY <1>1, RunningAwaits
<1>3. instn' = [instn EXCEPT ![i] = Settle(m)]
  BY <1>1 DEF SaveDone, SetPropsDone, Running
<1>4. n \in Objects
  <2>1. [o.conf EXCEPT !.val = o.cur.val] \in Confs
    BY <1>2 DEF Objects, Confs, Tasks
  <2>2. n = [o EXCEPT !.conf = [o.conf EXCEPT !.val = o.cur.val]]
    OBVIOUS
  <2> QED BY <1>2, <2>1, <2>2 DEF Objects
<1>5. n.where = o.where /\ n.aggr = o.aggr /\ n.tasks = o.tasks /\ n.cur = o.cur
  BY <1>2 DEF Objects
<1>6. Task("aggrUpdate") \in Tasks
  BY TaskFacts
<1> HIDE DEF n, o
<1>7. Sober(o, n) /\ Sober(n, e) /\ e \in Objects /\ e.cur = n.cur
  BY <1>4, <1>5, <1>6, SoberFields, SoberEnqueue
<1> HIDE DEF e
<1>8. Sober(o, e) /\ Sober(o, o)
  BY <1>7, SoberThen, SoberSame
<1>9. Sober(o, m) /\ m \in Objects /\ m.cur = o.cur
  BY <1>2, <1>5, <1>7, <1>8
<1> HIDE DEF m
<1>10. Sober(m, Settle(m))
  BY <1>2, <1>9, SoberSettle DEF Does
<1>11. Sober(o, Settle(m))
  BY <1>9, <1>10, SoberThen
<1> QED BY <1>1, <1>3, <1>11, EndSteady, StashNoAggr DEF o

\* A deletion begins: the aggregator is still to be told.
LEMMA DeleteDoneSteady ==
    ASSUME IInv, LinesInv, svc # "stopping", NEW i \in Instns, NEW ok \in BOOLEAN,
           DeleteDone(i, ok)
    PROVE  Steady
<1> DEFINE o == instn[i]
           d == [o EXCEPT !.where = "dead", !.zones = {}]
           n == [d EXCEPT !.tasks = <<>>]
           e == Enqueue(n, Task("aggrDisable"))
           m == Enqueue(e, Task("instrsUpdate"))
           u == [o EXCEPT !.deleted = FALSE]
<1>1. /\ Running(i, {"delete"}) /\ Result(Stash, i, ok) /\ UNCHANGED <<known, aggHas>>
      /\ instn' = [instn EXCEPT ![i] = IF ok THEN Settle(m) ELSE Settle(u)]
  BY DEF DeleteDone, svcVars, extVars, Flush
<1>2. ObjectInv(i, o) /\ o \in Objects /\ o.cur # None /\ o.cur.f = "delete"
  BY <1>1, RunningAwaits DEF IInv, ObjectsInv
<1>3. o.where \notin {"dead", "none"}
  BY <1>2 DEF ObjectInv, DeadOK, DeadFuncs, Placed
<1>4. /\ n \in Objects /\ n.where = "dead" /\ n.aggr = o.aggr /\ n.cur = o.cur
  BY <1>2, EmptySeq DEF Objects, Zones
<1>5. u \in Objects /\ u.where = o.where /\ u.aggr = o.aggr /\ u.tasks = o.tasks /\ u.cur = o.cur
  BY <1>2 DEF Objects
<1>6. /\ Task("aggrDisable") \in Tasks /\ Task("aggrDisable").f = "aggrDisable"
      /\ Task("instrsUpdate") \in Tasks
  BY TaskFacts
<1> HIDE DEF n, u, o
<1>7. /\ e \in Objects /\ e.where = "dead" /\ e.aggr = o.aggr /\ e.cur = o.cur
      /\ Has(e, "aggrDisable")
  BY <1>4, <1>6, SoberEnqueue
<1> HIDE DEF e
<1>8. /\ m \in Objects /\ m.where = "dead" /\ m.aggr = o.aggr /\ m.cur = o.cur
      /\ Has(m, "aggrDisable")
  BY <1>6, <1>7, SoberEnqueue
<1> HIDE DEF m
<1>9. Sober(o, m) /\ Sober(o, u)
  BY <1>2, <1>3, <1>5, <1>8, SoberFields DEF Sober, Does, Quitting
<1>10. Sober(m, Settle(m)) /\ Sober(u, Settle(u))
  BY <1>2, <1>5, <1>8, SoberSettle DEF Does
<1>11. Sober(o, Settle(m)) /\ Sober(o, Settle(u))
  BY <1>9, <1>10, SoberThen
<1> QED BY <1>1, <1>11, EndSteady, StashNoAggr DEF o

LEMMA ZonesSteady ==
    ASSUME IInv, NEW i \in Instns,
           ZonesFail(i) \/ \E zs \in SUBSET Hosts : ZonesDone(i, zs)
    PROVE  Steady
<1> DEFINE o == instn[i]
<1>1. /\ Running(i, {"zonesUpdate"}) /\ UNCHANGED <<net, inq, known, aggHas>>
  BY DEF ZonesFail, ZonesDone, svcVars, extVars, msgVars
<1>2. o \in Objects /\ o.cur # None /\ o.cur.f = "zonesUpdate"
  BY <1>1, RunningAwaits
<1>3. /\ Task("save") \in Tasks /\ Task("instrsUpdate") \in Tasks /\ Task("zonesUpdate") \in Tasks
  BY TaskFacts
<1>4. ASSUME NEW m \in Objects, Sober(o, m), m.cur = o.cur,
             instn' = [instn EXCEPT ![i] = Settle(m)]
      PROVE  Steady
  <2>1. Sober(m, Settle(m))
    BY <1>2, <1>4, SoberSettle DEF Does
  <2>2. Sober(o, Settle(m))
    BY <1>4, <2>1, SoberThen
  <2> QED BY <1>1, <1>4, <2>2, SteadyOne
<1>5. CASE ZonesFail(i)
  <2> DEFINE e == Enqueue(o, Task("zonesUpdate"))
  <2>1. instn' = [instn EXCEPT ![i] = Settle(e)]
    BY <1>5 DEF ZonesFail
  <2>2. Sober(o, e) /\ e \in Objects /\ e.cur = o.cur
    BY <1>2, <1>3, SoberEnqueue
  <2> HIDE DEF e
  <2> QED BY <1>4, <2>1, <2>2
<1>6. ASSUME NEW zs \in SUBSET Hosts, ZonesDone(i, zs) PROVE Steady
  <2> DEFINE z == [o EXCEPT !.zones = zs]
             e == Enqueue(z, Task("save"))
             m == Enqueue(e, Task("instrsUpdate"))
  <2>1. instn' = [instn EXCEPT ![i] = Settle(m)]
    BY <1>6 DEF ZonesDone
  <2>2. z \in Objects /\ z.where = o.where /\ z.aggr = o.aggr /\ z.tasks = o.tasks /\ z.cur = o.cur
    BY <1>2 DEF Objects, Zones
  <2> HIDE DEF z
  <2>3. Sober(o, z) /\ Sober(z, e) /\ e \in Objects /\ e.cur = z.cur
    BY <1>3, <2>2, SoberFields, SoberEnqueue
  <2> HIDE DEF e
  <2>4. Sober(e, m) /\ m \in Objects /\ m.cur = e.cur
    BY <1>3, <2>3, SoberEnqueue
  <2> HIDE DEF m
  <2>5. Sober(o, m)
    BY <2>3, <2>4, SoberThen
  <2> QED BY <1>4, <2>1, <2>2, <2>3, <2>4, <2>5
<1> QED BY <1>5, <1>6

LEMMA InstrDoneSteady ==
    ASSUME IInv, LinesInv, NEW i \in Instns, NEW h \in Hosts, NEW ok \in BOOLEAN,
           InstrDone(i, h, ok)
    PROVE  Steady
<1> DEFINE b == instn[i]
           o == [b EXCEPT !.wait = @ \ {h},
                          !.state[h] = IF ~ok THEN @ ELSE IF h \in b.want THEN "on" ELSE "absent"]
           n == IF o.wait = {} THEN Settle(o) ELSE o
<1>1. /\ Running(i, {"instrsUpdate"}) /\ Result(h, i, ok)
      /\ UNCHANGED <<known, aggHas>> /\ instn' = [instn EXCEPT ![i] = n]
  BY DEF InstrDone, svcVars, extVars
<1>2. b \in Objects /\ b.cur # None /\ b.cur.f = "instrsUpdate"
  BY <1>1, RunningAwaits
<1>3. o \in Objects /\ o.where = b.where /\ o.aggr = b.aggr /\ o.tasks = b.tasks /\ o.cur = b.cur
  BY <1>2 DEF Objects
<1> HIDE DEF o, b
<1>4. Sober(b, o) /\ Sober(o, Settle(o))
  BY <1>2, <1>3, SoberFields, SoberSettle DEF Does
<1>5. Sober(b, Settle(o))
  BY <1>4, SoberThen
<1>6. Sober(b, n)
  BY <1>4, <1>5
<1> HIDE DEF n
<1> QED BY <1>1, <1>6, EndSteady, StashNoAggr DEF b

-----------------------------------------------------------------------------
(* ... and the steps of others.                                            *)

LEMMA HttpSteady ==
    ASSUME IInv, NEW i \in Instns, Http(i)
    PROVE  Steady
<1>1. PICK t \in Tasks : HttpTask(i, t)
  <2>1. /\ Task("delete") \in Tasks /\ Request("delete", None) \in Tasks
        /\ \A v \in PropVals : Request("setprops", v) \in Tasks
    BY TaskType DEF Funcs, StashFuncs
  <2> QED BY <2>1 DEF Http, HttpDelete, Reap, HttpSetProps
<1>2. /\ instn' = [instn EXCEPT ![i] = Enqueue(instn[i], t)]
      /\ UNCHANGED <<known, aggHas, net, inq>>
  BY <1>1 DEF HttpTask, svcVars, extVars, msgVars
<1>3. Sober(instn[i], Enqueue(instn[i], t))
  BY SoberEnqueue, ChannelTypes
<1> QED BY <1>2, <1>3, SteadyOne

\* The aggregator of a new instrumentation has been heard from.
LEMMA NewSteady ==
    ASSUME IInv, LInv, NEW s \in Scopes, NEW v \in PropVals, HttpCreate(s, v)
    PROVE  Steady
<1> DEFINE i == <<s, nextid[s]>>
           b(a) == [Blank EXCEPT !.where = "creating", !.aggr = a, !.conf.val = v]
           n(a) == Enqueue(b(a), Request("create", None))
<1>1. /\ i \in Instns /\ instn[i].where = "none" /\ UNCHANGED <<known, aggHas, net, inq>>
  BY HttpCreateObject DEF HttpCreate, extVars
<1>2. UNCHANGED instn \/ \E a \in Aggrs \cap known : instn' = [instn EXCEPT ![i] = n(a)]
  BY DEF HttpCreate
<1>3. CASE UNCHANGED instn
  BY <1>1, <1>3, SoberSame DEF Steady, Still
<1>4. ASSUME NEW a \in Aggrs \cap known, instn' = [instn EXCEPT ![i] = n(a)] PROVE Steady
  <2>1. /\ b(a).where = "creating" /\ b(a).cur = None /\ b(a).aggr = a
    BY DEF Blank
  <2>2. n(a).where = "creating" /\ n(a).cur = None /\ n(a).aggr = a
    <3>1. \A x : [b(a) EXCEPT !.tasks = x].where = b(a).where
              /\ [b(a) EXCEPT !.tasks = x].cur = b(a).cur
              /\ [b(a) EXCEPT !.tasks = x].aggr = b(a).aggr
      BY DEF Blank
    <3> HIDE DEF b
    <3> QED BY <2>1, <3>1 DEF Enqueue
  <2> DEFINE m == n(a)
  <2>3. instn' = [instn EXCEPT ![i] = m] /\ New(instn[i], m)
    BY <1>1, <1>4, <2>2 DEF New
  <2> HIDE DEF m, i, b, n
  <2> QED BY <1>1, <2>3, SteadyOne
<1> QED BY <1>2, <1>3, <1>4

\* A message that is no answer is read: the answers stay.
LEMMA ReadStill ==
    ASSUME IInv, LinesInv, SameChannels, UNCHANGED aggHas
    PROVE  \A i \in Instns, a \in Aggrs : Still(i, a)
<1> SUFFICES ASSUME NEW i \in Instns, NEW a \in Aggrs PROVE Still(i, a)
  OBVIOUS
<1>1. a \in Targets /\ Once(inq[a], i)
  BY OtherHosts DEF LinesInv, Lines, Line
<1> QED BY <1>1 DEF SameChannels, Still

LEMMA OnlineSteady ==
    ASSUME IInv, LinesInv, NEW t \in Targets,
           (t \in Aggrs /\ AggOnline(t)) \/ (t \in Hosts /\ \E ok \in Metadata : HostOnline(t, ok))
    PROVE  Steady
<1>1. /\ inq[t] # <<>> /\ Head(inq[t]) = Online /\ inq' = [inq EXCEPT ![t] = Tail(@)]
      /\ UNCHANGED <<net, aggHas>> /\ known \subseteq known'
  BY DEF AggOnline, HostOnline, Heard, extVars
<1>2. \A i \in Instns, a \in Aggrs : Still(i, a)
  BY <1>1, ReadChannels, ReadStill
<1>3. /\ Task("aggrUpdate") \in Tasks /\ Task("zonesUpdate") \in Tasks
      /\ Task("instrsUpdate") \in Tasks
  BY TaskFacts
<1>4. ASSUME NEW i \in Instns PROVE Sober(instn[i], instn'[i])
  <2> DEFINE o == instn[i] e == Refreshed(i, t)
             z == [e EXCEPT !.state[t] = "off"]
             f == Enqueue(z, Task("instrsUpdate"))
  <2>1. o \in Objects
    BY ChannelTypes
  <2>2. CASE t \in Aggrs /\ AggOnline(t)
    <3>1. instn'[i] \in {o, Enqueue(o, Task("aggrUpdate"))}
      BY <2>2 DEF AggOnline
    <3> QED BY <1>3, <2>1, <3>1, SoberEnqueue, SoberSame
  <2>3. ASSUME t \in Hosts, NEW ok \in Metadata, HostOnline(t, ok) PROVE Sober(o, instn'[i])
    <3>1. instn'[i] \in {o, e, f}
      BY <2>3 DEF HostOnline, Restarted
    <3>2. Sober(o, e) /\ e \in Objects
      BY <1>3, <2>1, SoberEnqueue, SoberSame DEF Refreshed
    <3> HIDE DEF e, o
    <3>3. z \in Objects /\ z.where = e.where /\ z.aggr = e.aggr /\ z.tasks = e.tasks
          /\ z.cur = e.cur
      BY <2>3, <3>2 DEF Objects
    <3> HIDE DEF z
    <3>4. Sober(e, z) /\ Sober(z, f)
      BY <1>3, <3>3, SoberFields, SoberEnqueue
    <3> HIDE DEF f
    <3> QED BY <3>1, <3>2, <3>4, SoberSame, SoberThen
  <2> QED BY <2>2, <2>3
<1> QED BY <1>1, <1>2, <1>4 DEF Steady

\* The targets, but for what an aggregator loses or carries out.
LEMMA OtherSteady ==
    ASSUME IInv, LinesInv, NEW t \in Targets,
           \/ Announce(t) \/ TargetUp(t) \/ DropLate(t) \/ (t \notin Aggrs /\ TargetDown(t))
           \/ \E i \in Instns : (t \notin Aggrs /\ Execute(t, i))
    PROVE  Steady
<1>1. UNCHANGED <<instn, known, aggHas>>
  BY DEF Announce, TargetUp, TargetDown, DropLate, Execute, StashCarry, HostCarry, svcVars, extVars
<1>2. \A i \in Instns, a \in Aggrs : Still(i, a)
  <2>1. CASE Announce(t) \/ TargetUp(t)
    BY <2>1, <1>1, ArriveChannels, ReadStill DEF Announce, TargetUp
  <2>2. CASE DropLate(t)
    BY <2>2, <1>1, ReadChannels, ReadStill DEF DropLate
  <2>3. CASE t \notin Aggrs /\ TargetDown(t)
    <3>1. UNCHANGED inq /\ \A u \in Targets : u # t => net'[u] = net[u]
      BY <2>3, <1>1, DownLines DEF TargetDown
    <3> QED BY <1>1, <2>3, <3>1, OtherHosts DEF Still
  <2>4. ASSUME NEW i \in Instns, t \notin Aggrs, Execute(t, i)
        PROVE  \A j \in Instns, a \in Aggrs : Still(j, a)
    <3>1. Carry(t, i)
      BY <2>4 DEF Execute, StashCarry, HostCarry
    <3>2. \A u \in Targets : u # t => net'[u] = net[u] /\ inq'[u] = inq[u]
      BY <1>1, <3>1, CarryLines
    <3> QED BY <1>1, <2>4, <3>2, OtherHosts DEF Still
  <2> QED BY <2>1, <2>2, <2>3, <2>4
<1> QED BY <1>1, <1>2, SoberSame DEF Steady

LEMMA BootSteady ==
    ASSUME Start \/ LoadList
    PROVE  Steady
<1>1. UNCHANGED <<instn, net, inq, known, aggHas>>
  BY DEF Start, LoadList, msgVars, extVars
<1> QED BY <1>1, SoberSame DEF Steady, Still

-----------------------------------------------------------------------------
(* The steps that tell an aggregator, or that it carries out or loses.     *)

LEMMA DefusedQueue ==
    ASSUME NEW t, NEW q \in Seq(Messages(t)), Defused(q)
    PROVE  /\ Defused(Forget(q))
           /\ q # <<>> => Defused(Tail(q)) /\ (Head(q).op = "disable" => Head(q).arg = None)
           /\ \A m \in Messages(t) : (m.op = "disable" => m.arg = None) => Defused(Append(q, m))
<1>1. /\ Len(q) \in Nat /\ DOMAIN q = 1..Len(q) /\ DOMAIN Forget(q) = DOMAIN q
      /\ \A k \in DOMAIN q : q[k] \in Messages(t)
  BY LenProperties DEF Forget
<1>2. Defused(Forget(q))
  <2>1. ASSUME NEW k \in DOMAIN q PROVE Forget(q)[k].op = q[k].op /\ Forget(q)[k].arg = q[k].arg
    <3>1. q[k] \in Messages(t) /\ Forget(q)[k] = [q[k] EXCEPT !.live = FALSE]
      BY <1>1, <2>1 DEF Forget
    <3> QED BY <3>1 DEF Messages
  <2> HIDE DEF Forget
  <2> QED BY <1>1, <2>1 DEF Defused
<1>3. ASSUME q # <<>>
      PROVE  Defused(Tail(q)) /\ (Head(q).op = "disable" => Head(q).arg = None)
  <2>1. /\ Tail(q) \in Seq(Messages(t)) /\ Len(q) \in Nat \ {0} /\ Len(Tail(q)) = Len(q) - 1
        /\ \A k \in 1..Len(Tail(q)) : Tail(q)[k] = q[k + 1]
        /\ Head(q) = q[1]
    BY <1>3, HeadTailProperties, EmptySeq
  <2>2. \A k \in DOMAIN Tail(q) : k + 1 \in DOMAIN q /\ Tail(q)[k] = q[k + 1]
    BY <1>1, <2>1, LenProperties
  <2>3. Defused(Tail(q))
    <3> DEFINE p == Tail(q)
    <3> HIDE DEF p
    <3> QED BY <2>2 DEF Defused, p
  <2>4. 1 \in DOMAIN q
    BY <1>1, <2>1
  <2> QED BY <2>1, <2>3, <2>4 DEF Defused
<1>4. ASSUME NEW m \in Messages(t), m.op = "disable" => m.arg = None
      PROVE  Defused(Append(q, m))
  <2>1. /\ DOMAIN Append(q, m) = 1..(Len(q) + 1)
        /\ \A k \in 1..Len(q) : Append(q, m)[k] = q[k]
        /\ Append(q, m)[Len(q) + 1] = m
    BY AppendProperties, LenProperties
  <2>2. \A k \in DOMAIN Append(q, m) : Append(q, m)[k] = m
                                       \/ (k \in DOMAIN q /\ Append(q, m)[k] = q[k])
    BY <1>1, <2>1
  <2> DEFINE p == Append(q, m)
  <2> HIDE DEF p
  <2> QED BY <1>4, <2>2 DEF Defused, p
<1> QED BY <1>2, <1>3, <1>4

LEMMA ResultDefused ==
    ASSUME IInv, NEW i \in Instns, NEW t \in Targets, NEW ok, Result(t, i, ok),
           Defused(net[t][i])
    PROVE  Defused(net'[t][i])
<1>1. net[t][i] \in Seq(Messages(t)) /\ net[t] \in [Instns -> Seq(Messages(t))]
      /\ net = [u \in Targets |-> net[u]]
  BY ChannelTypes
<1>2. net'[t][i] \in {net[t][i], Forget(net[t][i])}
        \/ (net[t][i] # <<>> /\ net'[t][i] = Tail(net[t][i]))
  BY <1>1 DEF Result, Acknowledged, Failed, Refused, LateAnswer, NoAnswer
<1> QED BY <1>1, <1>2, DefusedQueue

\* What is left of where an instrumentation is aggregated.
Rooted ==
    /\ known \subseteq known'
    /\ \A i \in Instns : instn'[i].where # "none" =>
           \/ instn'[i].aggr \in known
           \/ instn[i].where # "none" /\ instn'[i].aggr = instn[i].aggr

LEMMA SteadyRooted == Steady => Rooted
BY DEF Steady, Rooted, Sober, New

LEMMA OneRooted ==
    ASSUME IInv, NEW i \in Instns, NEW n, instn' = [instn EXCEPT ![i] = n], UNCHANGED known,
           n.where # "none" => instn[i].where # "none" /\ n.aggr = instn[i].aggr
    PROVE  Rooted
BY ChannelTypes DEF Rooted

\* What is loaded quits nothing, and its aggregator is known.
LEMMA LoadFetchQuits ==
    ASSUME IInv, LinesInv, FirstInv, LoadFetch
    PROVE  QuitsInv' /\ Leaves /\ Rooted
<1> DEFINE found == {i \in listed : disk[i] # None}
           taken == {i \in found : instn[i].where # "none"}
<1>1. /\ instn' = [i \in Instns |-> IF i \in found THEN Loaded(i) ELSE instn[i]]
      /\ UNCHANGED <<known, aggHas>>
      /\ net' = [t \in Targets |-> [i \in Instns |-> IF i \in taken THEN Forget(net[t][i])
                                                      ELSE net[t][i]]]
  BY DEF LoadFetch, extVars
<1>2. ASSUME NEW i \in Instns
      PROVE  /\ i \notin found => instn'[i] = instn[i]
             /\ i \in found => /\ instn'[i].where = "live" /\ instn'[i].cur = None
                               /\ instn'[i].aggr \in known
  <2>1. i \in found => /\ Loaded(i).where = "live" /\ Loaded(i).cur = None
                       /\ Loaded(i).aggr = disk[i].aggr
    BY LoadedFields
  <2>2. i \in found => disk[i].aggr \in known
    BY DEF FirstInv, FirstLife
  <2> QED BY <1>1, <2>1, <2>2
<1>3. ASSUME NEW i \in Instns, NEW a \in Aggrs
      PROVE  /\ HasAck(inq'[a], i) => i \notin found /\ HasAck(inq[a], i)
             /\ i \notin found => net'[a][i] = net[a][i]
             /\ Defused(net'[a][i])
  <2>1. a \in Targets
    BY OtherHosts
  <2>2. net'[a][i] \in {net[a][i], Forget(net[a][i])}
    BY <1>1, <2>1
  <2>3. Defused(net[a][i]) /\ net[a][i] \in Seq(Messages(a))
    BY <2>1, ChannelTypes DEF FirstInv, QuitsInv, Quits, Disarmed
  <2>4. Defused(Forget(net[a][i]))
    BY <2>3, DefusedQueue
  <2>5. /\ Open(i, net'[a][i], inq'[a]) => i \notin found
        /\ i \notin found => /\ net'[a][i] = net[a][i]
                             /\ HasAck(inq'[a], i) <=> HasAck(inq[a], i)
    BY <2>1, LoadFetchLine
  <2> QED BY <2>2, <2>3, <2>4, <2>5 DEF Open
<1> HIDE DEF found
<1>4. ASSUME NEW i \in Instns, NEW a \in Aggrs
      PROVE  Quits(i, a, instn'[i], net'[a][i], inq'[a], aggHas'[a][i])
  <2>1. CASE i \in found
    <3>1. instn'[i].where = "live" /\ instn'[i].cur = None /\ Defused(net'[a][i])
      BY <1>2, <1>3, <2>1
    <3> QED BY <3>1 DEF Quits, Disarmed, Cleaned, Does
  <2>2. CASE i \notin found
    <3>1. /\ instn'[i] = instn[i] /\ net'[a][i] = net[a][i]
          /\ HasAck(inq'[a], i) => HasAck(inq[a], i)
      BY <1>2, <1>3, <2>2
    <3>2. Quits(i, a, instn[i], net[a][i], inq[a], aggHas[a][i])
      BY DEF FirstInv, QuitsInv
    <3> QED BY <1>1, <3>1, <3>2 DEF Quits, Disarmed
  <2> QED BY <2>1, <2>2
<1>5. Leaves
  BY <1>2 DEF Leaves
<1>6. Rooted
  BY <1>1, <1>2 DEF Rooted
<1> QED BY <1>4, <1>5, <1>6 DEF QuitsInv

LEMMA StartAggrQuits ==
    ASSUME IInv, LinesInv, QuitsInv, FirstLife, NEW i \in Instns, StartAggr(i)
    PROVE  QuitsInv' /\ Leaves /\ Rooted
<1> DEFINE o == Shifted(i)
           cmd == IF o.cur.f = "aggrUpdate" THEN Command("enable", o.conf)
                  ELSE Command("disable", None)
           cmds == [t \in {o.aggr} |-> cmd]
           n == [o EXCEPT !.wait = {o.aggr}]
<1>1. /\ Ready(i, {"aggrUpdate", "aggrDisable"}) /\ UNCHANGED <<inq, aggHas, known>>
      /\ instn[i].cur = None
  BY DEF StartAggr, Ready, svcVars, extVars
<1>2. /\ instn[i] \in Objects /\ o \in Objects /\ Alike(instn[i], o)
      /\ o.cur # None /\ o.cur.f \in {"aggrUpdate", "aggrDisable"} /\ o.aggr \in Aggrs
  BY <1>1, ShiftedAlike
<1>3. /\ ObjectInv(i, instn[i]) /\ instn[i].where # "none"
      /\ instn[i].where = "dead" => o.cur.f = "aggrDisable"
  <2>1. ObjectInv(i, instn[i]) /\ instn[i].tasks # <<>>
    BY <1>1, ReadyObject
  <2>2. o.cur = instn[i].tasks[1] /\ 1 \in DOMAIN instn[i].tasks
    BY <2>1, ShiftedObject
  <2> HIDE DEF o
  <2> QED BY <1>2, <2>1, <2>2 DEF ObjectInv, Placed, DeadOK, DeadFuncs
<1>4. o.aggr \in known
  BY <1>2, <1>3 DEF FirstLife, Alike
<1>5. instn' = [instn EXCEPT ![i] = n] /\ Send(cmds, i)
  BY <1>4 DEF StartAggr
<1>6. cmd \in Messages(o.aggr) /\ (cmd.op = "disable" => cmd.arg = None)
      /\ (o.cur.f = "aggrDisable" => cmd.op = "disable")
  BY <1>2, OtherHosts DEF Command, Messages, Objects
<1>7. DOMAIN cmds = {o.aggr} /\ cmds[o.aggr] = cmd
  OBVIOUS
<1>8. /\ n.where = instn[i].where /\ n.aggr = o.aggr /\ n.tasks = o.tasks /\ n.cur = o.cur
      /\ n.wait = {o.aggr} /\ o.aggr = instn[i].aggr
  BY <1>2 DEF Objects, Alike
<1> HIDE DEF cmds, cmd, n, o
<1>9. Awaited(n) = {o.aggr}
  BY <1>2, <1>8 DEF Awaited, AggrFuncs, StashFuncs
<1>10. /\ Others(i)
       /\ \A t \in Targets : t # o.aggr => net'[t] = net[t]
       /\ \A t \in Targets : LiveOps(net[t][i], "none") /\ ~HasAck(inq[t], i)
       /\ LiveOps(net'[o.aggr][i], cmd.op)
  <2>1. \A t \in Targets \cap DOMAIN cmds : cmds[t] \in Messages(t)
    BY <1>6, <1>7
  <2>2. DOMAIN cmds \subseteq n.wait /\ n.wait \subseteq Awaited(n)
    BY <1>7, <1>8, <1>9
  <2>3. /\ Others(i)
        /\ \A t \in Targets \ DOMAIN cmds : net'[t] = net[t]
        /\ \A t \in Targets : LiveOps(net[t][i], "none")
        /\ \A t \in Targets \cap DOMAIN cmds : LiveOps(net'[t][i], cmds[t].op)
        /\ \A t \in Targets : ~HasAck(inq[t], i)
    BY <1>1, <1>5, <2>1, <2>2, SendLines
  <2> QED BY <1>2, <1>7, <2>3, OtherHosts
<1>11. Defused(net'[o.aggr][i])
  <2>1. net'[o.aggr][i] \in {net[o.aggr][i], Append(net[o.aggr][i], cmd)}
    BY <1>2, <1>5, <1>7, ChannelTypes, OtherHosts DEF Send
  <2>2. Defused(net[o.aggr][i]) /\ net[o.aggr][i] \in Seq(Messages(o.aggr))
    BY <1>2, ChannelTypes, OtherHosts DEF QuitsInv, Quits, Disarmed
  <2> QED BY <1>6, <2>1, <2>2, DefusedQueue
<1>12. ASSUME NEW a \in Aggrs PROVE Quits(i, a, n, net'[a][i], inq'[a], aggHas'[a][i])
  <2>1. a \in Targets
    BY OtherHosts
  <2>2. Defused(net'[a][i])
    BY <1>10, <1>11, <2>1 DEF QuitsInv, Quits, Disarmed
  <2>3. n.cur.f = "aggrDisable" => LiveOps(net'[a][i], "disable")
    <3>1. CASE a = o.aggr
      BY <1>6, <1>8, <1>10, <3>1
    <3>2. CASE a # o.aggr
      <4>1. /\ net'[a][i] = net[a][i] /\ LiveOps(net[a][i], "none")
            /\ net[a][i] \in Seq(Messages(a))
        BY <1>10, <2>1, <3>2, ChannelTypes
      <4>2. \A k \in DOMAIN net[a][i] : net[a][i][k] \in Messages(a)
        BY <4>1
      <4> QED BY <4>1, <4>2 DEF LiveOps, Messages
    <3> QED BY <3>1, <3>2
  <2>4. ~HasAck(inq'[a], i)
    BY <1>1, <1>10, <2>1
  <2>5. n.where = "dead" => Quitting(n)
    BY <1>2, <1>3, <1>8 DEF Quitting, Does
  <2> QED BY <2>2, <2>3, <2>4, <2>5 DEF Quits, Disarmed, Cleaned, Does
<1>13. \A j \in Instns, a \in Aggrs : j # i => Still(j, a)
  BY <1>1, <1>10, OtherHosts DEF Others, Still
<1>14. QuitsInv' /\ Leaves
  BY <1>3, <1>5, <1>8, <1>12, <1>13, OneQuits
<1> QED BY <1>1, <1>3, <1>5, <1>8, <1>14, OneRooted

\* A disable that failed is tried again; one that succeeded leaves nothing.
LEMMA AggrDoneQuits ==
    ASSUME IInv, LinesInv, QuitsInv, FirstLife, NEW i \in Instns, NEW ok \in BOOLEAN,
           AggrDone(i, ok)
    PROVE  QuitsInv' /\ Leaves /\ Rooted
<1> DEFINE o == instn[i]
           d == Enqueue(o, Task("aggrDisable"))
           e == Retried(o, ok)
           n == Settle(e)
<1>1. /\ Running(i, AggrFuncs) /\ Result(o.aggr, i, ok) /\ UNCHANGED <<aggHas, known>>
      /\ instn' = [instn EXCEPT ![i] = n]
  BY DEF AggrDone, svcVars, extVars, AggrFuncs
<1>2. /\ o \in Objects /\ o.cur # None /\ o.cur.f \in AggrFuncs /\ o.aggr \in Aggrs
      /\ o.aggr \in Targets /\ o.where # "none"
      /\ o.where = "dead" => o.cur.f = "aggrDisable"
  <2>1. ObjectInv(i, o)
    BY DEF IInv, ObjectsInv
  <2>2. o \in Objects /\ o.cur # None /\ o.cur.f \in AggrFuncs /\ o.aggr \in Aggrs
    BY <1>1, RunningAwaits
  <2> HIDE DEF o
  <2> QED BY <2>1, <2>2, OtherHosts DEF ObjectInv, Placed, DeadOK, DeadFuncs, AggrFuncs
<1>3. /\ d \in Objects /\ d.where = o.where /\ d.aggr = o.aggr /\ Has(d, "aggrDisable")
  <2>1. Task("aggrDisable") \in Tasks /\ Task("aggrDisable").f = "aggrDisable"
    BY TaskFacts
  <2>2. svc # "stopping"
    BY DEF FirstLife
  <2> HIDE DEF o
  <2> QED BY <1>2, <2>1, <2>2, SoberEnqueue
<1>4. o.cur.f = "aggrDisable" /\ ~ok => e = d
  BY DEF Retried
<1>5. ok \/ o.cur.f = "aggrUpdate" => e = o
  BY DEF Retried
<1> DEFINE q == net[o.aggr][i] r == inq[o.aggr] p == net'[o.aggr][i] has == aggHas[o.aggr][i]
<1>6. /\ Quits(i, o.aggr, o, q, r, has) /\ Line(i, q, r)
      /\ \A a \in Aggrs : Defused(net[a][i])
  BY <1>2 DEF QuitsInv, Quits, Disarmed, LinesInv, Lines
<1>7. /\ Alone(i, o.aggr)
      /\ ok => HasAck(r, i)
      /\ q = <<>> => p = <<>>
      /\ \A u \in Targets : u # o.aggr => net'[u] = net[u] /\ inq'[u] = inq[u]
  BY <1>1, <1>2, ResultLine
<1>8. \A a \in Aggrs : Defused(net'[a][i])
  BY <1>1, <1>2, <1>6, <1>7, ResultDefused, OtherHosts
<1>9. \A j \in Instns, a \in Aggrs : j # i => Still(j, a)
  BY <1>1, <1>7, OtherHosts DEF Alone, Still, LinesInv, Lines, Line
<1>10. o.cur.f = "aggrDisable" /\ ok => Clean(p, has)
  <2>1. ~ok \/ (q = <<>> /\ p = <<>>)
    BY <1>6, <1>7 DEF Line
  <2> HIDE DEF q, r, p, has, o
  <2> QED BY <1>2, <1>6, <1>7, <2>1 DEF Quits, Disarmed, Does, Clean, AllOps
<1> HIDE DEF d, e
<1>11. /\ ~Does(n, "aggrDisable")
       /\ n.where # "none" => n.where = o.where /\ n.aggr = o.aggr
       /\ n.where = "dead" /\ ~Quitting(n) => o.cur.f = "aggrDisable" /\ ok
       /\ o.where = "dead" /\ n.where = "none" => o.cur.f = "aggrDisable" /\ ok
  <2> DEFINE m == [e EXCEPT !.cur = None, !.wait = {}]
  <2>1. e \in Objects /\ e.where = o.where /\ e.aggr = o.aggr
    BY <1>2, <1>3, <1>4, <1>5 DEF AggrFuncs
  <2>2. m.where = e.where /\ m.cur = None /\ m.aggr = e.aggr /\ m.tasks = e.tasks
    BY <2>1 DEF Objects
  <2>3. n = IF e.where = "dead" /\ e.tasks = <<>> THEN Blank ELSE m
    BY DEF Settle
  <2>4. Blank.where = "none" /\ Blank.cur = None
    BY DEF Blank
  <2> HIDE DEF m, n, o, Blank
  <2>5. o.where = "dead" /\ ~ok => Has(e, "aggrDisable")
    BY <1>2, <1>3, <1>4
  <2> QED BY <1>2, <2>1, <2>2, <2>3, <2>4, <2>5 DEF Quitting, Has, Does
<1> HIDE DEF n
<1>12. ASSUME NEW a \in Aggrs PROVE Quits(i, a, n, net'[a][i], inq'[a], aggHas'[a][i])
  <2>1. n.aggr = a /\ n.where = "dead" /\ ~Quitting(n) => Clean(net'[a][i], aggHas[a][i])
    BY <1>10, <1>11
  <2> QED BY <1>1, <1>8, <1>11, <2>1 DEF Quits, Disarmed, Cleaned
<1>13. QuitsInv' /\ Leaves
  <2>1. o.where = "dead" /\ n.where = "none" => Clean(net'[o.aggr][i], aggHas'[o.aggr][i])
    BY <1>1, <1>10, <1>11
  <2> QED BY <1>1, <1>9, <1>12, <2>1, OneQuits
<1> QED BY <1>1, <1>2, <1>11, <1>13, OneRooted

LEMMA AggCarryQuits ==
    ASSUME IInv, LinesInv, QuitsInv, NEW i \in Instns, NEW a \in Aggrs, AggCarry(a, i)
    PROVE  QuitsInv' /\ Leaves /\ Rooted
<1> DEFINE q == net[a][i] m == Head(q) o == instn[i]
<1>1. /\ Carry(a, i) /\ UNCHANGED <<instn, known>> /\ a \in Targets
      /\ aggHas' = [aggHas EXCEPT ![a][i] = m.arg]
  BY OtherHosts DEF AggCarry, svcVars
<1>2. /\ q # <<>> /\ q \in Seq(Messages(a)) /\ LastLive(q)
      /\ aggHas \in [Aggrs -> [Instns -> Confs \cup {None}]]
  BY <1>1, ChannelTypes DEF Carry, LinesInv, Lines, Line, IInv, TypeOK, ExternalType
<1>3. /\ net'[a][i] = Tail(q)
      /\ \A j \in Instns : j # i => net'[a][j] = net[a][j]
      /\ \A u \in Targets : u # a => net'[u] = net[u] /\ inq'[u] = inq[u]
      /\ inq'[a] = (IF m.live THEN Append(inq[a], Ack(i)) ELSE inq[a])
      /\ HasAck(inq'[a], i) => m.live
      /\ LinesInv'
  BY <1>1, CarryLines
<1>4. /\ aggHas'[a][i] = m.arg
      /\ \A j \in Instns, b \in Aggrs : b # a \/ j # i => aggHas'[b][j] = aggHas[b][j]
  BY <1>1, <1>2
<1>5. Quits(i, a, o, q, inq[a], aggHas[a][i])
  BY DEF QuitsInv
<1>6. /\ Defused(Tail(q)) /\ (m.op = "disable" => m.arg = None)
  BY <1>2, <1>5, DefusedQueue DEF Quits, Disarmed
<1>7. /\ \A op : AllOps(q, op) => AllOps(Tail(q), op) /\ m.op = op
      /\ \A op : LiveOps(q, op) => LiveOps(Tail(q), op) /\ (m.live => m.op = op)
  BY <1>2, QueueTail
<1>8. Quits(i, a, o, Tail(q), inq'[a], m.arg)
  <2> HIDE DEF q, m, o
  <2> QED BY <1>3, <1>5, <1>6, <1>7 DEF Quits, Disarmed, Cleaned, Clean
<1>9. ASSUME NEW j \in Instns, j # i PROVE HasAck(inq'[a], j) => HasAck(inq[a], j)
  <2>1. CASE ~m.live
    BY <1>3, <2>1
  <2>2. CASE m.live
    <3> DEFINE r == inq[a]
    <3>1. inq'[a] = Append(r, Ack(i)) /\ r \in Seq(Replies) /\ Once(r, i) /\ Once(r, j)
      BY <1>1, <1>3, <2>2, ChannelTypes DEF LinesInv, Lines, Line
    <3>2. ~HasAck(r, i)
      BY <1>1, CarryLines
    <3> HIDE DEF r
    <3>3. HasAck(Append(r, Ack(i)), j) <=> HasAck(r, j)
      BY <1>9, <3>1, <3>2, AckArrives
    <3> QED BY <3>1, <3>3 DEF r
  <2> QED BY <2>1, <2>2
<1>10. \A j \in Instns, b \in Aggrs : j # i => Still(j, b)
  <2> SUFFICES ASSUME NEW j \in Instns, NEW b \in Aggrs, j # i PROVE Still(j, b)
    OBVIOUS
  <2>1. CASE b = a
    BY <1>3, <1>4, <1>9, <2>1 DEF Still
  <2>2. CASE b # a
    BY <1>3, <1>4, <2>2, OtherHosts DEF Still
  <2> QED BY <2>1, <2>2
<1>11. ASSUME NEW b \in Aggrs PROVE Quits(i, b, o, net'[b][i], inq'[b], aggHas'[b][i])
  <2>1. CASE b = a
    BY <1>3, <1>4, <1>8, <2>1
  <2>2. CASE b # a
    BY <1>3, <1>4, <2>2, OtherHosts DEF QuitsInv
  <2> QED BY <2>1, <2>2
<1>12. instn' = [instn EXCEPT ![i] = o]
  BY <1>1, ChannelTypes
<1>13. QuitsInv' /\ Leaves
  BY <1>10, <1>11, <1>12, OneQuits
<1> QED BY <1>1, <1>13 DEF Rooted

LEMMA AggrDownQuits ==
    ASSUME IInv, LinesInv, QuitsInv, NEW a \in Aggrs, TargetDown(a)
    PROVE  QuitsInv' /\ Leaves /\ Rooted
<1>1. /\ UNCHANGED <<instn, known, inq>> /\ a \in Targets
      /\ net' = [net EXCEPT ![a] = [i \in Instns |-> <<>>]]
      /\ aggHas' = [aggHas EXCEPT ![a] = [i \in Instns |-> None]]
      /\ aggHas \in [Aggrs -> [Instns -> Confs \cup {None}]]
  BY OtherHosts DEF TargetDown, svcVars, IInv, TypeOK, ExternalType
<1>2. /\ \A i \in Instns : net'[a][i] = <<>> /\ aggHas'[a][i] = None
      /\ \A u \in Targets : u # a => net'[u] = net[u]
      /\ \A b \in Aggrs : b # a => aggHas'[b] = aggHas[b]
  BY <1>1, DownLines
<1>3. ASSUME NEW i \in Instns, NEW b \in Aggrs
      PROVE  Quits(i, b, instn[i], net'[b][i], inq'[b], aggHas'[b][i])
  <2>1. Quits(i, b, instn[i], net[b][i], inq[b], aggHas[b][i])
    BY DEF QuitsInv
  <2>2. CASE b = a
    BY <1>2, <2>2 DEF Quits, Disarmed, Defused, LiveOps, Cleaned, Clean, AllOps
  <2>3. CASE b # a
    BY <1>1, <1>2, <2>1, <2>3, OtherHosts
  <2> QED BY <2>2, <2>3
<1> QED BY <1>1, <1>3 DEF QuitsInv, Leaves, Rooted

-----------------------------------------------------------------------------
(* All steps of the first life of the service.                             *)

\* Only a crash or a stop of the service is counted as one.
LEMMA CrashCount ==
    ASSUME IInv, [Next]_vars
    PROVE  /\ used.crashes \in Nat
           /\ Crash \/ Stop => used.crashes < MaxCrashes /\ used'.crashes = used.crashes + 1
           /\ ~(Crash \/ Stop) => used'.crashes = used.crashes
<1>1. used \in [{"requests", "early", "timeouts", "rejects", "crashes", "restarts"} -> Nat]
  BY DEF IInv, TypeOK, UsedType, Bounded
<1>2. /\ \A w \in {"requests", "early", "timeouts", "rejects", "restarts"} :
             Use(w) => used'.crashes = used.crashes
      /\ Use("crashes") => used'.crashes = used.crashes + 1
  BY <1>1 DEF Use
<1>3. Crash \/ Stop => used.crashes < MaxCrashes /\ used'.crashes = used.crashes + 1
  BY <1>2 DEF Crash, Stop
<1> DEFINE Kept == used'.crashes = used.crashes
<1>4. UNCHANGED vars => Kept
  BY DEF vars
<1>5. Boot \/ AssertStopped \/ StopDone => Kept
  BY DEF Boot, Start, LoadList, LoadFetch, AssertStopped, StopDone
<1>6. ASSUME NEW s \in Scopes, NEW v \in PropVals, HttpCreate(s, v) PROVE Kept
  BY <1>2, <1>6 DEF HttpCreate, Admit, AdmitEarly
<1>7. \A t, i, ok : Result(t, i, ok) => Kept
  BY <1>2 DEF Result, Acknowledged, Failed, Refused, LateAnswer, NoAnswer
<1>8. ASSUME NEW i \in Instns,
             \/ Http(i) \/ StartTask(i) \/ ZonesFail(i)
             \/ \E ok \in BOOLEAN : EndTask(i, ok)
             \/ \E zs \in SUBSET Hosts : ZonesDone(i, zs)
      PROVE  Kept
  <2>1. CASE Http(i)
    BY <1>2, <2>1 DEF Http, HttpDelete, Reap, HttpSetProps, HttpTask, Admit
  <2>2. CASE StartTask(i)
    BY <2>2 DEF StartTask, StartSave, StartAggr, StartZonesGlobal, StartZonesCust, StartInstrs
  <2>3. CASE ZonesFail(i)
    BY <1>2, <2>3 DEF ZonesFail
  <2>4. ASSUME NEW ok \in BOOLEAN, EndTask(i, ok) PROVE Kept
    <3>1. \E t : Result(t, i, ok)
      BY <2>4 DEF EndTask, CreateDone, SaveDone, SetPropsDone, DeleteDone, AggrDone, InstrDone
    <3> QED BY <1>7, <3>1
  <2>5. ASSUME NEW zs \in SUBSET Hosts, ZonesDone(i, zs) PROVE Kept
    BY <2>5 DEF ZonesDone
  <2> QED BY <1>8, <2>1, <2>2, <2>3, <2>4, <2>5
<1>9. ASSUME NEW t \in Targets,
             \/ Notified(t) \/ Announce(t) \/ TargetDown(t) \/ TargetUp(t)
             \/ \E i \in Instns : Execute(t, i)
      PROVE  Kept
  BY <1>2, <1>9 DEF Notified, AggOnline, HostOnline, DropLate, Announce, TargetDown, TargetUp,
     Execute, StashCarry, AggCarry, HostCarry
<1> QED BY <1>1, <1>3, <1>4, <1>5, <1>6, <1>8, <1>9 DEF Next

LEMMA NamedQueue ==
    ASSUME NEW t, NEW q \in Seq(Messages(t)), NEW kn, Named(q, kn)
    PROVE  /\ Named(Forget(q), kn)
           /\ q # <<>> => Named(Tail(q), kn) /\ (Head(q).arg # None => Head(q).arg.aggr \in kn)
           /\ \A m \in Messages(t) : (m.arg # None => m.arg.aggr \in kn) => Named(Append(q, m), kn)
<1>1. /\ Len(q) \in Nat /\ DOMAIN q = 1..Len(q) /\ DOMAIN Forget(q) = DOMAIN q
      /\ \A k \in DOMAIN q : q[k] \in Messages(t)
  BY LenProperties DEF Forget
<1>2. Named(Forget(q), kn)
  <2>1. ASSUME NEW k \in DOMAIN q PROVE Forget(q)[k].arg = q[k].arg
    <3>1. q[k] \in Messages(t) /\ Forget(q)[k] = [q[k] EXCEPT !.live = FALSE]
      BY <1>1, <2>1 DEF Forget
    <3> QED BY <3>1 DEF Messages
  <2> HIDE DEF Forget
  <2> QED BY <1>1, <2>1 DEF Named
<1>3. ASSUME q # <<>>
      PROVE  Named(Tail(q), kn) /\ (Head(q).arg # None => Head(q).arg.aggr \in kn)
  <2>1. /\ Tail(q) \in Seq(Messages(t)) /\ Len(q) \in Nat \ {0} /\ Len(Tail(q)) = Len(q) - 1
        /\ \A k \in 1..Len(Tail(q)) : Tail(q)[k] = q[k + 1]
        /\ Head(q) = q[1]
    BY <1>3, HeadTailProperties, EmptySeq
  <2>2. \A k \in DOMAIN Tail(q) : k + 1 \in DOMAIN q /\ Tail(q)[k] = q[k + 1]
    BY <1>1, <2>1, LenProperties
  <2>3. Named(Tail(q), kn)
    <3> DEFINE p == Tail(q)
    <3> HIDE DEF p
    <3> QED BY <2>2 DEF Named, p
  <2>4. 1 \in DOMAIN q
    BY <1>1, <2>1
  <2> QED BY <2>1, <2>3, <2>4 DEF Named
<1>4. ASSUME NEW m \in Messages(t), m.arg # None => m.arg.aggr \in kn
      PROVE  Named(Append(q, m), kn)
  <2>1. /\ DOMAIN Append(q, m) = 1..(Len(q) + 1)
        /\ \A k \in 1..Len(q) : Append(q, m)[k] = q[k]
        /\ Append(q, m)[Len(q) + 1] = m
    BY AppendProperties, LenProperties
  <2>2. \A k \in DOMAIN Append(q, m) : Append(q, m)[k] = m
                                       \/ (k \in DOMAIN q /\ Append(q, m)[k] = q[k])
    BY <1>1, <2>1
  <2> DEFINE p == Append(q, m)
  <2> HIDE DEF p
  <2> QED BY <1>4, <2>2 DEF Named, p
<1> QED BY <1>2, <1>3, <1>4

\* What is saved, and what is on its way to the stash.
StashNamed(kn) == \A i \in Instns : /\ disk'[i] # None => disk'[i].aggr \in kn
                                    /\ Named(net'[Stash][i], kn)

\* The commands for one instrumentation change, and nothing is saved.
LEMMA OneNamed ==
    ASSUME IInv, FirstLife, NEW i \in Instns, UNCHANGED disk,
           \A j \in Instns : j # i => net'[Stash][j] = net[Stash][j],
           Named(net'[Stash][i], known)
    PROVE  StashNamed(known)
BY DEF StashNamed, FirstLife

LEMMA SaveNamed ==
    ASSUME IInv, LInv, FirstLife, NEW i \in Instns, StashStep(i)
    PROVE  StashNamed(known)
<1> DEFINE q == net[Stash][i]
<1>1. /\ q \in Seq(Messages(Stash)) /\ Stash \in Targets /\ Named(q, known)
      /\ net = [t \in Targets |-> net[t]] /\ net[Stash] \in [Instns -> Seq(Messages(Stash))]
  BY ChannelTypes, OtherHosts DEF FirstLife
<1>2. CASE StartSave(i)
  <2>1. PICK n, cmd :
              /\ instn' = [instn EXCEPT ![i] = n] /\ Send([t \in {Stash} |-> cmd], i)
              /\ instn[i].cur = None /\ instn[i].where \notin {"none", "dead"}
              /\ n.where = instn[i].where /\ n.aggr = instn[i].aggr
              /\ Saving(n) /\ (Does(n, "delete") => n.deleted) /\ Errand(i, n, delreq)
              /\ \/ n.deleted /\ cmd = Command("del", None)
                 \/ ~n.deleted /\ \E b \in Buckets : b.aggr = instn[i].aggr /\ cmd = Command("put", b)
    BY <1>2, StartSaveObject
  <2>2. cmd \in Messages(Stash) /\ (cmd.arg # None => cmd.arg.aggr \in known)
    <3>1. instn[i].aggr \in known
      BY <2>1 DEF FirstLife
    <3>2. Command("del", None) \in Messages(Stash) /\ Command("del", None).arg = None
      BY DEF Command, Messages
    <3>3. \A b \in Buckets : Command("put", b) \in Messages(Stash) /\ Command("put", b).arg = b
      BY DEF Command, Messages
    <3> QED BY <2>1, <3>1, <3>2, <3>3
  <2>3. /\ \A j \in Instns : j # i => net'[Stash][j] = net[Stash][j]
        /\ net'[Stash][i] = q \/ net'[Stash][i] = Append(q, cmd)
    <3>1. CASE Stash \in up
      BY <1>1, <2>1, <3>1 DEF Send
    <3>2. CASE Stash \notin up
      BY <1>1, <2>1, <3>2 DEF Send
    <3> QED BY <3>1, <3>2
  <2>4. UNCHANGED disk
    BY <1>2 DEF StartSave, extVars
  <2> HIDE DEF q
  <2>5. Named(Append(q, cmd), known)
    BY <1>1, <2>2, NamedQueue
  <2> QED BY <1>1, <2>3, <2>4, <2>5, OneNamed
<1>3. CASE \E ok \in BOOLEAN : \/ CreateDone(i, ok) \/ SaveDone(i, ok)
                               \/ SetPropsDone(i, ok) \/ DeleteDone(i, ok)
  <2>1. PICK ok : Result(Stash, i, ok) /\ UNCHANGED disk
    BY <1>3 DEF CreateDone, SaveDone, SetPropsDone, DeleteDone, extVars
  <2>2. /\ \/ net'[Stash][i] \in {q, Forget(q)}
           \/ q # <<>> /\ net'[Stash][i] = Tail(q)
        /\ \A j \in Instns : j # i => net'[Stash][j] = net[Stash][j]
    BY <1>1, <2>1 DEF Result, Acknowledged, Failed, Refused, LateAnswer, NoAnswer
  <2> HIDE DEF q
  <2>3. Named(Forget(q), known) /\ (q # <<>> => Named(Tail(q), known))
    BY <1>1, NamedQueue
  <2>4. Named(net'[Stash][i], known)
    BY <1>1, <2>2, <2>3
  <2> QED BY <2>1, <2>2, <2>4, OneNamed
<1> QED BY <1>2, <1>3 DEF StashStep

LEMMA CarryNamed ==
    ASSUME IInv, FirstLife, NEW i \in Instns, NEW ok \in BOOLEAN, StashCarry(i, ok)
    PROVE  StashNamed(known)
<1> DEFINE q == net[Stash][i]
<1>1. /\ q \in Seq(Messages(Stash)) /\ Stash \in Targets /\ Named(q, known)
      /\ net = [t \in Targets |-> net[t]] /\ net[Stash] \in [Instns -> Seq(Messages(Stash))]
      /\ disk \in [Instns -> Buckets \cup {None}]
  BY ChannelTypes, OtherHosts DEF FirstLife, IInv, TypeOK, ExternalType
<1>2. /\ q # <<>> /\ net' = [net EXCEPT ![Stash][i] = Tail(q)]
      /\ disk' \in {disk, [disk EXCEPT ![i] = Head(q).arg]}
  BY DEF StashCarry, Carry
<1>3. /\ net'[Stash][i] = Tail(q) /\ \A j \in Instns : j # i => net'[Stash][j] = net[Stash][j]
      /\ \A j \in Instns : disk'[j] = disk[j] \/ (j = i /\ disk'[j] = Head(q).arg)
  BY <1>1, <1>2
<1> HIDE DEF q
<1>4. Named(Tail(q), known) /\ (Head(q).arg # None => Head(q).arg.aggr \in known)
  BY <1>1, <1>2, NamedQueue
<1> QED BY <1>3, <1>4 DEF StashNamed, FirstLife

LEMMA NextNamed ==
    ASSUME IInv, LInv, IInv', FirstLife, [Next]_vars
    PROVE  StashNamed(known)
<1>1. \A i \in Instns : /\ net[Stash][i] \in Seq(Messages(Stash))
                        /\ Named(net[Stash][i], known) /\ Named(Forget(net[Stash][i]), known)
  <2>1. \A i \in Instns : net[Stash][i] \in Seq(Messages(Stash)) /\ Named(net[Stash][i], known)
    BY ChannelTypes, OtherHosts DEF FirstLife
  <2> QED BY <2>1, NamedQueue
<1>2. CASE Quiet \/ Start \/ LoadList \/ \E s \in Scopes, v \in PropVals : HttpCreate(s, v)
  <2>1. disk' = disk /\ net'[Stash] = net[Stash]
    BY <1>2 DEF Quiet, Start, LoadList, HttpCreate, extVars, msgVars
  <2> QED BY <2>1 DEF StashNamed, FirstLife
<1>3. CASE LoadFetch \/ Die
  <2>1. /\ disk' = disk
        /\ \A i \in Instns : net'[Stash][i] \in {net[Stash][i], Forget(net[Stash][i])}
    BY <1>3, OtherHosts DEF LoadFetch, Die, extVars
  <2> QED BY <1>1, <2>1 DEF StashNamed, FirstLife
<1>4. CASE TargetDown(Stash) \/ DropLate(Stash)
  <2>1. /\ disk' = disk
        /\ \A i \in Instns : net'[Stash][i] \in {net[Stash][i], <<>>}
    BY <1>4, ChannelTypes, OtherHosts DEF TargetDown, DropLate, extVars
  <2>2. Named(<<>>, known)
    BY DEF Named
  <2> QED BY <1>1, <2>1, <2>2 DEF StashNamed, FirstLife
<1>5. CASE StashMoves
  BY <1>4, <1>5, CarryNamed DEF StashMoves
<1> QED BY <1>2, <1>3, <1>5, NextCases, SaveNamed

\* Only stop() begins to stop the service.
LEMMA StopStops ==
    ASSUME svc # "stopping", [Next]_vars, ~(Crash \/ Stop)
    PROVE  svc' # "stopping"
<1>1. ~AssertStopped /\ ~StopDone
  BY DEF AssertStopped, StopDone
<1>2. Boot => svc' # "stopping"
  BY DEF Boot, Start, LoadList, LoadFetch
<1>3. ASSUME NEW s \in Scopes, NEW v \in PropVals, HttpCreate(s, v) PROVE svc' = svc
  BY <1>3 DEF HttpCreate
<1>4. ASSUME NEW i \in Instns,
             \/ Http(i) \/ StartTask(i) \/ ZonesFail(i)
             \/ \E zs \in SUBSET Hosts : ZonesDone(i, zs)
      PROVE  svc' = svc
  BY <1>4 DEF Http, HttpDelete, Reap, HttpSetProps, HttpTask, StartTask, StartSave, StartAggr,
     StartZonesGlobal, StartZonesCust, StartInstrs, ZonesFail, ZonesDone, svcVars
<1>5. ASSUME NEW i \in Instns, NEW ok \in BOOLEAN, EndTask(i, ok) PROVE svc' = svc
  BY <1>5 DEF EndTask, CreateDone, SaveDone, SetPropsDone, DeleteDone, AggrDone, InstrDone, svcVars
<1>6. ASSUME NEW t \in Targets,
             \/ Notified(t) \/ Announce(t) \/ TargetDown(t) \/ TargetUp(t)
             \/ \E i \in Instns : Execute(t, i)
      PROVE  svc' = svc
  BY <1>6 DEF Notified, AggOnline, HostOnline, DropLate, Announce, TargetDown, TargetUp, Execute,
     StashCarry, AggCarry, HostCarry, svcVars
<1>7. UNCHANGED vars => svc' = svc
  BY DEF vars, svcVars
<1> QED BY <1>1, <1>2, <1>3, <1>4, <1>5, <1>6, <1>7 DEF Next

LEMMA FirstSteps ==
    ASSUME IInv, LInv, AgentsInv, FirstInv, [Next]_vars, ~(Crash \/ Stop)
    PROVE  QuitsInv' /\ Leaves /\ Rooted
<1> USE DEF AgentsInv, FirstInv
<1>1. Steady => QuitsInv' /\ Leaves /\ Rooted
  BY SteadyQuits, SteadyRooted
<1>2. svc # "stopping"
  BY DEF FirstLife
<1>3. CASE Boot
  BY <1>1, <1>3, BootSteady, LoadFetchQuits DEF Boot
<1>4. ~AssertStopped /\ ~StopDone
  BY <1>2 DEF AssertStopped, StopDone
<1>5. ASSUME NEW s \in Scopes, NEW v \in PropVals, HttpCreate(s, v) PROVE Steady
  BY <1>5, NewSteady
<1>6. ASSUME NEW i \in Instns,
             \/ Http(i) \/ StartTask(i) \/ ZonesFail(i)
             \/ \E ok \in BOOLEAN : EndTask(i, ok)
             \/ \E zs \in SUBSET Hosts : ZonesDone(i, zs)
      PROVE  QuitsInv' /\ Leaves /\ Rooted
  <2>1. CASE Http(i)
    BY <1>1, <2>1, HttpSteady
  <2>2. CASE StartTask(i)
    BY <1>1, <2>2, StartSaveSteady, StartAggrQuits, StartZonesSteady, StartInstrsSteady
       DEF StartTask
  <2>3. ASSUME NEW ok \in BOOLEAN, EndTask(i, ok) PROVE QuitsInv' /\ Leaves /\ Rooted
    BY <1>1, <1>2, <2>3, CreateDoneSteady, SaveDoneSteady, DeleteDoneSteady, AggrDoneQuits,
       InstrDoneSteady DEF EndTask
  <2>4. CASE ZonesFail(i) \/ \E zs \in SUBSET Hosts : ZonesDone(i, zs)
    BY <1>1, <2>4, ZonesSteady
  <2> QED BY <1>6, <2>1, <2>2, <2>3, <2>4
<1>7. ASSUME NEW t \in Targets,
             \/ Notified(t) \/ Announce(t) \/ TargetDown(t) \/ TargetUp(t)
             \/ \E i \in Instns : Execute(t, i)
      PROVE  QuitsInv' /\ Leaves /\ Rooted
  <2>1. CASE Notified(t) \/ Announce(t) \/ TargetUp(t)
    BY <1>1, <2>1, OnlineSteady, OtherSteady DEF Notified
  <2>2. CASE TargetDown(t)
    BY <1>1, <2>2, OtherSteady, AggrDownQuits
  <2>3. ASSUME NEW i \in Instns, Execute(t, i) PROVE QuitsInv' /\ Leaves /\ Rooted
    <3>1. CASE t \in Aggrs
      BY <2>3, <3>1, AggCarryQuits, OtherHosts DEF Execute
    <3>2. CASE t \notin Aggrs
      BY <1>1, <2>3, <3>2, OtherSteady
    <3> QED BY <3>1, <3>2
  <2> QED BY <1>7, <2>1, <2>2, <2>3
<1>8. CASE UNCHANGED vars
  <2>1. UNCHANGED <<instn, net, inq, aggHas, known>>
    BY <1>8 DEF vars, svcVars, extVars, msgVars
  <2>2. Steady
    BY <2>1, SoberSame DEF Steady, Still
  <2> QED BY <1>1, <2>2
<1> QED BY <1>1, <1>3, <1>4, <1>5, <1>6, <1>7, <1>8 DEF Next

LEMMA NextFirst ==
    ASSUME IInv, LInv, AgentsInv, FirstInv, [Next]_vars, ~(Crash \/ Stop)
    PROVE  FirstInv' /\ Leaves
<1>1. QuitsInv' /\ Leaves /\ Rooted
  BY FirstSteps
<1>2. \A i \in Instns : instn'[i].where # "none" => instn'[i].aggr \in known'
  BY <1>1 DEF Rooted, FirstInv, FirstLife
<1>3. known \subseteq known' /\ svc' # "stopping"
  BY <1>1, StopStops DEF Rooted, FirstInv, FirstLife
<1>4. StashNamed(known)
  BY NextInv, NextNamed DEF FirstInv
<1>5. FirstLife'
  BY <1>2, <1>3, <1>4 DEF FirstLife, StashNamed, Named
<1> QED BY <1>1, <1>5 DEF FirstInv

LEMMA InitFirst == Init => FirstInv /\ used.crashes = 0
<1> SUFFICES ASSUME Init PROVE FirstInv /\ used.crashes = 0
  OBVIOUS
<1>1. /\ \A i \in Instns : instn[i] = Blank /\ disk[i] = None
      /\ \A t \in Targets, i \in Instns : net[t][i] = <<>>
      /\ svc = "down" /\ listed = {} /\ used.crashes = 0
  BY DEF Init, Empty, Bounded
<1>2. Blank.where = "none" /\ Blank.cur = None
  BY DEF Blank
<1>3. QuitsInv
  BY <1>1, <1>2, OtherHosts DEF QuitsInv, Quits, Disarmed, Defused, Cleaned, Does
<1>4. FirstLife
  BY <1>1, <1>2, OtherHosts DEF FirstLife, Named
<1> QED BY <1>1, <1>3, <1>4 DEF FirstInv

\* As long as it has neither crashed nor stopped.
Undisturbed == /\ MaxCrashes >= used.crashes
               /\ used.crashes = 0 => FirstInv

THEOREM FirstLifeInductive == Spec => [](IInv /\ LInv /\ AgentsInv /\ Undisturbed)
<1>1. Init => IInv /\ LInv /\ AgentsInv /\ Undisturbed
  BY InitInv, InitLInv, InitAgents, InitFirst, ConstantsAssumption DEF Undisturbed
<1>2. (IInv /\ LInv /\ AgentsInv /\ Undisturbed) /\ [Next]_vars
          => (IInv /\ LInv /\ AgentsInv /\ Undisturbed)'
  <2> SUFFICES ASSUME IInv, LInv, AgentsInv, Undisturbed, [Next]_vars
               PROVE  IInv' /\ LInv' /\ AgentsInv' /\ Undisturbed'
    OBVIOUS
  <2>1. IInv' /\ LInv' /\ AgentsInv'
    BY NextInv, NextLInv, NextAgents
  <2>2. Undisturbed'
    <3>1. CASE Crash \/ Stop
      BY <3>1, CrashCount, ConstantsAssumption DEF Undisturbed
    <3>2. CASE ~(Crash \/ Stop)
      BY <3>2, CrashCount, NextFirst DEF Undisturbed
    <3> QED BY <3>1, <3>2
  <2> QED BY <2>1, <2>2
<1> QED BY <1>1, <1>2, PTL DEF Spec

\* A deleted instrumentation leaves cfg_dead only when its aggregator does not
\* have it and nothing that enables it is on its way, as long as the service
\* has neither crashed nor stopped (instnTaskAggrDisable's callback, which
\* queues the task again after a failure).
FirstDeadLeaveClean ==
    [][used'.crashes = 0 =>
          \A i \in Instns, a \in Aggrs :
             (/\ instn[i].where = "dead" /\ instn[i].aggr = a
              /\ instn'[i].where = "none")
                 => AggrClean(i, a)']_vars

THEOREM FirstDeletedLeaveClean == Spec => FirstDeadLeaveClean
<1> DEFINE Step == used'.crashes = 0 =>
                      \A i \in Instns, a \in Aggrs :
                         (/\ instn[i].where = "dead" /\ instn[i].aggr = a
                          /\ instn'[i].where = "none")
                             => AggrClean(i, a)'
<1>1. (IInv /\ LInv /\ AgentsInv /\ Undisturbed) /\ [Next]_vars => [Step]_vars
  <2> SUFFICES ASSUME IInv, LInv, AgentsInv, Undisturbed, [Next]_vars, used'.crashes = 0
               PROVE  \A i \in Instns, a \in Aggrs :
                         (/\ instn[i].where = "dead" /\ instn[i].aggr = a
                          /\ instn'[i].where = "none")
                             => AggrClean(i, a)'
    OBVIOUS
  <2>1. ~(Crash \/ Stop) /\ used.crashes = 0
    BY CrashCount
  <2>2. Leaves
    BY <2>1, NextFirst DEF Undisturbed
  <2> QED BY <2>2 DEF Leaves, Clean, AllOps, AggrClean
<1> QED BY <1>1, FirstLifeInductive, PTL DEF Spec, FirstDeadLeaveClean

\* The property that the runs check, of a service that cannot crash or stop.
THEOREM DeletedLeaveClean == ASSUME MaxCrashes = 0 PROVE Spec => DeadLeavesClean
<1> DEFINE Step == \A i \in Instns, a \in Aggrs :
                      (/\ i \notin twice /\ instn[i].where = "dead" /\ instn[i].aggr = a
                       /\ instn'[i].where = "none" /\ svc' = "up")
                          => AggrClean(i, a)'
<1>1. (IInv /\ LInv /\ AgentsInv /\ Undisturbed) /\ [Next]_vars => [Step]_vars
  <2> SUFFICES ASSUME IInv, LInv, AgentsInv, Undisturbed, [Next]_vars
               PROVE  Step
    OBVIOUS
  <2>1. ~(Crash \/ Stop) /\ used.crashes = 0
    BY CrashCount DEF Undisturbed
  <2>2. Leaves
    BY <2>1, NextFirst DEF Undisturbed
  <2> QED BY <2>2 DEF Leaves, Clean, AllOps, AggrClean
<1> QED BY <1>1, FirstLifeInductive, PTL DEF Spec, DeadLeavesClean
=============================================================================
