------------------------------ MODULE ConfigSvc ------------------------------
(***************************************************************************)
(* The configuration service (lib/ca/ca-svc-config.js): the life of an     *)
(* instrumentation from POST to DELETE, across crashes of the service and  *)
(* restarts of everything it talks to.                                     *)
(*                                                                         *)
(* Every instrumentation has a queue of asynchronous tasks that run one at *)
(* a time.  A task sends commands over AMQP to the stash, to the assigned  *)
(* aggregator or to the instrumenters and continues when the command is    *)
(* acknowledged, refused or timed out.  A command that timed out may still *)
(* be carried out later.  The service holds its state in memory only: what *)
(* survives a crash is what the stash saved, and what the aggregators and  *)
(* the instrumenters still hold.                                           *)
(*                                                                         *)
(* Handlers of those three are reduced here to the effect of a command;    *)
(* their own steps are the subject of other modules.                       *)
(*                                                                         *)
(* A definition marked "seeded fault" is no part of the model: it is the   *)
(* one after it with a plausible bug, to show which property notices.      *)
(***************************************************************************)
EXTENDS Integers, FiniteSets, Sequences

CONSTANTS
    Global,         \* the scope of operator instrumentations (cfi_scopeid undefined)
    Custs,          \* customer scopes
    MaxId,          \* BOUND: instrumentation ids per scope
    Stash,          \* the stash service
    Aggrs,          \* aggregators, by hostname
    Hosts,          \* instrumenters, by hostname
    PropVals,       \* values of the mutable properties
    AggMax,         \* cfg_agg_maxinsts
    UserMax,        \* cfg_instn_max_peruser
    Metadata,       \* outcomes of addFromHost on an instrumenter's metadata
    StashErrs,      \* whether a stash request may fail on the stash's disk
    MaxRequests,    \* BOUND: HTTP requests and idle expirations
    MaxEarly,       \* BOUND: creations served while the configuration is loading
    MaxTimeouts,    \* BOUND: commands that time out although they are carried out
    MaxRejects,     \* BOUND: commands refused by their target
    MaxCrashes,     \* BOUND: crashes and stops of the configuration service
    MaxRestarts,    \* BOUND: restarts of the stash, aggregators and instrumenters
    None            \* "undefined"

Scopes == {Global} \cup Custs
Instns == Scopes \X (1..MaxId)
Scope(i) == i[1]
Targets == {Stash} \cup Aggrs \cup Hosts

ASSUME ConstantsAssumption ==
    /\ Global \notin Custs
    /\ MaxId \in Nat /\ AggMax \in Nat /\ UserMax \in Nat
    /\ IsFiniteSet(Custs) /\ IsFiniteSet(Aggrs) /\ IsFiniteSet(Hosts)
    /\ Stash \notin Aggrs \cup Hosts /\ Aggrs \cap Hosts = {}
    /\ None \notin Targets \cup PropVals /\ \A zs \in SUBSET Hosts : zs # None
    /\ Metadata \subseteq BOOLEAN /\ StashErrs \in BOOLEAN
    /\ {MaxRequests, MaxEarly, MaxTimeouts, MaxRejects, MaxCrashes, MaxRestarts}
           \subseteq Nat

VARIABLES
    svc,        \* stage of the service: down, list and fetch while loading, up, stopping
    instn,      \* the instrumentation objects, in cfg_instns ("live"), in cfg_dead
                \* ("dead"), or held only by their create task ("creating")
    ninsts,     \* cag_ninsts of each aggregator
    nextid,     \* cfg_nextid and cfg_custs[c].id
    known,      \* aggregators with a routing key, instrumenters in cfg_instrs
    supports,   \* instrumenters whose metrics cfg_metrics has
    listed,     \* buckets listed by .contents while loading
    disk,       \* what the stash has saved for each instrumentation
    aggHas,     \* the configuration each aggregator has for each instrumentation
    hostHas,    \* the instrumentations enabled on each instrumenter
    up,         \* stash, aggregators and instrumenters connected to the broker
    poked,      \* agents that have a configsvc_online notification to handle
    net,        \* commands on their way to a target, per instrumentation
    inq,        \* acknowledgements and notifications on their way from a target
    owed,       \* HTTP requests on an instrumentation that await a response
    acked,      \* instrumentations whose creation was answered with 201
    delreq,     \* instrumentations whose deletion was asked for
    deadOK,     \* instrumentations whose deletion was answered with 204
    twice,      \* ids that a creation took while the configuration was loading and
                \* that the load then found: two objects have them
    used        \* the bounded events so far

svcVars  == <<svc, ninsts, nextid, known, supports, listed>>
extVars  == <<disk, aggHas, hostHas, up, poked>>
msgVars  == <<net, inq>>
userVars == <<owed, acked, delreq, deadOK, twice>>
vars == <<svcVars, instn, extVars, msgVars, userVars, used>>

-----------------------------------------------------------------------------
(* Objects and tasks.                                                      *)

StashFuncs == {"create", "save", "setprops", "delete"}
Funcs == StashFuncs \cup {"aggrUpdate", "aggrDisable", "zonesUpdate", "instrsUpdate"}

\* A task: the function, whether its callback answers an HTTP request, and
\* the new property value of a "setprops".
Tasks == [f: Funcs, rq: BOOLEAN, val: PropVals \cup {None}]
Task(f) == [f |-> f, rq |-> FALSE, val |-> None]
Request(f, v) == [f |-> f, rq |-> TRUE, val |-> v]

Confs == [val: PropVals \cup {None}, nsrc: (0..Cardinality(Hosts)) \cup {None}]
Zones == (SUBSET Hosts) \cup {None}
Buckets == [conf: Confs, zones: Zones, aggr: Aggrs]

\* "undefined" is no instrumentation, task or saved configuration.
ASSUME NoneAssumption == None \notin Instns \cup Tasks \cup Buckets

\* cfi_instrs[h] is absent, or has a state (off, on); "want" holds the hosts
\* whose entry is desired.  "wait" holds the targets the running task waits for.
Objects == [where: {"none", "creating", "live", "dead"}, tasks: Seq(Tasks),
            cur: Tasks \cup {None}, deleted: BOOLEAN, conf: Confs,
            aggr: Aggrs \cup {None}, zones: Zones,
            state: [Hosts -> {"absent", "off", "on"}], want: SUBSET Hosts,
            wait: SUBSET Targets]

Blank == [where |-> "none", tasks |-> <<>>, cur |-> None, deleted |-> FALSE,
          conf |-> [val |-> None, nsrc |-> None], aggr |-> None, zones |-> None,
          state |-> [h \in Hosts |-> "absent"], want |-> {}, wait |-> {}]

Live(i) == instn[i].where = "live"

\* instnTask: tasks are dropped once the service is stopping.
Enqueue(o, t) == IF svc = "stopping" THEN o ELSE [o EXCEPT !.tasks = Append(@, t)]

\* The end of a task (instnRun): a dead instrumentation with nothing left to
\* do leaves cfg_dead.
Settle(o) ==
    IF o.where = "dead" /\ o.tasks = <<>> THEN Blank
    ELSE [o EXCEPT !.cur = None, !.wait = {}]

Answers(t) == IF t.rq THEN 1 ELSE 0
Requests(q) == Cardinality({k \in DOMAIN q : q[k].rq})

-----------------------------------------------------------------------------
(* Commands.  The queue of a target is FIFO and exists while the target is *)
(* connected.  "live" says that the service still waits for the answer.    *)

Command(op, arg) == [op |-> op, arg |-> arg, live |-> TRUE]

\* Sends cmds[t] to each target t in its domain.  AMQP drops what is sent to a
\* queue that does not exist.
Send(cmds, i) ==
    net' = [t \in Targets |-> IF t \in DOMAIN cmds \cap up
                              THEN [net[t] EXCEPT ![i] = Append(@, cmds[t])]
                              ELSE net[t]]

Ack(i) == [k |-> "ack", i |-> i]
LateAck == [k |-> "ack", i |-> None]
Online == [k |-> "online", i |-> None]
IsLive(m) == m.live
Forget(q) == [k \in DOMAIN q |-> [q[k] EXCEPT !.live = FALSE]]
Disown(q, i) == [k \in DOMAIN q |-> IF q[k] = Ack(i) THEN LateAck ELSE q[k]]

Use(what) == used' = [used EXCEPT ![what] = @ + 1]

\* The answer to the command that i sent to t: acknowledged (ok), or failed.
\* It fails if t refused it, if it was lost, or after a timeout; a late
\* acknowledgement is then ignored.
Acknowledged(t, i) ==
    /\ inq[t] # <<>> /\ Head(inq[t]) = Ack(i)
    /\ inq' = [inq EXCEPT ![t] = Tail(@)]
    /\ UNCHANGED <<net, used>>

Pending(t, i) == \E k \in DOMAIN net[t][i] : IsLive(net[t][i][k])
Answered(t, i) == \E k \in DOMAIN inq[t] : inq[t][k] = Ack(i)

Refused(t, i) ==
    /\ net[t][i] # <<>> /\ IsLive(Head(net[t][i]))
    /\ used.rejects < MaxRejects /\ Use("rejects")
    /\ net' = [net EXCEPT ![t][i] = Tail(@)]

LateAnswer(t, i) ==
    /\ Pending(t, i) \/ Answered(t, i)
    /\ used.timeouts < MaxTimeouts /\ Use("timeouts")
    /\ net' = [net EXCEPT ![t][i] = Forget(@)]

\* (Seeded fault.)
NoTimer(t, i) == FALSE
NoAnswer(t, i) == ~Pending(t, i) /\ ~Answered(t, i) /\ UNCHANGED <<net, used>>

Failed(t, i) ==
    /\ inq' = [inq EXCEPT ![t] = Disown(@, i)]
    /\ Refused(t, i) \/ LateAnswer(t, i) \/ NoAnswer(t, i)

\* (Seeded fault.)
ErrorIgnored(t, i, ok) == Acknowledged(t, i) \/ Failed(t, i)
Result(t, i, ok) == IF ok THEN Acknowledged(t, i) ELSE Failed(t, i)

-----------------------------------------------------------------------------
(* Starting a task (instnRun): it asserts that the service is not stopping.*)

Ready(i, funcs) ==
    /\ svc # "stopping"
    /\ instn[i].cur = None
    /\ instn[i].tasks # <<>>
    /\ Head(instn[i].tasks).f \in funcs

Shifted(i) == [instn[i] EXCEPT !.tasks = Tail(@), !.cur = Head(instn[i].tasks)]

\* instnSaveRequest.
\* (Seeded fault.)
NoAggregatorSaved(o, conf) == [conf |-> conf, zones |-> o.zones, aggr |-> None]
SaveRequest(o, conf) == [conf |-> conf, zones |-> o.zones, aggr |-> o.aggr]

\* cfi_deleted, which instnTaskDelete sets before it saves.
\* (Seeded fault.)
DeletedTooLate(o) == o.deleted
Deleted(o) == o.deleted \/ o.cur.f = "delete"

\* instnTaskSave, also as the body of "setprops" (with the new properties) and
\* of instnTaskDelete, which marks the instrumentation deleted first.
StartSave(i) ==
    LET o == Shifted(i)
        conf == IF o.cur.f = "setprops" THEN [o.conf EXCEPT !.val = o.cur.val]
                ELSE o.conf
        cmd == IF Deleted(o) THEN Command("del", None)
               ELSE Command("put", SaveRequest(o, conf))
    IN /\ Ready(i, StashFuncs)
       /\ instn' = [instn EXCEPT ![i] = [o EXCEPT !.deleted = Deleted(o), !.wait = {Stash}]]
       /\ Send([t \in {Stash} |-> cmd], i)
       /\ UNCHANGED <<svcVars, extVars, inq, userVars, used>>

\* instnTaskAggrUpdate and instnTaskAggrDisable: nothing is sent to an
\* aggregator that has not been heard from.
StartAggr(i) ==
    LET o == Shifted(i)
        cmd == IF o.cur.f = "aggrUpdate" THEN Command("enable", o.conf)
               ELSE Command("disable", None)
    IN /\ Ready(i, {"aggrUpdate", "aggrDisable"})
       /\ IF o.aggr \in known
          THEN /\ instn' = [instn EXCEPT ![i] = [o EXCEPT !.wait = {o.aggr}]]
               /\ Send([t \in {o.aggr} |-> cmd], i)
          ELSE instn' = [instn EXCEPT ![i] = Settle(o)] /\ UNCHANGED net
       /\ UNCHANGED <<svcVars, extVars, inq, userVars, used>>

\* instnTaskZonesUpdate of an operator instrumentation.
StartZonesGlobal(i) ==
    LET o == Shifted(i)
    IN /\ Ready(i, {"zonesUpdate"})
       /\ Scope(i) = Global
       /\ instn' = [instn EXCEPT ![i] =
                       Settle(Enqueue([o EXCEPT !.zones = None], Task("instrsUpdate")))]
       /\ UNCHANGED <<svcVars, extVars, msgVars, userVars, used>>

\* ... and of a customer's: VMAPI is asked for the customer's zones.
StartZonesCust(i) ==
    /\ Ready(i, {"zonesUpdate"})
    /\ Scope(i) # Global
    /\ instn' = [instn EXCEPT ![i] = Shifted(i)]
    /\ UNCHANGED <<svcVars, extVars, msgVars, userVars, used>>

\* instnTaskInstrsUpdate: the desired hosts, the "nsources" property, then one
\* enable or disable command to each known host that is not up to date.
StartInstrs(i) ==
    LET o == Shifted(i)
        hosts == IF o.zones = None THEN known \cap Hosts ELSE o.zones
        state == [h \in Hosts |-> IF h \in hosts /\ o.state[h] = "absent"
                                  THEN "off" ELSE o.state[h]]
        stale == o.conf.nsrc # Cardinality(hosts) /\ ~o.deleted
        o1 == [o EXCEPT !.state = state, !.want = hosts]
        o2 == IF stale
              THEN Enqueue([o1 EXCEPT !.conf.nsrc = Cardinality(hosts)], Task("aggrUpdate"))
              ELSE o1
        todo == {h \in known \cap supports :
                    state[h] = IF h \in hosts THEN "off" ELSE "on"}
        cmd(h) == Command(IF h \in hosts THEN "enable" ELSE "disable", None)
    IN /\ Ready(i, {"instrsUpdate"})
       /\ instn' = [instn EXCEPT ![i] =
                       IF todo = {} THEN Settle(o2) ELSE [o2 EXCEPT !.wait = todo]]
       /\ Send([h \in todo |-> cmd(h)], i)
       /\ UNCHANGED <<svcVars, extVars, inq, userVars, used>>

-----------------------------------------------------------------------------
(* The continuations of the tasks.                                         *)

Running(i, funcs) == instn[i].cur # None /\ instn[i].cur.f \in funcs

Respond(i, n) == owed' = [owed EXCEPT ![i] = @ - n]

\* cag_ninsts when an instrumentation leaves its aggregator.
\* (Seeded fault.)
CountKept(a) == ninsts
CountLess(a) == [ninsts EXCEPT ![a] = @ - 1]

Flush(o) == [o EXCEPT !.tasks = <<>>]

\* instnCreate's callback.
CreateDone(i, ok) ==
    LET o == instn[i]
    IN /\ Running(i, {"create"})
       /\ Result(Stash, i, ok)
       /\ IF ok
          THEN /\ instn' = [instn EXCEPT ![i] =
                    Settle(Enqueue(Enqueue([o EXCEPT !.where = "live"],
                                           Task("aggrUpdate")), Task("zonesUpdate")))]
               /\ acked' = acked \cup {i}
               /\ UNCHANGED ninsts
          ELSE /\ instn' = [instn EXCEPT ![i] = Blank]
               /\ ninsts' = CountLess(o.aggr)
               /\ UNCHANGED acked
       /\ Respond(i, 1)
       /\ UNCHANGED <<svc, nextid, known, supports, listed, extVars, delreq, deadOK, twice>>

\* A plain save only logs its error.
SaveDone(i, ok) ==
    /\ Running(i, {"save"})
    /\ Result(Stash, i, ok)
    /\ instn' = [instn EXCEPT ![i] = Settle(@)]
    /\ UNCHANGED <<svcVars, extVars, userVars>>

\* httpInstnSetProps's callback.
SetPropsDone(i, ok) ==
    LET o == instn[i]
    IN /\ Running(i, {"setprops"})
       /\ Result(Stash, i, ok)
       /\ instn' = [instn EXCEPT ![i] =
             Settle(IF ok THEN Enqueue([o EXCEPT !.conf.val = o.cur.val], Task("aggrUpdate"))
                    ELSE o)]
       /\ Respond(i, 1)
       /\ UNCHANGED <<svcVars, extVars, acked, delreq, deadOK, twice>>

\* instnTaskDelete after the save.  On success the queued tasks are flushed,
\* their callbacks told that they were interrupted.
DeleteDone(i, ok) ==
    LET o == instn[i]
        gone == Enqueue(Enqueue(Flush([o EXCEPT !.where = "dead", !.zones = {}]),
                                Task("aggrDisable")), Task("instrsUpdate"))
    IN /\ Running(i, {"delete"})
       /\ Result(Stash, i, ok)
       /\ IF ok
          THEN /\ instn' = [instn EXCEPT ![i] = Settle(gone)]
               /\ ninsts' = CountLess(o.aggr)
               /\ Respond(i, Answers(o.cur) + Requests(o.tasks))
               /\ deadOK' = IF o.cur.rq THEN deadOK \cup {i} ELSE deadOK
          ELSE /\ instn' = [instn EXCEPT ![i] = Settle([o EXCEPT !.deleted = FALSE])]
               /\ Respond(i, Answers(o.cur))
               /\ UNCHANGED <<ninsts, deadOK>>
       /\ UNCHANGED <<svc, nextid, known, supports, listed, extVars, acked, delreq,
                      twice>>

\* An update of the aggregator is not retried, a disable is.
\* (Seeded fault.)
NoRetry(o, ok) == o
Retried(o, ok) ==
    IF ok \/ o.cur.f = "aggrUpdate" THEN o ELSE Enqueue(o, Task("aggrDisable"))

AggrDone(i, ok) ==
    LET o == instn[i]
    IN /\ Running(i, {"aggrUpdate", "aggrDisable"})
       /\ Result(o.aggr, i, ok)
       /\ instn' = [instn EXCEPT ![i] = Settle(Retried(o, ok))]
       /\ UNCHANGED <<svcVars, extVars, userVars>>

\* listContainers answers with the customer's zones; a host is listed with
\* at least one zone.
ZonesDone(i, zs) ==
    /\ Running(i, {"zonesUpdate"})
    /\ instn' = [instn EXCEPT ![i] =
          Settle(Enqueue(Enqueue([@ EXCEPT !.zones = zs], Task("save")), Task("instrsUpdate")))]
    /\ UNCHANGED <<svcVars, extVars, msgVars, userVars, used>>

ZonesFail(i) ==
    /\ Running(i, {"zonesUpdate"})
    /\ used.timeouts < MaxTimeouts /\ Use("timeouts")
    /\ instn' = [instn EXCEPT ![i] = Settle(Enqueue(@, Task("zonesUpdate")))]
    /\ UNCHANGED <<svcVars, extVars, msgVars, userVars>>

\* instrEnable's and instrDisable's callbacks: the first marks the host's
\* entry enabled, the second removes it.  The task ends with the last answer.
InstrDone(i, h, ok) ==
    LET o == instn[i]
        o1 == [o EXCEPT !.wait = @ \ {h},
                        !.state[h] = IF ~ok THEN @ ELSE IF h \in o.want THEN "on" ELSE "absent"]
    IN /\ Running(i, {"instrsUpdate"})
       /\ h \in o.wait
       /\ Result(h, i, ok)
       /\ instn' = [instn EXCEPT ![i] = IF o1.wait = {} THEN Settle(o1) ELSE o1]
       /\ UNCHANGED <<svcVars, extVars, userVars>>

-----------------------------------------------------------------------------
(* HTTP requests and the reaper.                                           *)

\* BOUND: requests.
Admit == used.requests < MaxRequests /\ Use("requests")
AdmitEarly == used.early < MaxEarly /\ Use("early")

Members(s) == {i \in Instns : Scope(i) = s /\ Live(i)}

\* httpInstnCreate: pickAggregator, instnValidateScope, a new id, a save.
\* Refused requests change nothing, unless no aggregator is available: the id
\* is then consumed before caCfgInstn's assertion fails.  The HTTP server runs
\* before the configuration is loaded and httpReady tests cfg_instns, which the
\* constructor sets: a creation is served while loading, too, with an id from a
\* cfg_nextid that knows none of those in the stash (see LoadFetch).
HttpCreate(s, v) ==
    LET i == <<s, nextid[s]>>
        avail == {a \in Aggrs \cap known : ninsts[a] < AggMax}
    IN /\ svc # "down"
       /\ nextid[s] <= MaxId
       /\ s # Global => Cardinality(Members(s)) < UserMax
       /\ IF svc \in {"up", "stopping"} THEN Admit ELSE AdmitEarly
       /\ nextid' = [nextid EXCEPT ![s] = @ + 1]
       /\ \/ /\ avail = {}
             /\ UNCHANGED <<ninsts, instn, userVars>>
          \/ \E a \in avail :
                /\ ninsts' = [ninsts EXCEPT ![a] = @ + 1]
                /\ instn' = [instn EXCEPT ![i] =
                      Enqueue([Blank EXCEPT !.where = "creating", !.aggr = a, !.conf.val = v],
                              Request("create", None))]
                /\ owed' = [owed EXCEPT ![i] = @ + 1]
                /\ acked' = acked \ {i}
                /\ delreq' = delreq \ {i}
                /\ deadOK' = deadOK \ {i}
                /\ UNCHANGED twice
       /\ UNCHANGED <<svc, known, supports, listed, extVars, msgVars>>

HttpTask(i, t) ==
    /\ Live(i)
    /\ Admit
    /\ instn' = [instn EXCEPT ![i] = Enqueue(@, t)]
    /\ owed' = [owed EXCEPT ![i] = @ + Answers(t)]
    /\ delreq' = IF t.f = "delete" THEN delreq \cup {i} ELSE delreq
    /\ UNCHANGED <<svcVars, extVars, msgVars, acked, deadOK, twice>>

HttpSetProps(i, v) == HttpTask(i, Request("setprops", v))
HttpDelete(i) == HttpTask(i, Request("delete", None))

\* tickReaper: an idle instrumentation is deleted; it is asked for again at
\* every tick until it is gone.
Reap(i) == svc = "up" /\ HttpTask(i, Task("delete"))

-----------------------------------------------------------------------------
(* AMQP notifications.                                                     *)

Heard(t) ==
    /\ svc \in {"list", "fetch", "up", "stopping"}
    /\ inq[t] # <<>> /\ Head(inq[t]) = Online
    /\ inq' = [inq EXCEPT ![t] = Tail(@)]

\* A late acknowledgement matches no command and is dropped.
DropLate(t) ==
    /\ inq[t] # <<>> /\ Head(inq[t]) = LateAck
    /\ inq' = [inq EXCEPT ![t] = Tail(@)]
    /\ UNCHANGED <<svcVars, instn, extVars, net, userVars, used>>

\* amqpAggOnline: the aggregator is told again about its instrumentations.
\* (Seeded fault.)
NeverPoked(i, a) == FALSE
\* (Seeded fault.)
DeadPoked(i, a) == instn[i].aggr = a
ToPoke(i, a) == Live(i) /\ instn[i].aggr = a

AggOnline(a) ==
    /\ Heard(a)
    /\ known' = known \cup {a}
    /\ instn' = [i \in Instns |-> IF ToPoke(i, a)
                                  THEN Enqueue(instn[i], Task("aggrUpdate"))
                                  ELSE instn[i]]
    /\ UNCHANGED <<svc, ninsts, nextid, supports, listed, extVars, net, userVars, used>>

\* amqpInstrOnline: operator instrumentations refresh their hosts if the
\* instrumenter is new; every instrumentation with an entry for it forgets
\* that it was enabled.  After a metadata conflict neither happens.
Refreshed(i, h) ==
    IF h \notin known /\ Scope(i) = Global
    THEN Enqueue(instn[i], Task("zonesUpdate")) ELSE instn[i]

\* (Seeded fault.)
UpdatedAnyway(o, h) == Enqueue([o EXCEPT !.state[h] = "off"], Task("instrsUpdate"))

\* (Seeded fault.)
StillBelieved(o, h) ==
    IF o.state[h] = "absent" THEN o ELSE Enqueue(o, Task("instrsUpdate"))

\* (Seeded fault.)
NotUpdated(o, h) ==
    IF o.state[h] = "absent" THEN o ELSE [o EXCEPT !.state[h] = "off"]

Restarted(o, h) ==
    IF o.state[h] = "absent" THEN o
    ELSE Enqueue([o EXCEPT !.state[h] = "off"], Task("instrsUpdate"))

HostOnline(h, ok) ==
    /\ Heard(h)
    /\ known' = known \cup {h}
    /\ supports' = IF ok THEN supports \cup {h} ELSE supports \ {h}
    /\ instn' = [i \in Instns |-> IF ok /\ Live(i) THEN Restarted(Refreshed(i, h), h)
                                  ELSE instn[i]]
    /\ UNCHANGED <<svc, ninsts, nextid, listed, extVars, net, userVars, used>>

-----------------------------------------------------------------------------
(* Start-up, stop, crash.                                                  *)

\* amqpConnected: everybody is told; stage 5 of start() begins to load.
Start ==
    /\ svc = "down"
    /\ svc' = "list"
    /\ poked' = up \ {Stash}
    /\ UNCHANGED <<ninsts, nextid, known, supports, listed, instn, disk, aggHas, hostHas,
                   up, msgVars, userVars, used>>

\* loadConfig: the stash lists its buckets.
LoadList ==
    /\ svc = "list"
    /\ Stash \in up
    /\ svc' = "fetch"
    /\ listed' = {i \in Instns : disk[i] # None}
    /\ UNCHANGED <<ninsts, nextid, known, supports, instn, extVars, msgVars, userVars, used>>

\* instnLoad.
Loaded(i) ==
    LET b == disk[i]
        zones == IF Scope(i) # Global /\ b.zones = None THEN {} ELSE b.zones
        cached == Scope(i) = Global \/ b.zones # None
    IN [Blank EXCEPT !.where = "live", !.conf = b.conf, !.aggr = b.aggr, !.zones = zones,
                     !.tasks = <<Task("aggrUpdate")>>
                               \o (IF cached THEN <<Task("instrsUpdate")>> ELSE <<>>)
                               \o <<Task("zonesUpdate")>>]

\* The ids that cfg_nextid must exceed or equal.
\* (Seeded fault.)
LastIds(found, s) == {i[2] : i \in {j \in found : Scope(j) = s}} \cup {nextid[s]}
NextIds(found, s) == {i[2] + 1 : i \in {j \in found : Scope(j) = s}} \cup {nextid[s]}

\* The commands of an object that is displaced are those of nobody here.
DisownAll(q, is) ==
    [k \in DOMAIN q |-> IF q[k] \in {Ack(i) : i \in is} THEN LateAck ELSE q[k]]

\* loadConfigFrom: the listed buckets are fetched and loaded; one that can no
\* longer be read is skipped.  An id that a creation has taken meanwhile then
\* has two objects, and cag_ninsts counts both: here the loaded one displaces
\* the other, whichever cfg_instns keeps (module Startup follows the two).
LoadFetch ==
    LET found == {i \in listed : disk[i] # None}
        taken == {i \in found : instn[i].where # "none"}
    IN /\ svc = "fetch"
       /\ Stash \in up
       /\ svc' = "up"
       /\ instn' = [i \in Instns |-> IF i \in found THEN Loaded(i) ELSE instn[i]]
       /\ ninsts' = [a \in Aggrs |-> ninsts[a] + Cardinality({i \in found : disk[i].aggr = a})]
       /\ nextid' \in [Scopes -> 1..(MaxId + 1)]
       /\ \A s \in Scopes : /\ nextid'[s] \in NextIds(found, s)
                            /\ \A n \in NextIds(found, s) : n <= nextid'[s]
       /\ listed' = {}
       /\ twice' = twice \cup taken
       /\ net' = [t \in Targets |-> [i \in Instns |-> IF i \in taken THEN Forget(net[t][i])
                                                     ELSE net[t][i]]]
       /\ inq' = [t \in Targets |-> DisownAll(inq[t], taken)]
       /\ UNCHANGED <<known, supports, extVars, owed, acked, delreq, deadOK, used>>

\* The process ends: its memory, its AMQP queue and its HTTP connections go.
Die ==
    /\ svc' = "down"
    /\ instn' = [i \in Instns |-> Blank]
    /\ ninsts' = [a \in Aggrs |-> 0]
    /\ nextid' = [s \in Scopes |-> 1]
    /\ known' = {} /\ supports' = {} /\ listed' = {}
    /\ inq' = [t \in Targets |-> <<>>]
    /\ net' = [t \in Targets |-> [i \in Instns |-> Forget(net[t][i])]]
    /\ owed' = [i \in Instns |-> 0]
    /\ poked' = {}
    /\ UNCHANGED <<disk, aggHas, hostHas, up, acked, delreq, deadOK, twice>>

Crash == svc # "down" /\ used.crashes < MaxCrashes /\ Use("crashes") /\ Die

\* stop(): the queues of live and dead instrumentations are flushed, and the
\* service waits for the tasks that are running (StopDone).
Stop ==
    LET reached(o) == o.where \in {"live", "dead"}
        dropped(o) == IF reached(o) THEN Requests(o.tasks) ELSE 0
    IN /\ svc = "up"
       /\ used.crashes < MaxCrashes /\ Use("crashes")
       /\ svc' = "stopping"
       /\ instn' = [i \in Instns |-> IF reached(instn[i]) THEN Flush(instn[i]) ELSE instn[i]]
       /\ owed' = [i \in Instns |-> owed[i] - dropped(instn[i])]
       /\ UNCHANGED <<ninsts, nextid, known, supports, listed, extVars, msgVars,
                      acked, delreq, deadOK, twice>>

StopDone ==
    /\ svc = "stopping"
    /\ \A i \in Instns : instn[i].cur = None
    /\ Die
    /\ UNCHANGED used

-----------------------------------------------------------------------------
(* The stash, the aggregators and the instrumenters.                       *)

\* t carries out the first command queued for i and acknowledges it, which
\* matters only while the service waits for the answer.
Carry(t, i) ==
    /\ t \in up
    /\ net[t][i] # <<>>
    /\ net' = [net EXCEPT ![t][i] = Tail(@)]
    /\ inq' = IF Head(net[t][i]).live THEN [inq EXCEPT ![t] = Append(@, Ack(i))] ELSE inq

\* cmdDataPut and cmdDataDelete.  The outcome of each request travels in the
\* acknowledgement's "results", which instnTaskSave does not look at.
StashCarry(i, ok) ==
    /\ Carry(Stash, i)
    /\ disk' = IF ok THEN [disk EXCEPT ![i] = Head(net[Stash][i]).arg] ELSE disk
    /\ UNCHANGED <<svcVars, instn, aggHas, hostHas, up, poked, userVars, used>>

\* aggCmdEnableAggregation (which also updates) and aggCmdDisableAggregation.
AggCarry(a, i) ==
    /\ Carry(a, i)
    /\ aggHas' = [aggHas EXCEPT ![a][i] = Head(net[a][i]).arg]
    /\ UNCHANGED <<svcVars, instn, disk, hostHas, up, poked, userVars, used>>

\* amqpEnableInstn and amqpDisableInstn.
HostCarry(h, i) ==
    /\ Carry(h, i)
    /\ hostHas' = [hostHas EXCEPT ![h] = IF Head(net[h][i]).op = "enable"
                                         THEN @ \cup {i} ELSE @ \ {i}]
    /\ UNCHANGED <<svcVars, instn, disk, aggHas, up, poked, userVars, used>>

\* An agent answers configsvc_online with its own status.
Announce(t) ==
    /\ t \in poked \cap up
    /\ poked' = poked \ {t}
    /\ inq' = [inq EXCEPT ![t] = Append(@, Online)]
    /\ UNCHANGED <<svcVars, instn, disk, aggHas, hostHas, up, net, userVars, used>>

\* A target goes away: its queue and the commands in it are gone, and so is
\* what an aggregator or an instrumenter had in memory.
TargetDown(t) ==
    /\ t \in up
    /\ used.restarts < MaxRestarts /\ Use("restarts")
    /\ up' = up \ {t}
    /\ poked' = poked \ {t}
    /\ net' = [net EXCEPT ![t] = [i \in Instns |-> <<>>]]
    /\ aggHas' = IF t \in Aggrs THEN [aggHas EXCEPT ![t] = [i \in Instns |-> None]] ELSE aggHas
    /\ hostHas' = IF t \in Hosts THEN [hostHas EXCEPT ![t] = {}] ELSE hostHas
    /\ UNCHANGED <<svcVars, instn, disk, inq, userVars>>

\* It comes back and, unless it is the stash, announces itself to the
\* service, if there is one to hear it.
TargetUp(t) ==
    /\ t \notin up
    /\ up' = up \cup {t}
    /\ inq' = IF t # Stash /\ svc # "down" THEN [inq EXCEPT ![t] = Append(@, Online)] ELSE inq
    /\ UNCHANGED <<svcVars, instn, disk, aggHas, hostHas, poked, net, userVars, used>>

-----------------------------------------------------------------------------
Bounded == {"requests", "early", "timeouts", "rejects", "crashes", "restarts"}

\* Nothing has been created, and every agent is up.
Empty ==
    /\ svc = "down" /\ listed = {} /\ known = {} /\ supports = {}
    /\ instn = [i \in Instns |-> Blank]
    /\ ninsts = [a \in Aggrs |-> 0]
    /\ nextid = [s \in Scopes |-> 1]
    /\ disk = [i \in Instns |-> None]
    /\ aggHas = [a \in Aggrs |-> [i \in Instns |-> None]]
    /\ hostHas = [h \in Hosts |-> {}]
    /\ up = Targets /\ poked = {}
    /\ net = [t \in Targets |-> [i \in Instns |-> <<>>]]
    /\ inq = [t \in Targets |-> <<>>]
    /\ owed = [i \in Instns |-> 0]
    /\ acked = {} /\ delreq = {} /\ deadOK = {} /\ twice = {}

Init == Empty /\ used = [w \in Bounded |-> 0]

StartTask(i) ==
    StartSave(i) \/ StartAggr(i) \/ StartZonesGlobal(i) \/ StartZonesCust(i) \/ StartInstrs(i)

EndTask(i, ok) ==
    \/ CreateDone(i, ok) \/ SaveDone(i, ok) \/ SetPropsDone(i, ok) \/ DeleteDone(i, ok)
    \/ AggrDone(i, ok)
    \/ \E h \in Hosts : InstrDone(i, h, ok)

Http(i) == HttpDelete(i) \/ Reap(i) \/ \E v \in PropVals : HttpSetProps(i, v)

Boot == Start \/ LoadList \/ LoadFetch

Notified(t) ==
    \/ t \in Aggrs /\ AggOnline(t)
    \/ t \in Hosts /\ \E ok \in Metadata : HostOnline(t, ok)
    \/ DropLate(t)

Execute(t, i) ==
    \/ t = Stash /\ (StashCarry(i, TRUE) \/ (StashErrs /\ StashCarry(i, FALSE)))
    \/ t \in Aggrs /\ AggCarry(t, i)
    \/ t \in Hosts /\ HostCarry(t, i)

\* A task found queued once stop() has begun fails instnRun's assertion.
AssertStopped ==
    /\ svc = "stopping"
    /\ \E i \in Instns : instn[i].cur = None /\ instn[i].tasks # <<>>
    /\ Die
    /\ UNCHANGED used

Next ==
    \/ Boot \/ AssertStopped \/ Crash \/ Stop \/ StopDone
    \/ \E s \in Scopes, v \in PropVals : HttpCreate(s, v)
    \/ \E i \in Instns :
          \/ Http(i) \/ StartTask(i) \/ ZonesFail(i)
          \/ \E ok \in BOOLEAN : EndTask(i, ok)
          \/ \E zs \in SUBSET Hosts : ZonesDone(i, zs)
    \/ \E t \in Targets :
          \/ Notified(t) \/ Announce(t) \/ TargetDown(t) \/ TargetUp(t)
          \/ \E i \in Instns : Execute(t, i)

Spec == Init /\ [][Next]_vars

\* Node runs every callback that is due; agents come back after a restart
\* and carry out what is in their queues; the service is restarted when it
\* dies.  Nothing obliges anybody to make requests, crash or time out.
Fairness ==
    /\ WF_vars(Start) /\ WF_vars(LoadList) /\ WF_vars(LoadFetch)
    /\ WF_vars(StopDone) /\ WF_vars(AssertStopped)
    /\ \A i \in Instns :
          /\ WF_vars(StartTask(i))
          /\ WF_vars(\E zs \in SUBSET Hosts : ZonesDone(i, zs))
          /\ \A ok \in BOOLEAN : WF_vars(EndTask(i, ok))
          /\ \A t \in Targets : WF_vars(Execute(t, i))
    /\ \A t \in Targets : WF_vars(Notified(t)) /\ WF_vars(Announce(t)) /\ WF_vars(TargetUp(t))

FairSpec == Spec /\ Fairness

-----------------------------------------------------------------------------
(* Properties.  Those about an instrumentation except the ids in twice: of *)
(* two objects with one id only one is followed here.                      *)

Messages(t) == [op: {"put", "del", "enable", "disable"},
                arg: (IF t = Stash THEN Buckets ELSE Confs) \cup {None}, live: BOOLEAN]
Replies == [k: {"ack", "online"}, i: Instns \cup {None}]

ServiceType ==
    /\ svc \in {"down", "list", "fetch", "up", "stopping"}
    /\ ninsts \in [Aggrs -> Int]
    /\ nextid \in [Scopes -> 1..(MaxId + 1)]
    /\ known \subseteq Aggrs \cup Hosts
    /\ supports \subseteq Hosts
    /\ listed \subseteq Instns

ExternalType ==
    /\ disk \in [Instns -> Buckets \cup {None}]
    /\ aggHas \in [Aggrs -> [Instns -> Confs \cup {None}]]
    /\ hostHas \in [Hosts -> SUBSET Instns]
    /\ up \subseteq Targets
    /\ poked \subseteq Aggrs \cup Hosts

NetType ==
    /\ net = [t \in Targets |-> net[t]]
    /\ \A t \in Targets : net[t] \in [Instns -> Seq(Messages(t))]

InqType == inq \in [Targets -> Seq(Replies)]

UserType ==
    /\ owed \in [Instns -> Int]
    /\ acked \subseteq Instns /\ delreq \subseteq Instns /\ deadOK \subseteq Instns
    /\ twice \subseteq Instns

UsedType == used \in [Bounded -> Nat]

TypeOK ==
    /\ instn \in [Instns -> Objects]
    /\ ServiceType /\ ExternalType /\ NetType /\ InqType /\ UserType /\ UsedType

Queued(i, funcs) == \E k \in DOMAIN instn[i].tasks : instn[i].tasks[k].f \in funcs
Doing(i, funcs) == Running(i, funcs) \/ Queued(i, funcs)

\* An instrumentation that clients were told exists (201), and that nobody
\* asked to delete, is in the stash: a crash of the service at any point, a
\* save that timed out, or a command carried out late does not lose it.
Durable == \A i \in acked \ (delreq \cup twice) : disk[i] # None

\* Once DELETE was answered with 204 the instrumentation does not come back:
\* its bucket is gone and nothing on its way to the stash writes it again.
NoResurrection ==
    \A i \in deadOK \ twice :
        /\ disk[i] = None
        /\ \A k \in DOMAIN net[Stash][i] : net[Stash][i][k].op = "del"

\* A deleted instrumentation is only ever disabled: no task that could save
\* it, delete it again (instnTaskDelete asserts !cfi_deleted) or enable it on
\* the aggregator is queued or running (instnTasksFlush, the cfi_deleted test
\* of instnTaskInstrsUpdate).
DeadOnlyDisables ==
    \A i \in Instns : instn[i].where = "dead" =>
        /\ ~Doing(i, Funcs \ {"aggrDisable", "instrsUpdate"})
        /\ Running(i, {"instrsUpdate"}) => instn[i].want = {}

\* A customer's instrumentation is never propagated to instrumenters before
\* its zones are known (the assertion of instnTaskInstrsUpdate), and only to
\* hosts that have zones of the customer (the assertions of instrEnable).
CustomerScoped ==
    \A i \in Instns : Scope(i) # Global =>
        /\ Doing(i, {"instrsUpdate"}) => instn[i].zones # None
        /\ Running(i, {"instrsUpdate"}) => instn[i].want = instn[i].zones

\* cag_ninsts counts exactly the instrumentations of the aggregator that are
\* active or being created, through failed creations, deletions and reloads,
\* until a creation served while the configuration was loading has taken the id
\* of one that was found: that id is counted twice.
NinstsExact ==
    twice = {} => \A a \in Aggrs : ninsts[a] =
        Cardinality({i \in Instns : instn[i].aggr = a /\ instn[i].where \in {"creating", "live"}})

\* What the service believes about an instrumenter is true, or the
\* instrumenter is about to correct it: an enabled entry of an active
\* instrumentation means that the instrumenter has it, unless it went away
\* and its announcement is still to come.
BeliefSound ==
    \A i \in Instns, h \in Hosts :
        (i \notin twice /\ Live(i) /\ h \in instn[i].want /\ instn[i].state[h] = "on")
            => \/ i \in hostHas[h]
               \/ h \notin up
               \/ \E k \in DOMAIN inq[h] : inq[h][k] = Online

\* Once the configuration is loaded, the id of an instrumentation being created
\* is not that of one that exists for clients (cfg_nextid after a reload,
\* whatever was created while it went on).  Ids given out while the
\* configuration is loading are excepted: they may be those of instrumentations
\* that exist (Startup!NotOverwritten).
NoIdReuse ==
    [][\A i \in Instns :
          (/\ svc \in {"up", "stopping"}
           /\ instn[i].where # "creating" /\ instn'[i].where = "creating")
              => i \notin acked \ delreq]_vars

\* When a deleted instrumentation leaves cfg_dead its aggregator does not have
\* it and nothing that enables it is on its way: the disable is retried until
\* it succeeds.  (As long as the service has not crashed: an instrumentation
\* deleted before its aggregator has been heard from again is not disabled there.)
AggrClean(i, a) ==
    /\ aggHas[a][i] = None
    /\ \A k \in DOMAIN net[a][i] : net[a][i][k].op = "disable"

DeadLeavesClean ==
    [][\A i \in Instns, a \in Aggrs :
          (/\ i \notin twice /\ instn[i].where = "dead" /\ instn[i].aggr = a
           /\ instn'[i].where = "none" /\ svc' = "up")
              => AggrClean(i, a)']_vars

\* The aggregator of an active instrumentation ends up with its current
\* properties, whatever restarted in between: "we'll poke it when it comes
\* back up" (instnTaskAggrUpdate).
AggrConverges ==
    <>[](\A i \in Instns \ twice : Live(i) => aggHas[instn[i].aggr][i] = instn[i].conf)

\* Every instrumenter ends up with the active instrumentations it should have
\* enabled: all of the operators', and a customer's where it has zones.
InstrConverges ==
    <>[](\A i \in Instns \ twice, h \in Hosts :
            (Live(i) /\ (instn[i].zones = None \/ h \in instn[i].zones)) => i \in hostHas[h])

\* Every accepted request is answered, or the service went down.
RequestsAnswered == \A i \in Instns : owed[i] > 0 ~> owed[i] = 0 \/ i \in twice
=============================================================================
