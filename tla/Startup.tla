------------------------------- MODULE Startup -------------------------------
(***************************************************************************)
(* How the configuration service (lib/ca/ca-svc-config.js) comes to know   *)
(* what it has to do: it loads what it has saved, after migrating it from  *)
(* the legacy form, while instrumenters and aggregators announce           *)
(* themselves, with the metrics they have, and while users already make    *)
(* requests.  Then it finds out where the machines of a customer are, and  *)
(* enables instrumentations where their metrics are supported.             *)
(*                                                                         *)
(* What becomes of an instrumentation afterwards is the subject of         *)
(* ConfigSvc, which splits each task into its commands and answers.  Here  *)
(* a task that waits for the stash or for instrumenters only is one step.  *)
(***************************************************************************)
EXTENDS Metrics, Props, Sdc, Http

CONSTANTS
    Global, Custs,      \* scopes: operators (cfi_scopeid undefined) and customers
    Docs,               \* what instrumenters may announce after they are upgraded
    Setups,             \* what there may be at first: profiles (names with metrics), the
                        \* legacy bucket and those of instrumentations, what instrumenters
                        \* announce, and the servers that are set up
    Creations, Raw,     \* creation requests, and how requests may look like on the wire
    MaxId,              \* BOUND: instrumentation ids per scope
    MaxRequests,        \* BOUND: HTTP requests
    MaxEvents           \* BOUND: failures, requests and changes of the environment

VARIABLES
    phase,      \* down, list, put, delete, fetch, up; or dead, without profiles
    profiles,   \* what the profile manager finds
    legacy,     \* external: the legacy bucket
    buckets,    \* external: the buckets ca.config.instn.*
    plan,       \* what is being put, or the buckets listed
    objs,       \* the instrumentation objects: each id may be created and be loaded
    instns,     \* cfg_instns: which of these is meant by an id
    nextid,     \* cfg_nextid and cfg_custs[c].id
    md, set,    \* cfg_metadata and cfg_metrics
    known,      \* cfg_instrs
    online,     \* has the aggregator been heard from
    doc,        \* external: what each instrumenter announces
    has,        \* external: the instrumentations enabled on each instrumenter
    due,        \* external: the instrumenters that have not announced themselves yet
    http,       \* the requests: [stage, code, wait]
    refused,    \* ghost: instrumenters whose metadata were not accepted
    unread,     \* the buckets that could not be read
    saved,      \* ghost: what has been saved for good: ids, with the requests that made them
    lost,       \* ghost: the ids of which an early creation took what had been put
    used        \* the bounded events so far

memory == <<plan, objs, instns, nextid, md, set, known, online, unread>>
stash == <<legacy, buckets, saved, lost>>
agents == <<doc, has, due>>
vars == <<phase, profiles, memory, stash, agents, http, refused, used, sdcVars>>

Scopes == {Global} \cup Custs
Ids == Scopes \X (1..MaxId)
Undefined == <<>>
Optional(S) == {Undefined} \cup {<<x>> : x \in S}

\* What may have been saved by an earlier version, and where: the ids in the legacy bucket
\* are none of those that have buckets of their own, and the machines of a customer were
\* found on servers that CNAPI knows.
Saved(conf, id, servers) ==
    /\ id \in Ids
    /\ conf = [base |-> conf.base, decomp |-> conf.decomp, by |-> 0, zones |-> conf.zones]
    /\ \/ conf.zones = Undefined
       \/ /\ id[1] # Global /\ conf.zones = <<conf.zones[1]>>
          /\ DOMAIN conf.zones[1] \subseteq DOMAIN ByHost(Resolved(servers))
ASSUME SetupsAssumption == \A s \in Setups :
    /\ \A id \in DOMAIN s.legacy : Saved(s.legacy[id], id, s.registered)
    /\ \A id \in DOMAIN s.buckets : Saved(s.buckets[id], id, s.registered)
    /\ DOMAIN s.legacy \cap DOMAIN s.buckets = {}

\* What instrumenters announce.
ASSUME DocsAssumption ==
    /\ \A d \in Docs : SelfDescribed(d)
    /\ \A s \in Setups : \A h \in DOMAIN s.doc : SelfDescribed(s.doc[h])

ASSUME StartupAssumption == MaxId \in Nat /\ MaxRequests \in Nat

Event == used < MaxEvents /\ used' = used + 1
Free == UNCHANGED used
Running == phase \notin {"down", "dead"}

-----------------------------------------------------------------------------
(* Objects.  An id is that of one object made by a request and of one that *)
(* is loaded, which takes its place.                                       *)

\* caCfgInstn.  "by" is the request that created it, 0 for what was saved before.
\* "on" is the state of the instrumenters in cfi_instrs, "at" what the task waits for;
\* "lacks", "blind" and "missed" are ghosts (see Finished, Requested and InstrsUpdate).
Instn(conf, tasks) == [base |-> conf.base, decomp |-> conf.decomp, by |-> conf.by,
                       zones |-> conf.zones, on |-> Nothing, tasks |-> tasks, at |-> "idle",
                       lacks |-> {}, blind |-> FALSE, missed |-> {}]
Conf(o) == [base |-> o.base, decomp |-> o.decomp, by |-> o.by, zones |-> o.zones]
Enqueue(o, ts) == [o EXCEPT !.tasks = @ \o ts]
Current == {<<id, instns[id]>> : id \in DOMAIN instns}
Globals == {k \in Current : k[1][1] = Global}
Fields(o) == {o.decomp[i] : i \in DOMAIN o.decomp}

Starts(k, task) == /\ Running /\ objs[k].at = "idle"
                   /\ objs[k].tasks # <<>> /\ Head(objs[k].tasks) = task
Started(k) == [objs[k] EXCEPT !.tasks = Tail(@)]

-----------------------------------------------------------------------------
(* Starting and stopping                                                   *)

Forget ==
    /\ plan' = Nothing /\ objs' = Nothing /\ instns' = Nothing
    /\ nextid' = [s \in Scopes |-> 1]
    /\ md' = NoMetadata /\ set' = NoMetrics /\ known' = {} /\ online' = FALSE /\ unread' = {}

\* The constructor and start(), up to the connection to the broker and the first request to
\* the stash.  All instrumenters are asked to announce themselves.
Start ==
    /\ phase = "down"
    /\ phase' = IF {"customer", "operator"} \subseteq DOMAIN profiles THEN "list" ELSE "dead"
    /\ StartSdc
    /\ due' = DOMAIN doc
    /\ UNCHANGED <<profiles, memory, stash, doc, has, http, refused, used, registered>>

\* The process ends: start() fails, or an exception is not caught.  Connections end with it.
Dies ==
    /\ phase' = "down"
    /\ Forget /\ StopSdc
    /\ http' = [r \in DOMAIN http |-> IF http[r].stage \in {"none", "done"} THEN http[r]
                                      ELSE [stage |-> "cut", code |-> 0, wait |-> {}]]
    /\ refused' = {}
    /\ UNCHANGED <<profiles, doc, has, due, registered>>

Crash == Running /\ Event /\ Dies /\ UNCHANGED stash

\* Requests to the stash while loading that time out are made again (loadConfig), fail the
\* start (migrateConfig, loadConfigFrom), or are refused.
LoadFails == phase \in {"list", "fetch"} /\ Event /\ Dies /\ UNCHANGED stash

Loading(next) ==
    /\ phase' = next
    /\ UNCHANGED <<profiles, nextid, md, set, known, online, agents, http, refused, sdcVars>>

\* loadConfig: the legacy configuration is migrated first.
List ==
    /\ phase = "list" /\ Free
    /\ IF legacy # Nothing THEN Loading("put") /\ plan' = legacy
       ELSE Loading("fetch") /\ plan' = buckets
    /\ UNCHANGED <<objs, instns, unread, stash>>

\* migrateConfig: some of the buckets may not be written, or it is too late when they are.
Migrated(some) == Merged([id \in some |-> plan[id]], buckets)
\* (Seeded fault.)
ErrorsIgnored(some) == TRUE
AllPut(some) == some = DOMAIN plan
Put ==
    /\ phase = "put"
    /\ \E some \in SUBSET DOMAIN plan :
        /\ buckets' = Migrated(some)
        /\ \/ /\ AllPut(some) /\ Loading("delete")
              /\ UNCHANGED <<plan, objs, instns, unread>> /\ Free
           \/ Dies /\ Event
    /\ UNCHANGED <<legacy, saved, lost>>

\* Whether the deletion worked is found out by loading again.
DeleteLegacy ==
    /\ phase = "delete"
    /\ \/ legacy' = Nothing
       \/ UNCHANGED legacy
    /\ \/ Loading("list") /\ UNCHANGED <<plan, objs, instns, unread>>
          /\ IF legacy' = Nothing THEN Free ELSE Event
       \/ Dies /\ Event
    /\ UNCHANGED <<buckets, saved, lost>>

\* loadConfigFrom and instnLoad, for the buckets that can be read.
LoadTasks(id, conf) ==
    IF id[1] = Global \/ conf.zones # Undefined THEN <<"instrs", "zones">> ELSE <<"zones">>
Loaded(id, conf) ==
    Instn([conf EXCEPT !.zones = IF id[1] # Global /\ @ = Undefined THEN <<Nothing>> ELSE @],
          LoadTasks(id, conf))
IdsUsed(s, some) == {id[2] + 1 : id \in {i \in some : i[1] = s}}
Greatest(S) == CHOOSE n \in S : \A m \in S : m <= n
IdsAfter(some) == [s \in Scopes |-> Greatest({nextid[s]} \cup IdsUsed(s, some))]
Fetch ==
    /\ phase = "fetch"
    /\ \E some \in SUBSET DOMAIN plan :
        /\ phase' = "up" /\ plan' = Nothing
        /\ objs' = Merged([k \in {<<id, "loaded">> : id \in some} |-> Loaded(k[1], buckets[k[1]])], objs)
        /\ instns' = Merged([id \in some |-> "loaded"], instns)
        /\ nextid' = IdsAfter(some)
        /\ unread' = DOMAIN plan \ some
        /\ IF some = DOMAIN plan THEN Free ELSE Event
    /\ UNCHANGED <<profiles, md, set, known, online, stash, agents, http, refused, sdcVars>>

-----------------------------------------------------------------------------
(* Announcements                                                           *)

AggOnline ==
    /\ Running /\ ~online /\ Free
    /\ online' = TRUE
    /\ UNCHANGED <<phase, profiles, plan, objs, instns, nextid, md, set, known, unread,
                   stash, agents, http, refused, sdcVars>>

\* amqpInstrOnline.  Instrumentations that are wanted everywhere look for a new host; those
\* that are to run on this host are enabled again.
\* (Seeded fault.)
NotNew(h) == FALSE
New(h) == h \notin known
Restarted(o, h) ==
    IF Has(o.on, h)
    THEN Enqueue([o EXCEPT !.on[h] = FALSE, !.missed = @ \ {h}], <<"instrs">>)
    ELSE o
Told(k, h) ==
    IF k \notin Current THEN objs[k]
    ELSE Restarted(IF New(h) /\ k \in Globals THEN Enqueue(objs[k], <<"zones">>) ELSE objs[k], h)

\* What is kept of metadata that are not accepted: no metrics of that host.
\* (Seeded fault.)
AcceptedMetricsAnyway(m, d) == IF Has(d, "metrics") THEN d.metrics ELSE <<>>
AcceptedMetrics(m, d) == IF m.ok THEN d.metrics ELSE <<>>
InstrOnline(h) ==
    LET m == addMetadata(md, doc[h])
    IN  /\ Running /\ h \in due /\ Free
        /\ due' = due \ {h}
        /\ known' = known \cup {h}
        /\ md' = [m EXCEPT !.ok = TRUE]
        /\ set' = addFromHost(set, AcceptedMetrics(m, doc[h]), h)
        /\ objs' = IF m.ok THEN [k \in DOMAIN objs |-> Told(k, h)] ELSE objs
        /\ refused' = IF m.ok THEN refused ELSE refused \cup {h}
        /\ UNCHANGED <<phase, profiles, plan, instns, nextid, online, unread, stash, doc, has,
                       http, sdcVars>>

\* External: an instrumenter restarts, perhaps as another version.
Restart(h, d) ==
    /\ Event
    /\ doc' = [doc EXCEPT ![h] = d]
    /\ has' = [has EXCEPT ![h] = {}]
    /\ due' = due \cup {h}
    /\ UNCHANGED <<phase, profiles, memory, stash, http, refused, sdcVars>>

-----------------------------------------------------------------------------
(* Tasks                                                                   *)

Set(k, o) == objs' = [objs EXCEPT ![k] = o]

\* instnTaskZonesUpdate: operators want everything; the machines of a customer are asked for.
ZonesGlobal(k) ==
    /\ Starts(k, "zones") /\ k[1][1] = Global /\ Free
    /\ Set(k, Enqueue([Started(k) EXCEPT !.zones = Undefined], <<"instrs">>))
    /\ UNCHANGED <<phase, profiles, plan, instns, nextid, md, set, known, online, unread, stash,
                   agents, http, refused, sdcVars>>

ZonesCustomer(k) ==
    /\ Starts(k, "zones") /\ k[1][1] # Global /\ Free
    /\ Set(k, [Started(k) EXCEPT !.at = "vmapi"])
    /\ UNCHANGED <<phase, profiles, plan, instns, nextid, md, set, known, online, unread, stash,
                   agents, http, refused, sdcVars>>

\* The end of listContainers: on failure the task is queued again.  "lacks" is a ghost: the
\* machines it should have found.
Finished(o, c, promised) ==
    IF Unresolved(c) THEN Enqueue([o EXCEPT !.at = "idle"], <<"zones">>)
    ELSE Enqueue([o EXCEPT !.at = "idle", !.zones = <<ByHost(Resolved(c.cache))>>,
                           !.lacks = Resolved(promised) \ Resolved(c.cache)],
                 <<"save", "instrs">>)

\* VMAPI answers.
\* (Seeded fault.)
CompleteEnough(cache) == Resolved(cache) # {}
CompleteNow(cache) == Complete(cache)
Listed(k) ==
    /\ Running /\ objs[k].at = "vmapi" /\ Free
    /\ IF CompleteNow(cam.cache)
       THEN Set(k, Finished(objs[k], cam, registered)) /\ UNCHANGED <<cam, asked>>
       ELSE Set(k, [objs[k] EXCEPT !.at = "cnapi"]) /\ kick
    /\ UNCHANGED <<phase, profiles, plan, instns, nextid, md, set, known, online, unread, stash,
                   agents, http, refused, registered>>
NotListed(k) ==
    /\ Running /\ objs[k].at = "vmapi" /\ Event
    /\ Set(k, Enqueue([objs[k] EXCEPT !.at = "idle"], <<"zones">>))
    /\ UNCHANGED <<phase, profiles, plan, instns, nextid, md, set, known, online, unread, stash,
                   agents, http, refused, sdcVars>>

\* CNAPI answers, which wakes up those who wait for it.
Woken(c, promised) ==
    objs' = [k \in DOMAIN objs |->
                IF objs[k].at = "cnapi" THEN Finished(objs[k], c, promised) ELSE objs[k]]
CnapiReplies ==
    /\ Running /\ cam.pending
    /\ \/ /\ \E found \in {asked, registered} : cam' = Fetched(found)
          /\ Woken(cam', asked) /\ Free
       \/ cam' = FetchFailed /\ Woken(cam', {}) /\ Event
    /\ UNCHANGED <<phase, profiles, plan, instns, nextid, md, set, known, online, unread, stash,
                   agents, http, refused, registered, asked>>

\* External: a server is set up.
Register(s) ==
    /\ s \notin registered /\ Event
    /\ registered' = registered \cup {s}
    /\ UNCHANGED <<phase, profiles, memory, stash, agents, http, refused, cam, asked>>

\* instnTaskInstrsUpdate.  A base metric that nobody has announced is null, and is asked
\* for its module as soon as there is a host in question.
Wanted(o) == IF o.zones = Undefined THEN known ELSE DOMAIN o.zones[1]
Entries(o) == [h \in Wanted(o) |-> FALSE]
InQuestion(o) == Merged(o.on, Entries(o))
Outdated(o, h) ==
    /\ h \in known
    /\ supports(set, o.base, Fields(o), h)
    /\ InQuestion(o)[h] # (h \in Wanted(o))
Throws(o) == ~Has(set.all, o.base) /\ DOMAIN InQuestion(o) \cap known # {}

\* A command is refused, or is not answered in time although it may be carried out; a failure
\* is logged and nothing else.  "missed" is a ghost: whose last command failed, until they
\* announce themselves.
InstrsUpdate(k) ==
    LET o == Started(k)
        todo == {h \in DOMAIN InQuestion(o) : Outdated(o, h)}
    IN  /\ Starts(k, "instrs")
        /\ ~Throws(o)
        /\ \E done \in SUBSET todo : \E ok \in SUBSET done :
            /\ IF todo \ ok \subseteq due THEN Free ELSE Event
            /\ Set(k, [o EXCEPT !.on = [h \in DOMAIN InQuestion(o) \ (ok \ Wanted(o)) |->
                                            InQuestion(o)[h] \/ h \in ok],
                                !.missed = (@ \cup todo) \ ok])
            /\ has' = [h \in DOMAIN has |-> IF h \notin done THEN has[h]
                                       ELSE IF h \in Wanted(o) THEN has[h] \cup {k[1]}
                                       ELSE has[h] \ {k[1]}]
        /\ UNCHANGED <<phase, profiles, plan, instns, nextid, md, set, known, online, unread, stash,
                       doc, due, http, refused, sdcVars>>

InstrsThrow(k) ==
    /\ Starts(k, "instrs") /\ Throws(Started(k)) /\ Event
    /\ Dies /\ UNCHANGED stash

\* instnTaskSave puts the bucket; it may be put although no answer comes in time.
Others(k) == \/ Has(saved, k[1]) /\ saved[k[1]] # objs[k].by
             \/ Has(buckets, k[1]) /\ buckets[k[1]].by # objs[k].by
Puts(k) ==
    /\ buckets' = Updated(buckets, k[1], Conf(objs[k]))
    /\ lost' = IF objs[k].blind /\ Others(k) THEN lost \cup {k[1]} ELSE lost
PutFails(k) == Event /\ (Puts(k) \/ UNCHANGED <<buckets, lost>>)

Save(k) ==
    /\ Starts(k, "save")
    /\ Set(k, Started(k))
    /\ (Puts(k) /\ Free) \/ PutFails(k)
    /\ UNCHANGED <<phase, profiles, plan, instns, nextid, md, set, known, online, unread, legacy,
                   saved, agents, http, refused, sdcVars>>

-----------------------------------------------------------------------------
(* Requests.  connect answers 500 if a handler throws (external).          *)

Answer(r, code) == http' = [http EXCEPT ![r] = [stage |-> "done", code |-> code, wait |-> {}]]
Awaits(r, stage, wait) == http' = [http EXCEPT ![r] = [stage |-> stage, code |-> 0, wait |-> wait]]
OnlyHttp == UNCHANGED <<phase, profiles, memory, stash, agents, refused, sdcVars>>

\* A request arrives, and is routed unless it cannot be read.  httpReady is always true.
Arrive(r, w) ==
    /\ Running /\ Event
    /\ http[r].stage = "none" /\ \A q \in 1..(r - 1) : http[q].stage # "none"
    /\ IF Decoded(w) = OK THEN Awaits(r, "routed", {}) ELSE Answer(r, Decoded(w))
    /\ OnlyHttp

Routed(r) == Running /\ http[r].stage = "routed"

\* httpMetricSet.
httpMetricSet(scope, profile) ==
    IF scope = Global /\ profile = "none" THEN set.all
    ELSE intersection(profiles[IF scope = Global THEN "operator" ELSE "customer"], set.all)

\* instnCreate.  An id is used up even if there is no aggregator to pick.
Valid(c) ==
    LET metrics == httpMetricSet(c.scope, c.profile)
    IN  /\ Has(metrics, c.base)
        /\ instnValidateProps([f \in metrics[c.base] |-> fieldArity(md, f)], c, c.scope = Global)
Requested(r, c) ==
    LET id == <<c.scope, nextid[c.scope]>>
        conf == [base |-> c.base, decomp |-> c.decomp, by |-> r, zones |-> Undefined]
        new == [Instn(conf, <<"create">>) EXCEPT !.blind = phase # "up" \/ id \in unread]
    IN  /\ Routed(r) /\ Free
        /\ IF ~Valid(c) THEN Answer(r, Status("ECA_INVAL")) /\ UNCHANGED <<nextid, objs>>
           ELSE /\ id \in Ids
                /\ nextid' = [nextid EXCEPT ![c.scope] = @ + 1]
                /\ IF online
                   THEN objs' = Updated(objs, <<id, "made">>, new) /\ Awaits(r, "saving", {})
                   ELSE Answer(r, ESERVER) /\ UNCHANGED objs
        /\ UNCHANGED <<phase, profiles, plan, instns, md, set, known, online, unread, stash, agents,
                       refused, sdcVars>>
HttpCreate(r) == \E c \in Creations : Requested(r, c)

\* httpInstnClone: like an existing one, in its scope.
HttpClone(r) ==
    \E k \in Current, profile \in {"none", "operator"} :
        Requested(r, [scope |-> k[1][1], base |-> objs[k].base, decomp |-> objs[k].decomp,
                      profile |-> profile])

\* instnTaskSave of a new instrumentation, and what instnCreate does then.
CreateAnswer(r, code) == Answer(r, code)
Created(k) ==
    LET r == objs[k].by
    IN  /\ Starts(k, "create")
        /\ \/ /\ Puts(k) /\ Free
              /\ instns' = Updated(instns, k[1], "made")
              /\ Set(k, Enqueue(Started(k), <<"zones">>))
              /\ saved' = Merged(saved, Single(k[1], r))
              /\ CreateAnswer(r, CREATED)
           \/ /\ PutFails(k)
              /\ objs' = [q \in DOMAIN objs \ {k} |-> objs[q]]
              /\ \E err \in {"ECA_TIMEDOUT", "ECA_REMOTE"} : CreateAnswer(r, Status(err))
              /\ UNCHANGED <<instns, saved>>
        /\ UNCHANGED <<phase, profiles, plan, nextid, md, set, known, online, unread, legacy, agents,
                       refused, sdcVars>>

\* GET /ca and /ca/metrics, the documentation and fixed lists, and the instrumentations of a
\* scope or a single one of them.
HttpList(r, Able(_, _)) ==
    /\ Routed(r) /\ Free
    /\ \E scope \in Scopes, profile \in {"none", "operator"} :
        Answer(r, IF Able(httpMetricSet(scope, profile), md) THEN OK ELSE ESERVER)
    /\ OnlyHttp
HttpConfigList(r) == HttpList(r, Describable)
HttpLegacyMetricsList(r) == HttpList(r, Labelled)
HttpStatic(r) == Routed(r) /\ Free /\ (\E c \in {OK, ENOTFOUND, ESERVER} : Answer(r, c)) /\ OnlyHttp
HttpInstnsList(r) == Routed(r) /\ Free /\ Answer(r, OK) /\ OnlyHttp
HttpGetProps(r, id) ==
    /\ Routed(r) /\ Free
    /\ Answer(r, IF Has(instns, id) THEN OK ELSE ENOTFOUND)
    /\ OnlyHttp

\* httpInstnValue and caHttpForward: the aggregator answers, cannot be reached, or stops
\* in the middle of its answer, which is never ended then.
HttpValue(r, id) ==
    /\ Routed(r) /\ Free
    /\ IF ~Has(instns, id) THEN Answer(r, ENOTFOUND)
       ELSE IF ~online THEN Answer(r, ESRVUNAVAIL)
       ELSE Awaits(r, "forwarded", {"aggregator"})
    /\ OnlyHttp
Forwarded(r) ==
    /\ http[r].stage = "forwarded"
    /\ \/ Answer(r, OK) /\ Free
       \/ Answer(r, ESRVUNAVAIL) /\ Event
       \/ Awaits(r, "cut", {}) /\ Event
    /\ OnlyHttp

\* status, with the status of all others: each of them answers or is late, and one is not
\* asked as long as its routing key is not known.
\* (Seeded fault.)
AnswerLater(r, wait) == Awaits(r, "asking", wait)
AnswerIfAll(r, wait) == IF wait = {} THEN Answer(r, OK) ELSE Awaits(r, "asking", wait)
HttpStatus(r) ==
    /\ Routed(r) /\ Free
    /\ AnswerIfAll(r, known \cup (IF online THEN {"aggregator"} ELSE {}))
    /\ OnlyHttp
StatusReply(r, who) ==
    /\ http[r].stage = "asking" /\ who \in http[r].wait /\ Free
    /\ AnswerIfAll(r, http[r].wait \ {who})
    /\ OnlyHttp

-----------------------------------------------------------------------------

Init ==
    /\ phase = "down" /\ used = 0
    /\ \E s \in Setups :
        /\ profiles = s.profiles /\ legacy = s.legacy /\ buckets = s.buckets
        /\ doc = s.doc /\ registered = s.registered
    /\ saved = [id \in DOMAIN legacy \cup DOMAIN buckets |-> 0] /\ lost = {}
    /\ plan = Nothing /\ objs = Nothing /\ instns = Nothing /\ nextid = [s \in Scopes |-> 1]
    /\ md = NoMetadata /\ set = NoMetrics /\ known = {} /\ online = FALSE /\ unread = {}
    /\ has = [h \in DOMAIN doc |-> {}] /\ due = {}
    /\ http = [r \in 1..MaxRequests |-> [stage |-> "none", code |-> 0, wait |-> {}]]
    /\ refused = {}
    /\ cam = [cache |-> {}, pending |-> FALSE, error |-> FALSE]
    /\ asked = {}

Request(r) ==
    \/ \E w \in Raw : Arrive(r, w)
    \/ HttpCreate(r) \/ HttpClone(r) \/ HttpConfigList(r) \/ HttpInstnsList(r)
    \/ HttpLegacyMetricsList(r) \/ HttpStatic(r) \/ HttpStatus(r) \/ Forwarded(r)
    \/ \E id \in Ids : HttpValue(r, id) \/ HttpGetProps(r, id)
    \/ \E who \in http[r].wait : StatusReply(r, who)
Task(k) ==
    \/ ZonesGlobal(k) \/ ZonesCustomer(k) \/ Listed(k) \/ NotListed(k)
    \/ InstrsUpdate(k) \/ InstrsThrow(k) \/ Save(k) \/ Created(k)
Load == List \/ Put \/ DeleteLegacy \/ Fetch \/ LoadFails
Next ==
    \/ Start \/ Crash \/ Load \/ AggOnline \/ CnapiReplies
    \/ \E h \in DOMAIN doc : InstrOnline(h) \/ \E d \in Docs \cup {doc[h]} : Restart(h, d)
    \/ \E s \in DOMAIN Servers : Register(s)
    \/ \E k \in DOMAIN objs : Task(k)
    \/ \E r \in DOMAIN http : Request(r)
Spec == Init /\ [][Next]_vars

-----------------------------------------------------------------------------
(* Properties                                                              *)

\* What has been saved, in the legacy bucket or in one of its own, is there and unchanged
\* whatever fails while it is migrated and loaded, and is loaded once the service is up;
\* except for what a user's early request has overwritten, and what could not be read.
Intact(id) ==
    \/ Has(buckets, id) /\ buckets[id].by = saved[id]
    \/ Has(legacy, id) /\ ~Has(buckets, id)
Survives ==
    \A id \in DOMAIN saved \ lost :
        Intact(id) /\ (phase = "up" /\ id \notin unread => Has(instns, id))

\* "Because we don't allow users to make changes to instrumentations until migration is
\* complete, this process is idempotent and therefore crash-safe too."
NotOverwritten == lost = {}

\* When nothing is left to do, an instrumentation runs wherever it is wanted and supported,
\* with three exceptions: the metadata of that host were refused, it is about to announce
\* itself, or the last command to it for this instrumentation failed and it has not announced
\* itself since ("We don't bother retrying here").
Idle(k) == objs[k].tasks = <<>> /\ objs[k].at = "idle"
Spread ==
    phase = "up" /\ (\A k \in DOMAIN objs : Idle(k)) =>
        \A k \in Current :
            \A h \in (Wanted(objs[k]) \cap known) \ (refused \cup due \cup objs[k].missed) :
                supports(set, objs[k].base, Fields(objs[k]), h) => k[1] \in has[h]

\* Everything that GET /ca lists, to an operator or a customer, is described: its module,
\* its unit, its fields and their types; whatever metadata were refused, and partly kept.
Listable ==
    Running => \A scope \in Scopes, profile \in {"none", "operator"} :
        Describable(httpMetricSet(scope, profile), md)

\* A machine is missing from the list of a customer's only if its server was not known to
\* CNAPI when it was asked, or could not be asked.
Zoned == \A k \in DOMAIN objs : objs[k].lacks = {}

\* Each request that is not answered is one that something will answer.
Attended ==
    \A r \in DOMAIN http :
        /\ http[r].stage = "saving" =>
               \E k \in DOMAIN objs : objs[k].by = r /\ Head(objs[k].tasks) = "create"
        /\ http[r].stage = "asking" => http[r].wait # {}
=============================================================================
