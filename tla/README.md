# Cloud Analytics: a TLA+ verification project

Cloud Analytics collects statistics of a data centre.  Users create
*instrumentations* over HTTP; a *configuration service* keeps them;
*instrumenters*, one per host, gather a value of each instrumentation every
second; *aggregators* add up the values of all hosts and answer requests for
them; a *stash* saves the state of the others in files.  All of them are
single-threaded Node programs that talk over an AMQP broker.

This directory holds TLA+ models of these programs, the TLC configurations that
check them on small instances, and TLAPS proofs.  `PROJECT.json` is its index:
components, runs, seeded faults that show what each property notices, the source
lines behind each definition, the hazards of the code, the disagreements found,
and the theorems.

Paths below are relative to `src/`; `lib/ca/` is left out where it is clear.

Contents: 1 the system; 2 what is hard; 3 the models; 4 the runs; 5 fairness;
6 what is proved; 7 where the code and its documentation disagree; 8 what is not
modelled; 9 plan.

## 1. The system

### Components, their state and operations

| component | source | state | operations |
|---|---|---|---|
| configuration service | `ca-svc-config.js`, `cmd/caconfigsvc.js` | `cfg_instns`, `cfg_dead`, a task queue per instrumentation, `cfg_aggregators` with `cag_ninsts`, `cfg_instrs`, `cfg_metrics`, `cfg_nextid`, `cfg_custs` | HTTP create, list, show, change, delete; reaping of idle instrumentations; load, migration, stop; reaction to agents that come online; eight kinds of asynchronous tasks |
| stash | `ca-persist.js`, `ca-svc-stash.js`, `ca-task.js`, `cmd/castashsvc.js` | a directory per bucket, `cas_buckets`, a serializer per bucket | replace, read, delete a bucket; list buckets; clean-up at start |
| aggregator | `cmd/caaggsvc.js` | `agg_insts` (dataset, waiting requests, load and save state of each) | enable, disable, reset, data, value requests, tick; load and save of datasets |
| datasets | `ca-agg.js`, `ca-dist.js`, `ca-dutil.js` | values and reporting sources per period | update, expire, stash, unstash; pure functions on distributions and decompositions |
| instrumenter | `ca-svc-instr.js`, `cmd/cainstsvc.js` | `ins_instns`, `ins_last` | enable, disable, reset, tick |
| instrumenter back ends | `cmd/cainst/modules/*`, `ca-zfs.js`, `ca-proc.js` | D programs and their handles; two caches of the output of slow commands | instrument, deinstrument, value; refresh |
| D metric descriptions | `cmd/cainst/modules/dtrace/*` | none | declarations |
| AMQP transport | `ca-amqp.js` | connection, queue, unsent messages | send, bind, connect, reconnect, flush |
| AMQP protocol (CAP) | `ca-amqp-cap.js` | table of outstanding commands with timers | commands, acknowledgements, notifications, stop |
| HTTP server | `ca-http.js` | pending requests | requests with bodies, routing, forwarding, stop |
| SDC client | `ca-sdc.js` | coalesced requests for zones | list containers |
| metrics and types | `ca-metric.js`, `ca-instr.js` | which host supports which metric | add a host, query |
| predicates | `ca-pred.js` | none | validate, simplify, evaluate |
| metadata, D generation | `ca-metad.js`, `ca-metadata.js`, `ca-profile.js`, `metadata/` | loaded descriptions | generation of D text |
| transforms | `cmd/caagg/transforms/*`, `ca-geo.js` | caches | reverse DNS, geolocation |
| helpers | `ca-common.js`, `ca-error.js`, `ca-log.js`, `ca-dbg.js` | none | `caRunParallel`, `caRunStages`, ... |

Command line tools, packaging, service manifests, demonstrations, vendored code
and the tests themselves are not components of the running system.

### How they interact

    client --HTTP--> configuration service --AMQP cmd--> stash (put, get, delete, contents)
                          |    ^                       > aggregator (enable, disable)
                          |    +-- AMQP notify: "online" > instrumenter (enable, disable)
                          +-- HTTP forward --> aggregator (value requests)
    instrumenter --AMQP data, once per second--> aggregator --AMQP cmd--> stash

* A *command* carries an id; its sender keeps a callback in a table with a timer
  of a few seconds.  The callback gets the acknowledgement or a timeout.  A
  command that timed out may still be carried out.
* A *notification* is not acknowledged: "configsvc_online" asks agents to
  announce themselves, and they do so with "agg_online" and "instr_online",
  also when they start.
* A queue belongs to a connected process; what is sent to a missing queue is
  dropped by the broker.
* Within a process, a handler runs to its end; everything else is callbacks.

### What makes each component correct

* *Configuration service*: what clients were told exists survives, what they
  were told is gone stays away; each request is answered once; once the
  configuration is loaded ids are not reused; the aggregators and instrumenters end up with what the service has;
  internal assertions hold; the bookkeeping of load is exact.
* *Stash*: a bucket is replaced or deleted atomically with respect to crashes;
  every bucket with a content is known after a start; buckets are independent.
* *Aggregator*: saved data are not lost by saving again; loads and saves come to
  an end; value requests are answered, at once when the data are complete.
* *Datasets*: what is answered for an interval is the sum of what was reported for
  it, each source counting once per period unless values add up; the structures of
  a heatmap agree with each other.
* *Instrumenter*: acknowledgements are true; every value asked for is reported
  exactly once; a value tells of what has happened since the last one, all of it,
  once, under the right names.
* *D programs*: each operation is counted once, with values of its own, also if the
  program is enabled in the middle of it.
* *Transport, CAP*: one callback per command, and a true one; bindings that survive
  a reconnect; a lost connection is made again.
* *SDC client, metrics, HTTP server*: each request is answered; what is listed is
  described; an instrumentation runs where its metric is supported.

## 2. What is hard

`PROJECT.json` lists the hazards, each at its line with the properties that
cover it.  In short:

* **Crashes between two steps.** State is in memory; what survives is what the
  stash has saved and what agents still hold.
* **Commands that time out and are carried out later.** The sender goes on with
  the next task although the previous one may still take effect.
* **Restarts of agents** at any moment, in the middle of an update.
* **Objects replaced while callbacks on them are pending** (aggregator).
* **Requests that arrive during a slow operation**: refreshes of caches, loads,
  replacement of buckets, tasks of the same instrumentation, the start itself.
* **Connections that are lost** while commands are outstanding, bindings are
  being made, or the queue is still locked by an earlier life of the process.
* **Programs enabled in the middle of what they observe**: operations of threads
  begin before, nest, overlap, and are of other zones.
* **Redundant structures** that are changed each on its own: heatmaps by key,
  by period and in total; columns of a cache and their consumers; loads by hand.
* **Numeric edges**: periods, expected sources, granularities that are clamped,
  the bounds of buckets, differences of counters that were created anew.

## 3. The models

| module | models | uses |
|---|---|---|
| `ConfigSvc` | configuration service, with agents and stash reduced to the effect of a command, and the channels between them | |
| `ConfigSvc_proofs` | proofs about it: tasks; what the stash has, counts and ids; what agents have, and what the service believes they have | `ConfigSvc` |
| `Startup` | the start of that service: load, migration, announcements with metrics, HTTP requests, zones | `Metrics`, `Props`, `Sdc`, `Http` |
| `Startup_proofs` | proofs about it | `Startup` |
| `Metrics` | metric sets and metadata, and how announcements are merged | `Objects` |
| `Objects` | JavaScript's objects, as functions: what they have, merging and updating them | |
| `Props`, `Pred` | validation of the properties of an instrumentation; predicates | |
| `Sdc` | the cache of server names and the fetch that several wait for | |
| `Http` | how a request is read and refused | |
| `StashSpec` | what the stash promises: atomic buckets | |
| `Stash` | the stash down to the single file system call | refines `StashSpec` |
| `Stash_proofs` | proofs about it | `Stash` |
| `Instrumenter` | instrumenter service with its DTrace, zfs and proc back ends | |
| `Instrumenter_proofs` | proofs about it | `Instrumenter` |
| `Values` | what one instrumentation reports, from the request to the value, while what it measures changes | `Backends` |
| `Backends`, `Kstat` | the metrics of zfs, proc, cainstr and fake; those of kstat | `Kstat`, `Props`; `Buckets` |
| `Buckets` | from data points to values: filters, decompositions, bucketizers | `Pred`, `Sums` |
| `MetaD` | validation of a metric written in D, and generation of its program | |
| `MetaDescs` | every metric written in D | `MetaD` |
| `MetaRun` | the generated programs at work | `MetaDescs` |
| `MetaRun_proofs` | proofs about it | `MetaRun` |
| `Aggregator` | aggregator service, the counting part of datasets, and the stash as a FIFO server of commands | |
| `Aggregator_proofs` | proofs about it | `Aggregator` |
| `Dataset`, `Sums` | the four kinds of datasets; sums of values | |
| `Requests` | what a request for raw values, an image or details asks for and is answered | `Dataset` |
| `Dataset_proofs` | proofs about both | `Requests` |
| `Amqp` | the connection of a process to the broker | |
| `CapWire` | the messages: what is sent, what is accepted, what counts as success | |
| `CallSpec` | what the command layer promises of a command | |
| `AmqpCap` | the command layer over its connection, with a peer | `Amqp`, `CapWire`; refines `CallSpec` |
| `AmqpCap_proofs` | proofs about it | `AmqpCap` |
| `MC...` | operators that configurations give to constants, symmetry | its module |

`ConfigSvc`, `Startup`, `Stash`, `Instrumenter`, `Values`, `MetaRun`,
`Aggregator`, `Dataset` and `AmqpCap` are specifications with a next-state
relation; the others are the operators they are built of.

Definitions marked "seeded fault" or "mutant", or named M... after the definition
they change, are not part of the model: each is a plausible bug of the other
definition; substituting it must make the property that `PROJECT.json` names for
it fail.

### ConfigSvc

`instn[i]` is the object of an instrumentation: where it is (`cfg_instns`,
`cfg_dead`, or held only by the callback of its creation), its queue of tasks
and the running one, `cfi_deleted`, its properties, aggregator, zones, and
`cfi_instrs` (what is recorded and what is wanted of each instrumenter).  Tasks
are started by `StartSave`, `StartAggr`, `StartZonesGlobal`, `StartZonesCust`
and `StartInstrs` and ended by `CreateDone`, `SaveDone`, `SetPropsDone`,
`DeleteDone`, `AggrDone`, `ZonesDone`, `ZonesFail` and `InstrDone`, one pair for
each task function of the code.  `Acknowledged` and `Failed` are the outcomes of
a command; `Failed` covers a refusal, a command that went to a missing queue, and
a timeout after which the command may still be carried out (`LateAnswer`).
`HttpCreate`, `HttpSetProps`, `HttpDelete` and `Reap` are the entry points, which
are open as soon as the process runs (`httpReady` tests an object that always
exists): a creation while the configuration is loading takes an id which the load
may find, so that two objects have it and both are counted.  `LoadFetch` then goes
on with the loaded one and puts the id into `twice`, a ghost; properties of single
instrumentations except these ids, and `Startup` follows both objects.
`AggOnline` and `HostOnline` are the reactions to announcements, `Start`, `LoadList`
and `LoadFetch` the load, `Stop`, `StopDone`, `AssertStopped` and `Crash` the ends.
`StashCarry`, `AggCarry` and `HostCarry` carry a command out; `TargetDown`,
`TargetUp` and `Announce` are what agents do on their own.

Abstractions: properties of an instrumentation are one value; a bucket is what
`instnSaveRequest` writes; each agent has one command of an instrumentation at a
time, except late ones.  Values, predicates and metrics appear only as the
outcome of `addFromHost`.  Channels are FIFO, as a declared AMQP queue is.

### Startup

The same service from the other side: not the life of one instrumentation but
what the service knows and when.  `phase` follows `start()` through the profiles,
the legacy bucket, its migration (`List`, `Put`, `DeleteLegacy`) and the load
(`Fetch`); `objs` are the instrumentation objects, of which a creation and the
load may make two for one id, and `instns` says which of them an id means.
`InstrOnline` merges the metadata and metrics of an announcement (`Metrics`),
`ZonesGlobal`, `ZonesCustomer`, `Listed` and `NotListed` find the hosts (`Sdc`),
`InstrsUpdate` enables and disables where the metric is supported (any of these
commands may fail, be carried out although it failed, and is not tried again until
another update; `missed`, a ghost, has the hosts concerned) and may throw
(`InstrsThrow`), `Save` and `Created` end a creation.  Requests arrive (`Arrive`)
as the server reads them (`Http`) and go to one action each, from creation and
clone to lists, values forwarded to an aggregator and the status that waits for
all agents.  Tasks are one step here, since `ConfigSvc` splits them.

### Stash and StashSpec

A directory is absent, complete or incomplete (`Junk`).  Each file system call of
`doBucketFill`, `doBucketDelete`, `doBucketContents` and of `loadBuckets` with its
clean-up is an action (`Mkdir`, `Save`, `Retire`, `Install`, `Discard`, `Unwind`;
`List`, `Purge`, `Move`, `Erase`; `Read`; `Load`, `Remove`, `Promote`, `Serve`); a
crash may come between any two, also during the clean-up, and a call may fail.
Requests on one bucket go through the serializer (`Ask`, `Take`, `Finish`);
different buckets proceed concurrently.

`StashSpec` says what clients may rely on: one request at a time per bucket,
each with one instant of effect or none, effects that survive any crash, and
"ok" only after the effect.  The refinement maps the content of a bucket to its
directory or, between the two renames of a replacement, to the old copy that the
next start will promote.  It holds as long as no file system call fails
(`Sound`); what is left when one does is `OkMeansDone`.  `StashSpec` has one
weakness built in, `torn`, because the implementation has it (section 7).

### Instrumenter

`insInstns`, `insLast`, the handles of D programs (`cadDtr`), `insd_nenablings`
and the two caches are the state of the code; `told` is what the configuration
service was last told, `asked` and `sent` count requests for values and data
messages.  Commands are single steps because every back end calls back from
`instrument` and `deinstrument` before it returns.  `Tick` asks the due
instrumentations for values; those of the caches may have to wait for
`RefreshDone`.  A failing refresh of the proc cache, and `deinstrument` of a
program without a handle, end the process (`Panic`), as they do in the code.

### Values, Backends, Kstat, Buckets, Pred, Props

One instrumentation, as a configuration service would accept it (`ValidFields`,
`ValidDecomposition`, predicates) and as the instrumenter would choose an
implementation for it.  Between ticks the world changes: `KstatHappens`,
`ZfsHappens`, `ProcHappens`, `CaEvent` change counters, make processes come and go, and log what happened in
a ghost, `Churn` makes a kstat come or go.  `KstatValue`,
`ZfsDataValue`, `ProcValue`, `CaValue` and `FakeValue` compute the value as the
back ends do: snapshots and their differences, filters, zones, decomposition,
bucketizers (bounds of log-linear buckets are exact, in hundredths).

### MetaD, MetaDescs, MetaRun

A description is a sequence of clauses: probes, variables gathered, aggregation,
what is verified, what is cleared.  `mdGenerateDScript` drops and completes them
as `ca-metad.js` does; D text is reduced to what it refers to.  `MetaRun` executes
the result: `Begin`, `Within` and `Finish` are operations of threads, `Enable`
and `Reenable` enable the program at any moment.  DTrace and the observed
programs are external.  Its last section says what makes a program `Regular`;
`MCMetaRun` assumes, and TLC evaluates, that nearly all programs are whose
operations do not nest.

### Aggregator and Dataset

`Aggregator` has one instrumentation, because instrumentations share nothing but
the order of their stash commands.  `insts` are all objects made for it in this
life and `current` is the one in `agg_insts`: callbacks of older ones are still to
come.  `EnableUnknown` starts the bind and `Bound` makes the object, whatever has
happened in between; `EnableKnown`, `Disable` and `Reset` are the other
commands; `Data` counts the datum, saves and answers requests; `aggTick` times
requests out, loads again and expires.  `StashStep` and `Fault` carry out, fail
or lose a command, `Answered` and `TimesOut` run its callback.  A dataset is
reduced there to the sources that reported for each period and the number of
values added up, which is what completeness and double counting depend on.

`Dataset` is the other half: the representation of values in each of the four
classes with `update`, `expireBefore`, `stash`, `unstash` and the queries, in any
order.  `Requests` adds no variables: it says what a value request comes to, given
its parameters (`caHttpParam`, `loadParameters`, `Start`), and what it is answered
from the dataset at any time (`complete`, `HeatmapImage`, `HeatmapDetails`), up to
the pixels.  Since a request may be completed at any moment, by the data or by its
timeout, its properties are invariants over all requests in all states.

### AmqpCap over Amqp, CapWire and CallSpec

`conn` says how far a connection has come (`connecting`, `exchange`, `queue`,
`binding`, `up`), `broken` that its end has not been noticed yet; `msgqueue`,
`bindings`, `cmds`, `timers` are the tables of the code.  The handlers of the
command layer that the transport calls in the same step are conjoined with the
transport's action (`connected`, `disconnected`, `fatal`, `error`).  A `Peer`
accepts what `CapWire!Received` lets through and answers with any acknowledgement
some send function builds.  A process has several lives; ids of commands are
composed of its pid and a counter as the code prints them.  `CallSpec` is the
promise for one command: carried out at most once, one callback, no false report.

## 4. The runs

Every module declares its bounds as constants marked "bound" or named `Max...`.
They limit how often the environment acts, never what the code may do in
reaction.  Deadlock is not checked, because every bounded run stops when the
bounds are used up (and a real service is quiet when nobody asks anything of it).

### Runs that pass

| run | instance | checks |
|---|---|---|
| `config_stash` | operator scope, 2 ids, 1 aggregator; 2 requests and a creation while loading, 1 late command, 1 crash or stop | `TypeOK`, `Durable`, `NoResurrection`, `NinstsExact`, `NoIdReuse` |
| `config_agents` | operator and one customer, 1 id each, 1 aggregator, 1 instrumenter; 2 requests, 1 late command, 1 refusal, 1 restart of an agent or the stash | `DeadOnlyDisables`, `BeliefSound`, `CustomerScoped`, `DeadLeavesClean` |
| `config_liveness` | 1 operator instrumentation, 1 aggregator, 1 instrumenter; 1 late command, 1 restart and either 3 requests or 1 request and 1 crash or stop; fairness | `AggrConverges`, `InstrConverges`, `RequestsAnswered` |
| `startup` | 6 situations with legacy and new buckets, of operators and of customers, 2 instrumenters, a customer with 2 machines; 2 events (failures of loads, saves, lookups and commands, restarts, requests) of which 1 request | `Survives`, `Spread`, `Listable`, `Zoned`, `Attended` |
| `stash_atomic` | 2 buckets, 2 contents, 2 random numbers; 3 requests, 2 crashes, 1 failing call; fairness | `Bootable`, `Atomic` (refinement), `Answered`, `OkMeansDone` |
| `instr` | one DTrace instrumentation with 2 programs, one of proc, two of zfs sharing a column; 3 seconds, 1 life, at most 3 enablings | `Conserved`, `AckTruth`, `ProcAttended` |
| `values` | every metric of five back ends with its decompositions, a family of predicates and zones; 18 kstats, 3 datasets, 2 processes; 2 things happen, 1 comes or goes, 3 reads | `Exact`, `Fits` |
| `metad` | every metric in D but two: plain, decomposed by latency, filtered by it; of all zones, one, or two; 2 operations, of 2 threads in 2 zones | `ScriptsSound`, `CountedOnce`, `NothingLeft` |
| `agg` | 1 source, 1 value request, 4 seconds; 2 commands, 2 outstanding stash commands, 1 fault, 1 crash; fairness | `Engaged`, `NoClobber`, `RequestsAnswered` |
| `data` | 5 shapes of instrumentations, 2 sources, 2 keys, 2 buckets, 2 seconds (a period and the next); 2 updates, 1 expiry, 1 crash, 1 load | `Accurate`, `Consistent`, `ImageWhole`, `ReportingTrue` |
| `cap` | a service with 2 lives and 1 lost connection; a tool that never or twice tries again, with 2 lost connections; fairness | `BoundWhenUp`, `TableExact`, `RemoteCalls` (refinement), `Recovers` |

Why these bounds are enough to be interesting:

* `config_stash`: two instrumentations can share ids, the aggregator and the
  load; two requests and the early creation, which the first load allows already,
  make create, change and delete of one of them, two creations and a deletion, or a
  creation, a crash and another with the same id; the late command and the crash may hit any of their
  steps, including the load itself.  `Durable` and `NoResurrection` need exactly
  one command carried out late together with a crash or a deletion.
* `config_agents`: what the service believes goes wrong between one agent and
  one instrumentation; the customer adds the zones.  The two instrumentations
  share the agents' queues.
* `config_liveness`: three requests are a creation and two of property changes,
  deletions and the reaper's, so that requests are queued behind a running delete;
  a restart and a late command hit any of their steps.  With a crash or stop as well
  the graph of three requests is beyond TLC, so that there one request is checked.
  `LiveInit` starts with either budget.
  The disk of the stash does not fail here, and no command is refused.
* `startup`: the situations are those in which steps meet: old and new buckets at
  once, a bucket with zones that were found in an earlier life, a host that supports
  less than another, one whose metadata contradict what is known or refer to a type
  that is not described, servers that CNAPI does not know yet.  Two events allow a failure and a crash, or a creation in the middle
  of a load that fails.
* `stash_atomic`: two crashes, so that the second falls into the clean-up of what
  the first left; two random numbers, so that directories of two lives coexist;
  two buckets, so that serializers run concurrently.
* `instr`: 4, 5 and 6 with granularities of 1 or 2 (3 is refused, 4 is reported
  as 2) give ticks in which the instrumentation is due and one in which it is
  not; zfs data live for three seconds and proc data for one, so that both fresh
  and stale caches occur.  What more lives and instrumentations would add is
  covered by the proofs.
* `values`: three reads give two differences, and something that happens before
  the first read, which must not show; two happenings may be of the same or of
  different kinds, sizes and kstats, so that sums, filters and buckets all have
  something to confuse.  1095 falls between two log-linear buckets, 1100 on the
  start of one.
* `metad`: two operations can nest, overlap in two threads, or follow each other
  in one, with the program enabled before, between or in the middle of them.  For
  the programs whose operations do not nest the proofs cover any number of both;
  all of them, with up to two fields and a predicate, go through the evaluation of
  `RegularAssumption`.
* `agg`: the timeouts of one second let a load, a save and a request time out
  within the four seconds; two commands allow an enable while another's bind is
  pending, disable or reset while a load or save is pending, and switching
  persistence off.  A lost command is a `get` here and a failed one a `put`: a
  lost `put` differs from one that times out before it is carried out only in
  what the stash holds afterwards, which a failed one shows as well.
* `data`: two updates can be of one source or two, of one period or two; the
  copy in the stash can be older or of another period than what it is added to;
  every interval over these seconds is asked for in every state, as one point or
  two, in the URL or in a body, and with parameters that are out of range or no
  numbers; every selection of two keys is drawn in each mode, with and without
  hues of its own.  Default intervals are 1 and 3 seconds here instead of 1 and 60.
* `cap`: one lost connection at any point exercises retry, rebinding and flush,
  a second one the count of retries; ids in base 2 have the lengths that make
  the pid and the counter of two lives run into each other.

### The run that shows a disagreement

`startup_early` checks `NotOverwritten`, which the comment on `migrateConfig`
promises: users cannot make changes until the migration is complete.  `httpReady`
tests an object that always exists, so that they can, and a creation overwrites
a bucket that has not been read yet.

### Seeded faults

Each property of a passing run has a seeded fault that it must notice: a missing
aggregator in the saved configuration, an ignored error, `cfi_deleted` set too
late, a counter that is not decremented, ids handed out again, a restarting
instrumenter that is not updated, a new copy written in place, a replacement that
removes before it renames, a serializer that does not go on, callbacks kept in a
cache that answers them, a command left in the table when its timer runs out, a
queue of messages that is not flushed, bindings not made again, a variable that
is read without its index, a filter that is dropped, a source counted twice, an
expiry that forgets one of three structures, a total that is not added to, points
that overlap, a column beside the image, a
bucket boundary off by one step, metrics taken from an announcement whose
metadata were refused, and so on (`PROJECT.json`, "mutants").

## 5. Fairness

* `ConfigSvc!Fairness` (`MCConfigSvc!LiveSpec` assumes the same): weak fairness of each callback that is due in the service
  (tasks start when the previous one has ended, answers are handled, load and
  stop proceed), of each agent's carrying out of commands and of its restart.
  Node runs every callback whose event has happened, and the service manager
  restarts a process that died.  No fairness is assumed of requests, crashes,
  timeouts, refusals, or of the outcome "zones could not be fetched": a fetch of
  zones is assumed to succeed eventually, because the code retries it only when
  something else asks.
* `Stash!FairSpec`: weak fairness of the start and of the work on each bucket:
  every file system call that has been started returns.
* `Aggregator!FairSpec`: the clock and the one-second timer.  No fairness of data
  or of the stash: a request must be answered even if neither ever responds.
* `AmqpCap!Fairness`: timers fire, and a connection that is not lost proceeds
  (an event that the socket has, or a timer of a retry).  No fairness of peers,
  of loss, of `stop()` or of restarts: a command may stay without an answer, and
  the number of lost connections is bounded by the instance, as `Recovers` can
  only be claimed of a network that eventually stays up.

Safety runs use specifications without fairness.

## 6. What is proved

### The configuration service

`ConfigSvc_proofs.tla`, checked by TLAPS, for any number of instrumentations,
customers, aggregators, instrumenters, requests, crashes, restarts and lost, late
or refused commands (the constants are only restricted by `ConstantsAssumption`:
the sets of agents and customers are finite, the names of targets differ, the
bounds are natural numbers):

| theorem | states |
|---|---|
| `TypeCorrect` | `Spec => []TypeOK` |
| `DeadOnlyDisabled` | `Spec => []DeadOnlyDisables`: a deleted instrumentation is never saved, deleted or enabled again |
| `CustomerStaysInZones` | `Spec => []CustomerScoped`: the zones of a customer instrumentation are known whenever an update of instrumenters is queued or runs, and it wants exactly their hosts |

`DeadOnlyDisables` alone is not inductive.  It speaks of the queue of a dead
object, but which tasks can be in the queue when the object dies depends on
`instnTasksFlush` and on the task that is running at that moment; and the absence
of wanted hosts when an update starts depends on the zones having been emptied by
`DeleteDone`.  `CustomerScoped` depends on zones staying known once they are, and
on who can have queued an update: the end of a zones update, a load that found
zones, or an instrumenter whose entry exists, which in turn exists only after the
zones were known.  The inductive invariant is therefore `IInv == TypeOK /\
ObjectsInv`, where `ObjectsInv` says of every object `o` of instrumentation `i`:

* `Placed(o)`: an object that is not in use has no tasks, and any other has an
  aggregator;
* `Marked(o)`: while its delete task runs, `cfi_deleted` is set;
* `DeadOK(o)`: once dead, it is marked deleted, has no zones, and holds or runs
  only disables and updates of instrumenters that want no host;
* `ScopeOK(i, o)`: for a customer's, queued or running updates, and recorded
  entries, imply known zones, and a running update wants exactly these hosts.

All four are about one object, so that the argument has three layers: lemmas on
what the operations on an object preserve (`EnqueueObject`, `SettleObject`,
`ShiftedObject`, ...), one lemma for each action, which applies them to the
object that the action changes and shows that others stay, and the temporal
theorem `Inductive` that combines `Init => IInv` and `IInv /\ [Next]_vars =>
IInv'`.  `TypeCorrect` follows from it at once, the other two by unfolding.

Its second part goes on from there, for the same constants and for
`NoneAssumption` (the value that stands for "undefined" is no instrumentation,
task or bucket).  Three of its theorems have the hypothesis `~StashErrs`: the
disk of the stash does not fail.  Without it they are false, since `instnTaskSave`
does not look at the outcome of the request in the acknowledgement (section 7).
The properties make an exception for the ids in `twice` (section 3): of two objects
with one id, one overwrites the bucket of the other and both are counted, so that
nothing of this is true of them.

| theorem | states |
|---|---|
| `CountsAreExact` | `Spec => []NinstsExact`: `cag_ninsts` is the number of instrumentations that the aggregator has, as long as no load has found an id that was created while it went on |
| `AckedIsSaved` | `~StashErrs` gives `Spec => []Durable`: what was answered with 201, and nobody asked to delete, is in the stash, but for such ids |
| `DeletedStaysDeleted` | `~StashErrs` gives `Spec => []NoResurrection`: what was answered with 204 is not in the stash, and nothing on its way there writes it, but for such ids |
| `IdsAreFresh` | `~StashErrs` gives `Spec => NoIdReuse`: once the configuration is loaded, no id is handed out that clients believe to be in use, whatever was created during the load |

`Durable` says nothing of how the stash came to hold the bucket.  A save that timed
out stays in the queue of the stash, behind it comes the next one, and after a
crash both are still there while the service loads an older state and goes on.
The inductive invariant (`IInv /\ LInv /\ StashInv`) says of every instrumentation:

* `Errand`: only an object that is being created has a create task, and nothing
  else; a delete task, or the mark `cfi_deleted`, means that somebody asked for it;
* `Channel`: the service waits for one command at most, which is the last in the
  queue; once the stash has acknowledged it nothing is left in the queue; there is
  one acknowledgement at most;
* `Link`: who waits is running a task that saves, and what it waits for is what
  that task sends; if a create task has its acknowledgement the bucket is there,
  if a delete task has it the bucket is gone;
* `Promise`: for what clients believe to exist, the bucket is there and all that
  is on its way are puts; for what they believe deleted, it is gone and all that
  is on its way are deletes;

and of the service, `CountInv` (`NinstsExact`; nothing in memory while the process is
down; `cfg_nextid` exceeds the ids in memory, also of what was created during a load) and `FoundInv` (what clients believe to
exist is among the buckets listed by a load, and `cfg_nextid` exceeds its id
afterwards).  Most actions do not touch any of this.  They are shown to be
`Quiet`: they leave the stash and its channel alone, and change each object only in
a way (`Mild`) that neither begins nor ends a task that saves.  `NextCases` sorts
every step into the quiet ones and a dozen others, which have a lemma each.

Its third part is about the agents, for the same constants:

| theorem | states |
|---|---|
| `BeliefIsSound` | `FALSE \notin Metadata` gives `Spec => []BeliefSound`: an instrumenter that the service believes to have an instrumentation has it, is away, or is about to announce itself anew, for ids that are not in `twice` |
| `FirstDeletedLeaveClean` | `Spec => FirstDeadLeaveClean`: until the service crashes or stops for the first time, an instrumentation leaves `cfg_dead` only when its aggregator does not have it and nothing on its way enables it there |
| `DeletedLeaveClean` | `MaxCrashes = 0` gives `Spec => DeadLeavesClean`, the form of this that `config_agents` checks |

The hypotheses are those of `config_agents`, and the code needs them.
`amqpInstrOnline` returns before it resets the entries of a host whose metadata
conflict with what is known, so that the service goes on believing what it did
before that host restarted.  `cfg_dead` is in memory only, and
`instnTaskAggrDisable` skips an aggregator it has not heard from in this life
(both are in section 7).

`BeliefSound` speaks of an entry at rest, but what an entry says was decided by
commands of which some are still on their way, or have been answered while the
answer waits behind an announcement.  The inductive invariant that
`AgentsInductive` adds is:

* `LinesInv`: on the way to every target, stash or agent, there is at most one
  command for an instrumentation that the service still waits for, and it is the
  last; once it has been carried out none is left; the service waits only for the
  targets of the task that runs;
* `EntriesInv`: only hosts that have been heard from are enabled; the zones of a
  customer are asked for once in a life, and until they are known for the last
  time only their hosts are enabled;
* `BeliefInv`: while an enable is awaited nothing but enables can still be
  answered, and if it has been, the host has the instrumentation, is away, or has
  queued its announcement behind the answer; an entry that is enabled and not
  about to be removed has nothing left in the queue of its host that could change
  it, and the same three cases.

The last needs the order of one channel: an answer that overtook the announcement
would be taken for an answer of the new life.  For what is deleted, `FirstInv`
holds until the first crash: `QuitsInv` (a dead object that neither runs nor has
queued a disable has an aggregator that does not have it, with only disables on
their way, since a disable that failed is queued again; every disable clears) and
`FirstLife` (no aggregator of any object, nor of anything in the stash or on its way
there, has yet to be heard from).  As for the stash, most actions are shown once to leave the
matter alone (`Calm`, `Steady`), and the others have a lemma each.

### The start of the configuration service

`Startup_proofs.tla`, for any customers, machines and servers, any instrumenters and
aggregators, whatever they announce, any creation and other requests, any profiles,
and any number of crashes, restarts, failures and events (no bound is used but as
a natural number).  All five invariants that the run checks are theorems:

| theorem | states |
|---|---|
| `MachinesAreFound` | `Spec => []Zoned`: a machine of a customer is missed only if its server was unknown to CNAPI when it was asked, or could not be asked |
| `RequestsAreAttended` | `Spec => []Attended`: who waits for a creation waits for an object that is being created, and who waits for agents waits for at least one |
| `SavedSurvives` | `Spec => []Survives`: what has been saved, in the old form or the new, survives the migration and the load, whatever fails and whenever the service crashes |
| `ListsAreDescribed` | `Spec => []Listable`: whatever is offered under `/ca`, to an operator or a customer, is described, with its module, unit, fields and their types |
| `InstrumentationsSpread` | `Spec => []Spread`: once nothing is left to do, each instrumentation is enabled wherever it is wanted and supported, on hosts whose metadata were accepted, that are not about to announce themselves, and whose last command for it did not fail since they last did |

The assumptions are about what is there before the first start, and about documents:

* `SetupsAssumption`: buckets have proper ids, the ids in the legacy bucket have no
  buckets of their own (the code begins to write those with the migration, which is
  part of the model), only a customer's has zones, and they are on servers CNAPI
  knows, since the earlier life of the service that saved them had them from CNAPI;
* `DocsAssumption`: each instrumenter describes the fields its metrics refer to.
  What it announces is what `caMetricHttpSerialize` makes of its own metadata, which
  have passed the same checks when it started.  The assumption says less than that
  (nothing of types, modules or labels), and without it `Listable` is false: a
  document that is refused leaves behind a field whose type nobody describes, to
  which the next one could refer without describing it;
* `StartupAssumption`: two bounds are natural numbers.

`MachinesAreFound`, `RequestsAreAttended` and everything below rest on `BaseInv`:
the task that creates is always the first of its queue, ids that are made are made
once in a life and are below `cfg_nextid`, what an id means is an object that is no
longer being created, and the fetch of server names asks for servers that exist.

`SavedSurvives` needs to know of each phase what has been done by then (`PhaseOK`:
while buckets are put, the plan is the legacy bucket; before it is deleted all
of its ids have buckets; during the load the ids of all buckets are in the list or
behind `cfg_nextid`), that what is still in the legacy bucket was saved before
(`LegacyOK`), and that an object not made too early is the only one of its id
that counts and was made by the request that saved it (`OwnOK`).  That the
invariant is about the phases makes the crash the interesting step: it
keeps the buckets, forgets `cfg_nextid`, and the next life begins with the list again.

`ListsAreDescribed` is about the merge of metadata (`MdInv`), which the code does
entry by entry in four sections; after a conflict it goes on with the others, and
refuses the document in the end, without its metrics but with what has been added.
`Grows` says what each section leaves as it was, whether or not there was a conflict;
it is shown of the functions that go through the entries by induction over the
sequence of metrics.  What a document that was accepted offers is then described
by what it brought itself or, where that was not added, by an equal entry that was
there before.

`InstrumentationsSpread` says nothing of the tasks that lead there.  Its inductive
invariant was model-checked on the instance of the run before it was proved, and is

* `HostsInv`: the cache of server names has only servers that exist, and hosts that
  are known are there;
* `PlacedInv`: the zones of a customer, in memory and in buckets, are on hosts of
  servers in `Sure`, which are those whose names are known or are being asked for and
  which every step only adds to; an instrumentation is looked after only where it
  is wanted, and nowhere before its zones are known or while it is being created;
* `SpreadInv`: what an instrumentation is taken to be enabled on has it enabled, or
  is about to announce itself or was refused (`Believed`); and if it has no task
  left that would see to it, it is looked after wherever it is wanted, and enabled
  where it is supported, unless the last command failed (`Covered`).

The three exceptions are the code's: an announcement whose metadata conflict is
dropped whole, one that is under way will queue an update, and a command that fails
is logged.  That an announcement ends the third is part of what is proved.

All steps except two leave `SpreadInv` as it is for a reason they share (`Quiet`: no
host becomes known, supports more or forgets anything, and an object is changed only
by gaining a task or by ending one that does not concern hosts).  `InstrOnline`
queues an update for each instrumentation that the new host could concern, and
`InstrsUpdate` does what it can; these two have lemmas of their own.

### The instrumenter

`Instrumenter_proofs.tla`, for any finite set of instrumentations of the three
kinds of back ends, any programs, columns, granularities, length of time and
number of lives (`InstrumenterAssumption`; caches must not outlive the time before
the first second, so that the first refresh is never taken for a fresh one):

| theorem | states |
|---|---|
| `TypeCorrect` | `Spec => []TypeOK` |
| `Acknowledged` | `Spec => []AckTruth`: what the configuration service was last told is what is being reported |
| `Attended` | `Spec => []ProcAttended`: whoever waits in the proc cache waits for a refresh that runs |
| `ValuesConserved` | `Spec => []Conserved`: every value that a tick asks for has been sent once, or waits in one cache, or is carried by one callback |

`AckTruth` follows from how each command changes `insInstns` and from a panic
resetting both sides.  `Conserved` is a sum of three cardinalities and not
inductive: that a refresh sends what it answers exactly once depends on no request
being in two places, on each being in the cache of its own back end, and on no
tick asking twice for one second.  The inductive invariant `IInv` therefore adds

* `Placed`: the callbacks of the caches are requests that were asked for, of the
  right back end; those that a running zfs refresh has taken are not among those
  that wait, and there are none when it does not run;
* `SentOnce`: what was asked for and is in no cache has been sent once, anything
  else not at all;
* `AskedPast`: nobody asks for the future, and who asks for the present does so in
  a tick that has made it the last one;
* `Counted`: the consumers of each column of zfs(1M) are the enabled
  instrumentations that read it, which makes the counters natural numbers.

Each action has a lemma; `Tick` and the two ends of a refresh are the long ones.
`Conserved` follows by cases on where a request is.

### The stash

`Stash_proofs.tla`, for any buckets, contents and random numbers, and any number of
requests, crashes, failing file system calls and calls that never return:

| theorem | states |
|---|---|
| `TypeCorrect` | `Spec => []TypeOK` |
| `OkIsHonest` | `Spec => OkMeansDone`, also while calls fail: "ok" is answered only when the request has had its effect |
| `AlwaysBootable` | `Standalone` gives `Spec => []Bootable`: as long as no call has failed, the directory of a bucket is complete at every instant |
| `AtomicRequests` | `Standalone` gives `Spec => Atomic`: as long as no call has failed, the renames, cut by crashes and followed by the clean-up of the next start, implement `StashSpec` |

`Standalone` says that no bucket's name is the start of another's.  It is not a
fact of the code, whose clean-up by prefix (714) breaks the properties otherwise;
the run `stash_atomic` is of such an instance.  The invariant `IInv` says
which stage belongs to which operation and what has been achieved at it: the new
directory is complete before it is installed, a deletion that missed an old
directory knows it.  While no call fails, `SInv` says further that there is one old
directory at most, that it is complete whenever the next start would need it, and
that the clean-up still has it before it.  The refinement maps the content of a
bucket to what the next start would find; each action is shown to be a step of
`StashSpec` or a stutter, the replacement at the rename of the new directory, the
deletion at the rename of the bucket's own.

### The transport and its commands

`AmqpCap_proofs.tla`, for any configurations of lives, keys, kinds and numbers of
commands (`LivesAreListed` gives their types), with and without timeouts:

| theorem | states |
|---|---|
| `TypeCorrect` | `Spec => []TypeOK`, with at most one timer about to call `start()` |
| `KeysStayBound` | `Spec => []BoundWhenUp`: while the connection is up, what callers were told is bound is bound |
| `TableIsExact` | `Spec => []TableExact`: until `stop()`, the table holds the commands whose callback has not run, and timers run for those of them with a timeout |
| `CommandsAreHonest` | `DistinctIds` gives `Spec => Abstract!Safety`: commands are carried out at most once and reported truthfully |

`CommandsAreHonest` is `RemoteCalls` without its fairness: `CallSpec` defines
`Safety`, and `Spec` as `Safety` with the fairness that the run checks.
`DistinctIds` says that no two commands print the same id, which the code does
not ensure ("id collision" in section 7); the run is of such an instance.
The invariant relates the parts that a crash or a lost connection resets at
different times: the two timers that restart a connection (`LinkExact`); what
callers were told, the bindings, and those that wait to be made again
(`KeysExact`); the table, the timers and the open calls of this life
(`CallsExact`); and where the one message of a command is, among those that are
queued, published and answered (`Fresh`, `UnderWay`, `Replies`).

### The aggregator

`Aggregator_proofs.tla`, for any finite set of hosts and any times, retention and
numbers of commands, requests and restarts (`AggregatorAssumption`):

| theorem | states |
|---|---|
| `TypeCorrect` | `Spec => []TypeOK` |
| `NothingStuck` | `Spec => []Engaged`: a load that is pending, and a save that holds back others, have a command that an answer or the timeout will end |
| `StashOnlyGrows` | `"get" \notin FailOps` gives `Spec => NoClobber`: data in the stash are replaced only by data that have all of them, save those that have expired |

`"get" \notin FailOps` says that the stash answers no load with an error, which
`load()` takes for an empty bucket, as its comment accepts; the run has it too.
`NoClobber` needs to know who may have saved what: each save on its way has
all of what it will replace (`SavesGrow`); an object that is loaded has all of what
the stash holds or will hold; one that is loading will, once it has taken in the
content that was read; and what is saved behind a load on its way was
saved by the same object (`ObjectSafe`).  The last part is what makes it hold
across a reset, which loads anew while an earlier save of the object is still on its
way.  The dataset is abstract here, and that the merge of two datasets has all of
both is a lemma.

### Datasets and their answers

`Dataset_proofs.tla`, for the four kinds of datasets, sums and readings, any
granularity, finite sets of sources and names, any buckets and times, and any
number of operations (`DatasetAssumption`; `UndefinedAssumption`, that the value
which stands for "undefined" is no value; `RequestsAssumption`, that the intervals
of requests that name none are positive):

| theorem | states |
|---|---|
| `InvHolds` | `Spec => [](Inv(kind))`: types, and that the dataset and its copy tell of what has reached them |
| `StructuresAgree` | `Spec => []Consistent`: names, distributions and totals of a heatmap with a decomposition agree |
| `ReportersAreCounted` | `Spec => []ReportingTrue`: as many sources are said to report as did |
| `AnswersAreTrue` | `Spec => []Accurate`: the answers to requests for raw values add up to the reports of the whole interval |
| `ImagesAreWhole` | `Spec => []ImageWhole`: the columns of an image, of whichever keys it selects, show between them the distribution of the interval, and never more than it |

`Accurate` quantifies over requests and says nothing of a saved copy.  What is
inductive is a statement about each period, name and bucket: the dataset has
there the sum of the reports that count (`Faithful`), and so has the copy, for
the reports there were when it was saved (`Preserves`), both only as long as nothing
was restored that was there already (`tainted`) and the zero is zero (`Clean`).
Below that is what each operation does to one period, name and bucket, whatever
the kind: `Added` for a datum, which also keeps the three structures of a heatmap
with a decomposition in agreement (`Agreeing`), `AddKey` by `AddKey`; the
corresponding lemmas for expiry, reading and restoring.  From a dataset that is
faithful to the answers the rest is arithmetic: the intervals of the points of a
request are multiples of the granularity that do not overlap and leave no period
out (`LoadedIs`, `WindowsApart`, `SumTogether`).

`ImageWhole` is about what is drawn of that: which of the intervals and selections of
a request are refused, what is taken from the total for each selected key
(`caDatasetHeatmapDecomp`), and that what remains is never negative, which is
where the agreement of the three structures is needed.

The operations are folds over sets of names and periods, sums are folds too, and
`caAddDistributions` is a recursive function.  The module derives what it needs of
them from the fact that a set of numbers has a least element: induction and
recursion where sets and functions take the place of operators (`RankInduction`,
`Recursion`, `SubsetInduction`), that what a fold over a set computes is what any
function computes that takes one element at a time (`FoldExists`, `FoldUnique`),
sums of sums, of parts and of renamed summands, and that the merge of two sorted
distributions is sorted and has in each bucket what both have (`caAddDistributions`).

### D programs

`MetaRun_proofs.tla`, for any number of operations, threads, zones, arguments and
programs (nothing is assumed of the constants):

| theorem | states |
|---|---|
| `RegularCountedOnce` | `Spec => [](Regular(desc, metric, script) => CountedOnce)`: an operation that meets the conditions and began under the program is counted once and by one enabling, any other not at all, and what is counted was saved by the operation itself |
| `RegularNothingLeft` | `Spec => [](Regular(desc, metric, script) => NothingLeft)`: when nothing is in progress that the program has seen begin, it holds no variable |

`Regular` is about the text of a program only: its clauses gather when an operation
begins, or count, or clear when it ends; the index of every variable tells the
operations apart that may be in progress together; what is gathered is cleared on the
same conditions; what a clause reads has been gathered, and is cleared later; one
clause counts at the end of each operation, and looks at the conditions there are.
Whether a program is regular is a finite question, which TLC answers
(`RegularAssumption` in `MCMetaRun`): all are, of the descriptions whose operations
do not nest, for each decomposition by up to two fields, each predicate on one field,
and with or without zones, except for the two descriptions that never clear and for
the origin of HTTP requests when nothing else is gathered (section 7).  Those whose
operations nest, `fs.logical_ops`, `fs.logical_rwops` and `mysql.queries`, are not.
`CountedOnce` leaves open whether opens under `fs.logical_ops`, and what is inside
them, are counted (section 7); nothing else is excepted, and no program that is
regular is concerned.

The inductive invariant `RunInv` is that operations in progress together would have
different keys (`Apart`), and that every enabling holds, of what it has seen begin and
is in progress, exactly the variables (`Owned`: each belongs to such an operation;
`Held`: none is missing).  An enabling runs one clause after the other, so that what
it does to the variables (`StartGoes`, `DoneGoes`, `FiresGoes`) and what it counts
(`Tallied`) is shown by induction over the clauses (`EnablingGoes`, `Climb`).
That `enablings` are one for all zones or one for each, and an operation is in one
zone, makes the count one in all (`OneEnabling`, `CountsOnce`).  `EnableInv` is shown
of enabling in any state: that `Reenable` happens when no operation is yet to begin is
a bound for TLC which the argument does not use.

### What is not proved

* What needs fairness: `AggrConverges`, `InstrConverges` and `RequestsAnswered` of
  the configuration service, `Answered` of the stash, `RequestsAnswered` of the
  aggregator, `Recovers` and the last conjunct of `RemoteCalls`.  No prover at hand
  deals with fairness or `ENABLED`.
* `BeliefSound` with metadata that conflict, and `DeadLeavesClean` after a crash:
  they are false.
* `Exact` and `Fits` of `Values`: predicates and decompositions are trees, which the
  code walks recursively and so do the modules below `Values` (`Pred`, `Buckets`,
  `Backends`), with recursive operators; a module that reaches one leaves the
  provers without arithmetic, and what such a walk computes for trees of any depth
  needs induction over the trees.  (Recursive functions over numbers, sequences
  and finite sets are within reach, see `Dataset_proofs` and `Startup_proofs`.)
  `Kstat` and `Props` have no theorem of their own; what `Startup` uses of `Props`
  is covered by its theorems.
* `ScriptsSound` of `MetaRun`, which is a fact about each of the descriptions that
  the repository has; the run goes through all of them.  `CountedOnce` and
  `NothingLeft` of the programs that are not regular: where operations nest, only the
  run with two operations is offered; the two descriptions that never clear and the
  HTTP origin alone make them false (section 7).
* That the code carries out what an abstraction promises is proved of `StashSpec`
  and, without fairness, of `CallSpec`.  `ConfigSvc` and `Startup` describe the same
  service from two sides and are not related by a theorem.

## 7. Where the code and its documentation disagree

`startup_early`, with its source lines, is under "findings" in `PROJECT.json`.
While modelling, further consequences of the code came up which no run states,
either because no document denies them or because they follow at once from a
line.  The models contain these behaviours, except where section 8 says
otherwise; the properties that are checked are stated so that they hold in their
presence, and say so where they leave something out.

### Configuration service

* Requests are served while the configuration is loading, although the comment of
  `httpReady` (1018) says otherwise.  A creation then may get an id that exists
  (`startup_early`); `cag_ninsts` counts it at 1459 and again when the load finds it
  (535).
* An enable or disable that an instrumenter refuses, or does not answer in time, is
  only logged.  The comment at 2075 ("We don't bother retrying here") counts on the
  instrumenter to contact the service again; if it was only slow, or refused, the
  instrumentation stays off, or on, until another update happens to be due.
* `instnTaskAggrDisable` skips an aggregator it has not heard from "since it
  doesn't know about this instn".  After a restart of the service the aggregator
  may know it, and keeps it.
* `cfg_dead` is in memory only: a crash between the deletion of a bucket and the
  disables leaves the instrumentation enabled on its agents.
* An enable that is carried out after its timeout leaves a deleted instrumentation
  enabled; the comment of `instnTaskInstrsUpdate` (2075) counts on the
  instrumenter to contact the service again, which it does only if it restarts.
* Two creations that are being saved at the same time pass the limit per user
  together, and the second trips the assertion at 1546.
* `stop()` cannot reach an instrumentation that is being created; the task queued
  for it trips the assertion of `instnRun`.
* `instnTaskSave` looks at whether the command was acknowledged (1842), not at the
  outcome of the request in it: a bucket the stash could not write counts as saved.
* An instrumentation that is loaded before any host has announced its metric has
  no base metric: the update of its instrumenters throws a `TypeError`, and the
  service ends (`InstrsThrow`).
* A bucket that cannot be read is skipped by the load: its id is handed out again
  and the bucket overwritten.  An object that an early request created is replaced
  by one that is loaded under the same id.
* The error of deleting the legacy bucket is ignored, so that it is migrated again
  at every start.
* A creation that finds no aggregator uses up an id and answers 500.
* The zones of a customer are looked up at creation and load only: machines whose
  server CNAPI did not know stay missing.
* A change of the retention time without a granularity skips the check of the
  maximum.  `cms_modules` is a union over all hosts, so that a combination of
  fields is accepted which no host supports.
* Profiles that do not pass validation are used all the same.
* Metadata that are refused are partly kept, and a later document that is accepted
  may refer to what was refused, such as a type of an unknown arity.
* A request that is forwarded to an aggregator which dies in the middle of its
  answer is never ended.

### Stash

* An old copy that is promoted at the start is not in the list of buckets, which was
  made before (288): it is not offered until the next start (`torn`).
* The deletion of a bucket removes old copies by prefix (714): that of
  `ca.config.instn.1` removes the old copy of `ca.config.instn.10`.
* The removal of an old copy may fail, which is only logged, and the old copy
  stays, possibly partly removed.  A crash between the two renames of a later
  replacement leaves two old copies, and the next start promotes either: an
  outdated one, or an incomplete one, on which `loadFini` throws.
* When the removal of one file fails, `caRemoveDirectory` returns the error instead
  of passing it to its callback, which stops the serializer of the bucket (`Hang`).

### Instrumenter and its back ends

* The roll-back of a failed enabling loops to `res.length` of an object and takes
  back nothing: programs stay enabled and `insd_nenablings` counts them; `value()`
  enables a program anew and counts it again.
* A program that could not be enabled anew has no handle, and the next disable or
  reset panics the process (dtrace.js 143).
* `caZfsDataCache.refresh` takes the waiting callbacks when it begins, so that
  those who ask during the refresh wait for the next one, which nobody triggers
  until somebody asks after the data have become stale again.  (The comment of
  `data()` says "onto the next refresh"; `ca-proc.js` answers everybody.)
* A column added during a refresh counts as fresh afterwards although its data were
  not asked for.
* The proc cache is built without a log, so that an error of its command throws;
  the error of `caProcLoadCTF` is ignored.
* After a back end whose `require` failed, `insinit` of the previous one is called
  again.
* `caLogLinearBucketize` has values in no bucket (1095 with [1000,1090]), and
  `base^min` itself falls into [0, base^min].
* An inequality on a discrete field, and {} inside "and" and "or", are accepted, but
  evaluating them throws.
* proc ignores the predicate of an instrumentation with zones (`metric.isPredicate`
  is a misspelling); fake reads `izm_predicate`, which it does not have.
* A kstat that is created anew between two reads is taken for the old one: the
  difference may be negative.
* `zfs.arc_ops` of particular zones ends the instrumenter: its kstat has no zone
  name, although a comment says that zones "are only possible for metrics which
  provide a zonename".

### D programs

* `mantaop_tasks_executed` and `mantaop_zone_resets` never clear what they gather,
  although ca-metad.js (399) has all gathered values cleaned once.
* `mdCheckGather` never verifies stores that are strings and passes `undefined` for
  those that are arrays; its check is the opposite of its comment.
* `http_origin` of `node.httpd_ops` is verified by `'1'` (lines 115-119 of
  `node-httpd_ops.js`), as an origin may be empty.  When neither method, URL, path nor
  latency is asked for, nothing then keeps a request from being counted that began
  before the program was enabled, as one without an origin.
* MySQL's query latency starts at `query-exec-start`; `tcp` does not count an accept
  without an address; an operation inside one that began before the program was
  enabled is counted.
* `fs.logical_ops` clears at the entry of an open what it should clear at its return:
  no open is counted, and what is inside one is, although the description aggregates
  at the return of `fop_open` and `docs/index.md` (1452) speaks of "the total number
  of logical filesystem operations".  `CountedOnce` asks for neither, only that they
  are not counted twice or wrongly, so that it would hold of a corrected program too.

### Aggregator and datasets

* Requests waiting on an instrumentation that is disabled, reset or replaced are
  never answered, since `aggTick` walks `agg_insts` only, although
  `agg_http_req_timeout` is the "max milliseconds to wait for data".
* Data loaded late are added to data of the same source and period.
* A load that ends after persistence was switched off sets the state to "loaded",
  so that the instrumentation is saved from then on although "non-persistent
  instrumentations don't get saved".
* The periodic save of all datasets is never due: `agg_stash_saved - now` is
  negative.
* Two enables of an unknown instrumentation make two objects, the second of which
  replaces the first with its data.
* A report without a value stores `cds_zero` itself as the value of the period;
  what is reported later is added to the zero of all periods (`Spoiled`).
* A request may bring its own hues, of which there must be enough for what it
  selects; with `decompose_all` the keys are counted only afterwards, and with too
  few hues an assertion fails, which the request is answered as an unknown error
  (the exception that `ImageWhole` makes).
* "The start time will be rounded down and the duration and end time rounded up"
  (`docs/index.md` 1017): `normalizeInterval` rounds start and duration, each on
  its own, so that with a granularity of 5 the interval from 7 to 11 becomes that
  from 5 to 10.  With `ndatapoints`, the points are as far apart as the rounded
  duration, their `requested_start_time` as far as the one requested.
* A key that is selected twice is deducted twice; `Selections` leaves this out.
* The parameters of heatmaps are checked when the data are there, after waiting for
  them, and are taken from the URL even if there is a JSON body.
* The default of `weights` is none of its choices, and means the first.
* The instrumentation made up for one that is not known yet allows no
  transformations, and a decomposition of distributions gets the empty list.

### Transport and commands

* `bind()` may be called back before the binding is made, or, if the connection is
  lost meanwhile, never.
* Ids are a pid and a counter without a separator of fixed width: an answer to a
  command of an earlier life can be taken for one of this life, if pids are used
  again ("id collision").
* Messages queued during a lost connection are sent last first (ca-amqp.js 373),
  and one that cannot be written ends the process.
* "disconnected" is also emitted if there was no connection; a limit of N retries
  makes N-1; `stop()` without a connection throws; a command without a timeout
  that a callback issues during `stop()` never returns.

## 8. What is not modelled

* Text: D programs, HTTP bodies, log lines, the status and the output of tools.
* Reading of metadata and profiles from files, and the output of zfs(1M) and of
  /proc; `test.js`, a back end for tests.
* Pixels, averages and percentiles: node-heatmap, of which a column is the
  distribution of its period.
* What transformations compute: lookups in services outside, and caches.
* The composition of the services over the transport: `ConfigSvc` assumes channels
  that deliver in order or lose; `AmqpCap` shows what one process gets from the
  broker, including the reversal of queued messages, which can only put a command
  before an older one when the connection was lost in between.
* Races between aggregators (an instrumentation has one for life), and several
  configuration services (the system has one).
* In `Aggregator`, commands of several instrumentations compete for the stash;
  the model sees one instrumentation and therefore no delay by others, except as
  commands that time out.
* `Values` leaves `zfs.arc_ops` of particular zones out, and `metad` the two
  descriptions that never clear and decompositions by the HTTP origin, of which only
  `ScriptsSound` speaks: with them the properties are false (section 7).
* Helpers without state of their own (deep copies, formatting, logging), the
  demonstrations with their vendored plotting code, packaging and tests.

## 9. Plan

What could be added, in this order:

1. *Values*: predicates and decompositions as functions on the nodes of a tree
   instead of recursive operators, then `Fits` and `Exact` by induction over depth.
2. *D programs*: `CountedOnce` where operations nest, by an invariant of the depth at
   which each variable was gathered.
3. *The two sides of the configuration service*: `Startup` with `ConfigSvc` in place
   of its one-step tasks.
