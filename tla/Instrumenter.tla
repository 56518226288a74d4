---------------------------- MODULE Instrumenter ----------------------------
(***************************************************************************)
(* The instrumenter service of one host (lib/ca/ca-svc-instr.js) with its  *)
(* three kinds of backends: DTrace (cmd/cainst/modules/dtrace.js), one     *)
(* enabling per zone of the instrumentation; and the two data caches,      *)
(* lib/ca/ca-zfs.js and lib/ca/ca-proc.js, which run a slow command and    *)
(* hand its result to everyone who asked meanwhile.  kstat, cainstr, fake  *)
(* and test answer at once and are the DTrace case that never fails.       *)
(*                                                                         *)
(* A handler runs to its end before the next starts.  Every backend calls  *)
(* back from instrument() and deinstrument() before it returns, so a       *)
(* command is one step; value() of the two caches calls back later, so a   *)
(* tick leaves requests behind that a refresh answers.                     *)
(*                                                                         *)
(* A definition whose name begins with M, followed by that of another, is  *)
(* no part of the model: it is the other one with a plausible bug, to show *)
(* which property notices.                                                 *)
(***************************************************************************)
EXTENDS Integers, FiniteSets

CONSTANTS
    Insts,          \* instrumentation ids
    Backend,        \* Backend[i]: "dtrace", "zfs" or "proc"
    Progs,          \* programs of a DTrace instrumentation, one per zone
    Cols,           \* columns of the zfs(1M) command
    Uses,           \* Uses[i]: columns a zfs instrumentation reads
    Unsupported,    \* ids whose metric, predicate or decomposition no
                    \* backend supports
    Grans,          \* granularities that commands ask for
    GranularityMax, \* ins_granularity_max
    StaleAfter,     \* StaleAfter[k]: seconds a cache serves the same data
    FirstSecond,    \* seconds of the modelled stretch of time
    LastSecond,
    MaxLives,       \* bound on starts of the process
    MaxEnablings    \* bound on the counter of enablings

ASSUME InstrumenterAssumption ==
    /\ IsFiniteSet(Insts) /\ IsFiniteSet(Progs) /\ Progs # {}
    /\ Backend \in [Insts -> {"dtrace", "zfs", "proc"}]
    /\ Uses \in [Insts -> SUBSET Cols]
    /\ Unsupported \subseteq Insts
    /\ Grans \subseteq Nat
    /\ GranularityMax \in Nat \ {0}
    /\ StaleAfter \in [{"zfs", "proc"} -> Nat]
    /\ FirstSecond \in Nat /\ LastSecond \in Nat /\ FirstSecond <= LastSecond
    /\ \A k \in {"zfs", "proc"} : StaleAfter[k] <= FirstSecond
    /\ MaxLives \in Nat /\ MaxEnablings \in Nat

VARIABLES
    up,         \* whether the process runs and has reached the broker
    lives,      \* number of starts
    now,        \* Math.floor(Date.getTime() / 1000)
    insLast,    \* ins_last: second of the last tick, 0 before the first one
    insInstns,  \* ins_instns: granularity of each instrumentation, 0 if absent
    cadDtr,     \* cad_dtr of each program: "on", or "null" when enabling failed
    nenablings, \* insd_nenablings
    cache,      \* the two data caches
    told,       \* ids last acknowledged as enabled to the configuration service
    asked,      \* <<id, second>> whose value a tick of this life asked for
    sent        \* sent[i][s]: data messages for that second in this life

process == <<up, lives>>
vars == <<up, lives, now, insLast, insInstns, cadDtr, nenablings, cache, told,
          asked, sent>>
-----------------------------------------------------------------------------
Caches == {"zfs", "proc"}
Seconds == FirstSecond..LastSecond
Requests == Insts \X Seconds
On(kind) == {i \in Insts : Backend[i] = kind}
Enabled == {i \in Insts : insInstns[i] # 0}

Cache == [columns: [Cols -> Nat],       \* consumers of each column
          objects: SUBSET Cols,         \* columns of the data at hand
          last: Seconds \cup {0},       \* second they are from; 0 is stale
          refreshing: BOOLEAN,
          when: Seconds \cup {0},       \* second the refresh began
          asking: SUBSET Cols,          \* columns it asks for
          taken: SUBSET Requests,       \* requests it will answer
          callbacks: SUBSET Requests]   \* requests waiting in the cache

EmptyCache == [columns |-> [c \in Cols |-> 0], objects |-> {}, last |-> 0,
               refreshing |-> FALSE, when |-> 0, asking |-> {}, taken |-> {},
               callbacks |-> {}]

TypeOK ==
    /\ up \in BOOLEAN /\ lives \in 0..MaxLives
    /\ now \in Seconds /\ insLast \in Seconds \cup {0}
    /\ insInstns \in [Insts -> 0..GranularityMax]
    /\ cadDtr \in [Insts -> [Progs -> {"none", "on", "null"}]]
    /\ nenablings \in Int
    /\ cache \in [Caches -> Cache]
    /\ told \subseteq Insts
    /\ asked \subseteq Requests
    /\ sent \in [Insts -> [Seconds -> Nat]]

NoProgs == [p \in Progs |-> "none"]

\* What a fresh process starts from.
Blank ==
    /\ insLast' = 0
    /\ insInstns' = [i \in Insts |-> 0]
    /\ cadDtr' = [i \in Insts |-> NoProgs]
    /\ nenablings' = 0
    /\ cache' = [k \in Caches |-> EmptyCache]
    /\ told' = {}
    /\ asked' = {}
    /\ sent' = [i \in Insts |-> [s \in Seconds |-> 0]]

Init ==
    /\ up = FALSE /\ lives = 0 /\ now = FirstSecond /\ insLast = 0
    /\ insInstns = [i \in Insts |-> 0]
    /\ cadDtr = [i \in Insts |-> NoProgs]
    /\ nenablings = 0
    /\ cache = [k \in Caches |-> EmptyCache]
    /\ told = {}
    /\ asked = {}
    /\ sent = [i \in Insts |-> [s \in Seconds |-> 0]]

\* Load the backends, connect, announce the host, start the interval.
Start ==
    /\ ~up /\ lives < MaxLives
    /\ up' = TRUE /\ lives' = lives + 1
    /\ UNCHANGED <<now, insLast, insInstns, cadDtr, nenablings, cache, told,
                   asked, sent>>

\* An uncaught exception ends the process; so does a crash.
Panic == up' = FALSE /\ Blank /\ UNCHANGED <<lives, now>>
Crash == up /\ Panic
-----------------------------------------------------------------------------
(* Commands. *)

Acceptable(g) == g >= 1 /\ (g > GranularityMax => g % GranularityMax = 0)

Effective(g) == IF g > GranularityMax THEN GranularityMax ELSE g

AckEnabled(i) == told' = told \cup {i}
AckNotEnabled(i) == told' = told \ {i}

Refuse(i, g) ==
    /\ insInstns[i] = 0
    /\ i \in Unsupported \/ ~Acceptable(g)
    /\ AckNotEnabled(i)
    /\ UNCHANGED <<insInstns, cadDtr, nenablings, cache>>

\* The command is idempotent; nothing compares the two instrumentations.
EnableAgain(i) ==
    /\ insInstns[i] # 0
    /\ AckEnabled(i)
    /\ UNCHANGED <<insInstns, cadDtr, nenablings, cache>>

Accept(i, g) ==
    /\ insInstns[i] = 0
    /\ i \notin Unsupported /\ Acceptable(g)
    /\ insInstns' = [insInstns EXCEPT ![i] = Effective(g)]
    /\ AckEnabled(i)

\* The programs that a failed enabling takes back.  The loop runs to
\* res.length, which an object has not: it takes back none of them.
RolledBack(done) == {p \in done : FALSE}

EnableDTrace(i, g) ==
    /\ Backend[i] = "dtrace"
    /\ nenablings + Cardinality(Progs) <= MaxEnablings
    /\ nenablings' = nenablings + Cardinality(Progs)
    /\ cadDtr' = [cadDtr EXCEPT ![i] = [p \in Progs |-> "on"]]
    /\ Accept(i, g)
    /\ UNCHANGED cache

\* A failed enabling that stays in ins_instns.
MEnableDTraceFails(i, g) ==
    /\ Backend[i] = "dtrace"
    /\ insInstns[i] = 0
    /\ i \notin Unsupported /\ Acceptable(g)
    /\ insInstns' = [insInstns EXCEPT ![i] = Effective(g)]
    /\ AckNotEnabled(i)
    /\ UNCHANGED <<cadDtr, nenablings, cache>>

EnableDTraceFails(i, g) ==
    /\ Backend[i] = "dtrace"
    /\ insInstns[i] = 0
    /\ i \notin Unsupported /\ Acceptable(g)
    /\ nenablings + Cardinality(Progs) <= MaxEnablings
    /\ \E done \in SUBSET Progs \ {Progs} :
          nenablings' = nenablings + Cardinality(done)
                                   - Cardinality(RolledBack(done))
    /\ AckNotEnabled(i)
    /\ UNCHANGED <<insInstns, cadDtr, cache>>

\* column(colname, doget) of every column these instrumentations read: the
\* counts change, and a column that comes or goes makes the data stale.
Readers(is, c) == Cardinality({i \in is \cap On("zfs") : c \in Uses[i]})

Recount(k, count) ==
    [k EXCEPT !.columns = count,
              !.last = IF \E c \in Cols : (k.columns[c] = 0) # (count[c] = 0)
                       THEN 0 ELSE @]

AddColumns(k, is) ==
    Recount(k, [c \in Cols |-> k.columns[c] + Readers(is, c)])

RemoveColumns(k, is) ==
    Recount(k, [c \in Cols |-> k.columns[c] - Readers(is, c)])

EnableZfs(i, g) ==
    /\ Backend[i] = "zfs"
    /\ cache' = [cache EXCEPT !["zfs"] = AddColumns(@, {i})]
    /\ Accept(i, g)
    /\ UNCHANGED <<cadDtr, nenablings>>

EnableProc(i, g) ==
    /\ Backend[i] = "proc"
    /\ Accept(i, g)
    /\ UNCHANGED <<cadDtr, nenablings, cache>>

EnableInstn(i, g) ==
    /\ up
    /\ \/ Refuse(i, g) \/ EnableAgain(i)
       \/ EnableDTrace(i, g) \/ EnableDTraceFails(i, g)
       \/ EnableZfs(i, g) \/ EnableProc(i, g)
    /\ UNCHANGED <<process, now, insLast, asked, sent>>

\* deinstrument() of a program whose handle is gone calls stop() of null.
Broken(i) == \E p \in Progs : cadDtr[i][p] = "null"

DisableAbsent(i) ==
    /\ up /\ insInstns[i] = 0
    /\ AckNotEnabled(i)
    /\ UNCHANGED <<process, now, insLast, insInstns, cadDtr, nenablings, cache,
                   asked, sent>>

\* deinstrument() of every instrumentation of the set.
Deinstrument(is) ==
    /\ insInstns' = [i \in Insts |-> IF i \in is THEN 0 ELSE insInstns[i]]
    /\ cadDtr' = [i \in Insts |-> IF i \in is THEN NoProgs ELSE cadDtr[i]]
    /\ nenablings' = nenablings
                     - Cardinality((is \cap On("dtrace")) \X Progs)
    /\ cache' = [cache EXCEPT !["zfs"] = RemoveColumns(@, is)]

DisableInstn(i) ==
    /\ up /\ insInstns[i] # 0 /\ ~Broken(i)
    /\ Deinstrument({i})
    /\ AckNotEnabled(i)
    /\ UNCHANGED <<process, now, insLast, asked, sent>>

DisableBroken(i) == up /\ insInstns[i] # 0 /\ Broken(i) /\ Panic

\* The configuration service starts afresh: drop everything.
CfgReset ==
    /\ up /\ Enabled # {}
    /\ IF \E i \in Enabled : Broken(i)
       THEN Panic
       ELSE /\ Deinstrument(Enabled)
            /\ told' = {}
            /\ UNCHANGED <<process, now, insLast, asked, sent>>
-----------------------------------------------------------------------------
(* The data caches. *)

Fresh(k) == now - cache[k].last < StaleAfter[k]

\* Each refresh() notes when it began and what it asks for.  That of zfs takes
\* the requests waiting so far; that of proc looks for them when it is done.
Refresh(k, c) ==
    [c EXCEPT !.refreshing = TRUE, !.when = now,
              !.asking = {d \in Cols : c.columns[d] > 0},
              !.taken = IF k = "zfs" THEN c.callbacks ELSE {},
              !.callbacks = IF k = "zfs" THEN {} ELSE @]

Wait(c, reqs) == [c EXCEPT !.callbacks = @ \cup reqs]

\* What a cache may become when the requests ask for data that is not fresh:
\* the first of them starts a refresh unless one is under way.
Queued(k, reqs) ==
    IF cache[k].refreshing \/ reqs = {}
    THEN {Wait(cache[k], reqs)}
    ELSE {Wait(Refresh(k, Wait(cache[k], {r})), reqs \ {r}) : r \in reqs}

\* A data message for each of the requests.
Send(reqs) ==
    sent' = [i \in Insts |-> [s \in Seconds |->
                sent[i][s] + (IF <<i, s>> \in reqs THEN 1 ELSE 0)]]

\* Both caches answer whoever waits at the end, or who waited at the start.
MAnswerWaiting(k) == cache[k].callbacks
MAnswerTaken(k) == cache[k].taken

Answerable(k) ==
    IF k = "zfs" THEN cache[k].taken ELSE cache[k].callbacks

RefreshDone(k) ==
    /\ up /\ cache[k].refreshing
    /\ Send(Answerable(k))
    /\ cache' = [cache EXCEPT ![k].refreshing = FALSE,
                              ![k].objects = cache[k].asking,
                              ![k].last = cache[k].when,
                              ![k].taken = {},
                              ![k].callbacks = @ \ Answerable(k)]
    /\ UNCHANGED <<process, now, insLast, insInstns, cadDtr, nenablings, told,
                   asked>>

\* zfs(1M) fails: whoever waits is told that there is no value.
ZfsRefreshFails ==
    /\ up /\ cache["zfs"].refreshing
    /\ Send(Answerable("zfs"))
    /\ cache' = [cache EXCEPT !["zfs"].refreshing = FALSE,
                              !["zfs"].taken = {}]
    /\ UNCHANGED <<process, now, insLast, insInstns, cadDtr, nenablings, told,
                   asked>>

\* The proc cache is built without a log, so that logging the error throws.
ProcRefreshFails == up /\ cache["proc"].refreshing /\ Panic
-----------------------------------------------------------------------------
(* The tick. *)

Due == {i \in Enabled : now % insInstns[i] = 0}

\* value() of the DTrace instrumentations: reading a program may fail, and
\* then the program is enabled anew, which may fail as well.
ReadPrograms ==
    \E broken \in SUBSET {x \in (Due \cap On("dtrace")) \X Progs : cadDtr[x[1]][x[2]] = "on"} :
        \E dead \in SUBSET broken :
            /\ nenablings + Cardinality(broken) <= MaxEnablings
            /\ nenablings' = nenablings + Cardinality(broken \ dead)
            /\ cadDtr' = [i \in Insts |-> [p \in Progs |->
                            IF <<i, p>> \in dead THEN "null" ELSE cadDtr[i][p]]]

\* The instrumentations that have to wait for their value.
Waiting(k) == {i \in Due \cap On(k) : ~Fresh(k)}

Tick ==
    /\ up /\ insLast # now
    /\ insLast' = now
    /\ asked' = asked \cup (Due \X {now})
    /\ ReadPrograms
    /\ Send((Due \ UNION {Waiting(k) : k \in Caches}) \X {now})
    /\ \E z \in Queued("zfs", Waiting("zfs") \X {now}),
          p \in Queued("proc", Waiting("proc") \X {now}) :
          cache' = [cache EXCEPT !["zfs"] = z, !["proc"] = p]
    /\ UNCHANGED <<process, now, insInstns, told>>

Clock ==
    /\ now < LastSecond
    /\ now' = now + 1
    /\ UNCHANGED <<process, insLast, insInstns, cadDtr, nenablings, cache, told,
                   asked, sent>>
-----------------------------------------------------------------------------
Next ==
    \/ Start \/ Crash \/ Clock \/ Tick \/ CfgReset
    \/ ZfsRefreshFails \/ ProcRefreshFails
    \/ \E k \in Caches : RefreshDone(k)
    \/ \E i \in Insts :
          \/ \E g \in Grans : EnableInstn(i, g)
          \/ DisableAbsent(i) \/ DisableInstn(i) \/ DisableBroken(i)

Spec == Init /\ [][Next]_vars
-----------------------------------------------------------------------------
(* Properties. *)

Holding(r) == {k \in Caches : r \in cache[k].callbacks}
Taking(r) == {k \in Caches : r \in cache[k].taken}

\* In one life of the process every value that a tick asks for makes one data
\* message: it has been sent or one cache still holds the request, never both
\* and never neither.  Two ticks in one second, a refresh that answers its
\* requests twice or drops those that came during it would break this.
Conserved ==
    \A r \in Requests :
        sent[r[1]][r[2]] + Cardinality(Holding(r)) + Cardinality(Taking(r))
            = IF r \in asked THEN 1 ELSE 0

\* What the configuration service was last told of each instrumentation is true
\* of ins_instns until the service is told to forget everything: the ones it
\* was told are enabled, whether by a first answer, by that to a retry or by
\* one it had withdrawn in between, are the ones being reported.
AckTruth == told = Enabled

\* Whoever waits in the proc cache waits for a refresh that is under way, also
\* if he asked after it began (ca-proc.js, refresh()).  Of the zfs cache this is
\* not so: the callbacks are taken when the refresh begins.
ProcAttended == cache["proc"].callbacks # {} => cache["proc"].refreshing
=============================================================================
