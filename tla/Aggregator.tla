----------------------------- MODULE Aggregator -----------------------------
(***************************************************************************)
(* The aggregator service (cmd/caaggsvc.js) and the part of its datasets   *)
(* that counts sources (caDataset in lib/ca/ca-agg.js), for one            *)
(* instrumentation: instrumentations share nothing but the queue of stash  *)
(* commands.                                                               *)
(*                                                                         *)
(* Three things of the instrumentation live in different places and are    *)
(* not changed together: the object in agg_insts, which a disable, a reset *)
(* or a second enable replaces while its callbacks are still to come; the  *)
(* bucket in the stash, which is read and written by commands that may     *)
(* time out or get lost; and the HTTP requests that wait for data.         *)
(*                                                                         *)
(* The stash carries out the commands of one aggregator in order and       *)
(* answers in that order (Stash, and one AMQP queue each way).             *)
(*                                                                         *)
(* A definition whose name begins with M, followed by that of another, is  *)
(* no part of the model: it is the other one with a plausible bug, to show *)
(* which property notices.                                                 *)
(***************************************************************************)
EXTENDS Integers, Sequences, FiniteSets, FiniteSetsExt, SequencesExt

CONSTANTS
    Hosts,          \* sources of data
    Requests,       \* HTTP value requests
    None,           \* an empty bucket
    DoAdd,          \* cd_doadd: several data of a source for one period add up
    Granularity,    \* seconds of a data point
    Timeout,        \* agg_http_req_timeout, in seconds
    Recent,         \* agg_recent_interval
    Ahead,          \* agg_future_interval
    Late,           \* bound on the seconds that data are late
    Retention,      \* retention-time, 0 if there is none
    StashTimeout,   \* agg_stash_timeout
    LoadRetry,      \* agg_stash_load_retry
    SaveInterval,   \* agg_stash_min_interval
    FirstSecond,    \* seconds of the modelled stretch of time
    LastSecond,
    LostOps,        \* operations whose command may get lost
    FailOps,        \* operations that the stash may answer with an error
    MaxFaults,      \* bound on commands lost or failed
    MaxCommands,    \* bound on commands of the configuration service
    MaxCmds,        \* bound on outstanding stash commands
    MaxCrashes      \* bound on crashes

ASSUME AggregatorAssumption ==
    /\ IsFiniteSet(Hosts) /\ IsFiniteSet(Requests)
    /\ DoAdd \in BOOLEAN
    /\ {Granularity, SaveInterval} \subseteq Nat \ {0}
    /\ {Timeout, Recent, Ahead, Late, Retention, StashTimeout, LoadRetry}
          \subseteq Nat
    /\ Recent > 0
    /\ FirstSecond \in Nat \ {0} /\ LastSecond \in Nat
    /\ FirstSecond <= LastSecond
    /\ LostOps \cup FailOps \subseteq {"get", "put", "delete"}
    /\ {MaxFaults, MaxCommands, MaxCmds, MaxCrashes} \subseteq Nat

VARIABLES
    up,         \* whether the process runs
    now,        \* current second
    insts,      \* objects made for the instrumentation in this life
    current,    \* number of the one in agg_insts, 0 if there is none
    binding,    \* persist-data of the enable commands whose bind is pending
    bucket,     \* dataset in the stash
    cmds,       \* stash commands sent and not answered, in order
    rqs,        \* HTTP requests
    heard,      \* history: <<source, second>> whose datum has come
    bounds      \* counters of the bounds

vars == <<up, now, insts, current, binding, bucket, cmds, rqs, heard,
          bounds>>
-----------------------------------------------------------------------------
(* Datasets. *)

ptime(t) == t - (t % Granularity)
Times == FirstSecond..LastSecond
Periods == {ptime(t) : t \in Times}

\* reporting: cd_reporting; data: number of values added up for each period.
Datasets == [reporting: [Periods -> SUBSET Hosts], data: [Periods -> Nat]]
EmptyDataset == [reporting |-> [p \in Periods |-> {}],
                 data |-> [p \in Periods |-> 0]]

nReportingAt(d, t) == IF t \in Periods THEN Cardinality(d.reporting[t]) ELSE 0

\* The largest number of sources that reported in one period of the interval.
maxreporting(d, start, duration) ==
    Max({0} \cup {nReportingAt(d, p) : p \in start..(start + duration - 1)})

ntime(t) == IF t % Granularity = 0 THEN t ELSE ptime(t) + Granularity

aggExpected(d, t) ==
    maxreporting(d, ptime(t - Timeout - Recent), ntime(Recent))

IsComplete(d, p) == nReportingAt(d, p) >= aggExpected(d, p)

update(d, h, t) ==
    IF h \in d.reporting[ptime(t)] /\ ~DoAdd
    THEN d
    ELSE [d EXCEPT !.reporting[ptime(t)] = @ \cup {h},
                   !.data[ptime(t)] = @ + 1]

expireBefore(d, t) ==
    [reporting |-> [p \in Periods |-> IF p < t THEN {} ELSE d.reporting[p]],
     data |-> [p \in Periods |-> IF p < t THEN 0 ELSE d.data[p]]]

\* Stashed data are added to what there is.
unstash(d, s) ==
    [reporting |-> [p \in Periods |-> d.reporting[p] \cup s.reporting[p]],
     data |-> [p \in Periods |-> d.data[p] + s.data[p]]]
-----------------------------------------------------------------------------
\* An object is "idle" only within a step, before load() sends its command.
Loads == {"non-persistent", "pending", "waiting", "loaded"}
Insts == [persist: BOOLEAN,             \* persist-data
          load: Loads,                  \* agi_load
          loadLast: Times \cup {0},     \* agi_load_last
          saving: BOOLEAN,              \* agi_saving
          lastSaved: Times \cup {0},    \* agi_last_saved
          dataset: Datasets,            \* agi_dataset
          merged: BOOLEAN]              \* history: it took in stashed data

Cmds == [op: {"get", "put", "delete"},
         inst: Nat,                     \* object whose callback is waiting
         data: Datasets \cup {None},    \* content to write, or content read
         at: Times,                     \* second it was sent
         live: BOOLEAN,                 \* the callback is still waiting
         state: {"sent", "done", "failed", "lost"}]

Rqs == [state: {"new", "waiting", "answered", "gone"},
        inst: Nat,                      \* avr_instn
        latest: Int,                    \* latest()
        at: Times \cup {0}]             \* avr_rqtime

TypeOK ==
    /\ up \in BOOLEAN
    /\ now \in Times
    /\ insts \in Seq(Insts) /\ current \in 0..Len(insts)
    /\ binding \in Seq(BOOLEAN)
    /\ bucket \in Datasets \cup {None}
    /\ cmds \in Seq(Cmds)
    /\ rqs \in [Requests -> Rqs]
    /\ heard \subseteq Hosts \X Times
    /\ bounds \in [faults: 0..MaxFaults, commands: 0..MaxCommands,
                   crashes: 0..MaxCrashes]

NewRequest == [state |-> "new", inst |-> 0, latest |-> 0, at |-> 0]

Init ==
    /\ up = TRUE /\ now = FirstSecond
    /\ insts = <<>> /\ current = 0 /\ binding = <<>>
    /\ bucket = None /\ cmds = <<>>
    /\ rqs = [r \in Requests |-> NewRequest]
    /\ heard = {}
    /\ bounds = [faults |-> 0, commands |-> 0, crashes |-> 0]

Cmd(op, n, d) == [op |-> op, inst |-> n, data |-> d, at |-> now,
                  live |-> TRUE, state |-> "sent"]

\* Only the tick is not held up by the bound: it retries what has timed out.
Sends(new) == Len(cmds) + Len(new) <= MaxCmds /\ cmds' = cmds \o new

\* load() of object n, which takes the object from "idle" to "pending".
GetCmd(n) == <<Cmd("get", n, None)>>
-----------------------------------------------------------------------------
(* Commands of the configuration service. *)

Command ==
    /\ up /\ bounds.commands < MaxCommands
    /\ bounds' = [bounds EXCEPT !.commands = @ + 1]

EnableUnknown(persist) ==
    /\ Command
    /\ current = 0
    /\ binding' = Append(binding, persist)
    /\ UNCHANGED <<up, now, insts, current, bucket, cmds, rqs, heard>>

\* The queue is bound: the object is made, whatever has happened meanwhile.
Bound ==
    /\ up /\ binding # <<>>
    /\ LET n == Len(insts) + 1
           persist == Head(binding)
       IN /\ insts' = Append(insts,
                [persist |-> persist,
                 load |-> IF persist THEN "pending" ELSE "non-persistent",
                 loadLast |-> 0, saving |-> FALSE, lastSaved |-> 0,
                 dataset |-> EmptyDataset, merged |-> FALSE])
          /\ Sends(IF persist THEN GetCmd(n) ELSE <<>>)
          /\ current' = n
    /\ binding' = Tail(binding)
    /\ UNCHANGED <<up, now, bucket, rqs, bounds, heard>>

\* An enable of a known instrumentation updates it.
StartsToPersist(n, persist) == persist /\ insts[n].load = "non-persistent"
StopsToPersist(n, persist) == ~persist /\ insts[n].load # "non-persistent"

EnableKnown(persist) ==
    /\ Command
    /\ current # 0
    /\ insts' = [insts EXCEPT
          ![current].persist = persist,
          ![current].load = IF StartsToPersist(current, persist) THEN "pending"
                            ELSE IF StopsToPersist(current, persist)
                            THEN "non-persistent" ELSE @]
    /\ Sends(IF StartsToPersist(current, persist) THEN GetCmd(current)
             ELSE IF StopsToPersist(current, persist)
             THEN <<Cmd("delete", current, None)>> ELSE <<>>)
    /\ UNCHANGED <<up, now, current, binding, bucket, rqs, heard>>

Disable ==
    /\ Command
    /\ current # 0
    /\ current' = 0
    /\ Sends(<<Cmd("delete", current, None)>>)
    /\ UNCHANGED <<up, now, insts, binding, bucket, rqs, heard>>

Reset ==
    /\ Command
    /\ current # 0
    /\ current' = 0
    /\ UNCHANGED <<up, now, insts, binding, bucket, cmds, rqs, heard>>
-----------------------------------------------------------------------------
(* Data and value requests. *)

\* Saved whether or not the load has ended.
MMaySave(o) == o.load # "non-persistent" /\ ~o.saving

\* save() of the object, once it has the dataset d.
MaySave(o) ==
    /\ o.load = "loaded" /\ ~o.saving
    /\ o.lastSaved = 0 \/ /\ now - o.lastSaved >= SaveInterval
                          /\ now - o.lastSaved >= Granularity

Answer(rs) ==
    rqs' = [r \in Requests |->
              IF r \in rs THEN [NewRequest EXCEPT !.state = "answered"]
              ELSE rqs[r]]

WaitingOn(n) == {r \in Requests : rqs[r].state = "waiting" /\ rqs[r].inst = n}

\* The requests that data for the period p satisfies, and all earlier ones.
SatisfiedBy(p) == {r \in WaitingOn(current) : rqs[r].latest <= p}

\* Data of an unknown instrumentation, and of too far in the future, are dropped.
Data(h, t) ==
    /\ up /\ current # 0
    /\ t - Ahead <= now /\ now <= t + Late
    /\ <<h, t>> \notin heard /\ heard' = heard \cup {<<h, t>>}
    /\ LET d == update(insts[current].dataset, h, t)
           save == IsComplete(d, ptime(t)) /\ MaySave(insts[current])
       IN /\ insts' = [insts EXCEPT ![current].dataset = d,
                                    ![current].saving = @ \/ save]
          /\ Sends(IF save THEN <<Cmd("put", current, d)>> ELSE <<>>)
          /\ Answer(IF IsComplete(d, ptime(t)) THEN SatisfiedBy(ptime(t))
                    ELSE {})
    /\ UNCHANGED <<up, now, current, binding, bucket, bounds>>

\* The instrumentation of a request.  The configuration service tells enough of
\* it to make one up that is not known yet.
aggHttpInstn == IF current = 0 THEN [dataset |-> EmptyDataset] ELSE insts[current]

\* A request for the data point that ends at a certain second.
ValueRequest(r, end) ==
    /\ up /\ rqs[r].state = "new"
    /\ end % Granularity = 0 /\ end <= now + Timeout
    /\ now + Timeout <= LastSecond
    /\ LET latest == end - Granularity
       IN IF IsComplete(aggHttpInstn.dataset, latest)
          THEN Answer({r})
          ELSE rqs' = [rqs EXCEPT ![r] = [state |-> "waiting", inst |-> current,
                                          latest |-> latest, at |-> now]]
    /\ UNCHANGED <<up, now, insts, current, binding, bucket, cmds,
                   bounds, heard>>

\* The loop goes on to the next instrumentation if this one is not persistent.
MTimedOut == {r \in WaitingOn(current) :
                 insts[current].load # "non-persistent" /\ now - rqs[r].at >= Timeout}

TimedOut == {r \in WaitingOn(current) : now - rqs[r].at >= Timeout}

\* A save of all datasets would be due once agg_stash_saved - now exceeded the
\* interval, which it never does.  A second tick in one second does nothing.
aggTick ==
    /\ up
    /\ Answer(TimedOut)
    /\ IF current = 0
       THEN UNCHANGED <<insts, cmds>>
       ELSE LET o == insts[current]
                again == o.load = "waiting" /\ now - o.loadLast > LoadRetry
            IN /\ insts' = [insts EXCEPT
                    ![current].load = IF again THEN "pending" ELSE @,
                    ![current].dataset =
                        IF Retention = 0 THEN @
                        ELSE expireBefore(@, now - Retention)]
               /\ cmds' = cmds \o (IF again THEN GetCmd(current) ELSE <<>>)
    /\ UNCHANGED <<up, now, current, binding, bucket, bounds, heard>>
-----------------------------------------------------------------------------
(* The stash and its answers. *)

\* The stash carries out the first command that has not been carried out.
Carries(i) ==
    /\ cmds[i].state = "sent"
    /\ \A j \in 1..(i - 1) : cmds[j].state # "sent"

StashStep ==
    \E i \in DOMAIN cmds :
        /\ Carries(i)
        /\ bucket' = CASE cmds[i].op = "put" -> cmds[i].data
                       [] cmds[i].op = "delete" -> None
                       [] OTHER -> bucket
        /\ cmds' = [cmds EXCEPT ![i].state = "done",
                                ![i].data = IF cmds[i].op = "get" THEN bucket
                                            ELSE None]
        /\ UNCHANGED <<up, now, insts, current, binding, rqs, bounds,
                       heard>>

\* The stash answers with an error, or the broker has no queue to put the
\* command into.
Fault ==
    \E i \in DOMAIN cmds, outcome \in {"failed", "lost"} :
        /\ IF outcome = "failed" THEN Carries(i) /\ cmds[i].op \in FailOps
           ELSE cmds[i].state = "sent" /\ cmds[i].op \in LostOps
        /\ bounds.faults < MaxFaults
        /\ bounds' = [bounds EXCEPT !.faults = @ + 1]
        /\ cmds' = [cmds EXCEPT ![i].state = outcome, ![i].data = None]
        /\ UNCHANGED <<up, now, insts, current, binding, bucket, rqs,
                       heard>>

\* Mutant: the flag that a save is under way stays.
MSaveDone(o, at) == [o EXCEPT !.lastSaved = at]

\* What the callback of load() makes of the answer, an error being taken for an
\* empty bucket; the object may have been made non-persistent meanwhile.
LoadDone(o, content) ==
    [o EXCEPT !.load = "loaded",
              !.merged = @ \/ content # None,
              !.dataset = IF content = None THEN @ ELSE unstash(@, content)]

SaveDone(o, at) == [o EXCEPT !.saving = FALSE, !.lastSaved = at]
SaveFailed(o) == [o EXCEPT !.saving = FALSE]

\* An answer to a command that has timed out is dropped.
Answered ==
    \E i \in DOMAIN cmds :
        /\ up /\ cmds[i].state \in {"done", "failed"}
        /\ \A j \in 1..(i - 1) : cmds[j].state \notin {"done", "failed"}
        /\ cmds' = RemoveAt(cmds, i)
        /\ insts' = CASE cmds[i].live /\ cmds[i].op = "get" ->
                            [insts EXCEPT ![cmds[i].inst] =
                                LoadDone(@, cmds[i].data)]
                      [] cmds[i].live /\ cmds[i].op = "put" ->
                            [insts EXCEPT ![cmds[i].inst] =
                                IF cmds[i].state = "failed"
                                THEN SaveFailed(@) ELSE SaveDone(@, cmds[i].at)]
                      [] OTHER -> insts
        /\ UNCHANGED <<up, now, current, binding, bucket, rqs, bounds,
                       heard>>

TimesOut ==
    \E i \in DOMAIN cmds :
        /\ up /\ cmds[i].live /\ now - cmds[i].at >= StashTimeout
        /\ cmds' = IF cmds[i].state = "lost" THEN RemoveAt(cmds, i)
                   ELSE [cmds EXCEPT ![i].live = FALSE]
        /\ insts' = CASE cmds[i].op = "get" ->
                            [insts EXCEPT ![cmds[i].inst].load = "waiting",
                                          ![cmds[i].inst].loadLast = now]
                      [] cmds[i].op = "put" ->
                            [insts EXCEPT ![cmds[i].inst] = SaveFailed(@)]
                      [] OTHER -> insts
        /\ UNCHANGED <<up, now, current, binding, bucket, rqs, bounds,
                       heard>>
-----------------------------------------------------------------------------
(* The process. *)

\* Objects and callbacks are gone, connections are closed; commands that are
\* on their way to the stash will still be carried out.
Orphaned(cs) ==
    LET sent == {i \in DOMAIN cs : cs[i].state = "sent"}
        at == CHOOSE f \in [1..Cardinality(sent) -> sent] :
                 \A i, j \in DOMAIN f : i < j => f[i] < f[j]
    IN [i \in DOMAIN at |-> [cs[at[i]] EXCEPT !.inst = 0, !.live = FALSE]]

Crash ==
    /\ up /\ bounds.crashes < MaxCrashes
    /\ up' = FALSE
    /\ bounds' = [bounds EXCEPT !.crashes = @ + 1]
    /\ insts' = <<>> /\ current' = 0 /\ binding' = <<>>
    /\ cmds' = Orphaned(cmds)
    /\ rqs' = [r \in Requests |-> IF rqs[r].state = "waiting"
                                  THEN [NewRequest EXCEPT !.state = "gone"]
                                  ELSE rqs[r]]
    /\ UNCHANGED <<now, bucket, heard>>

Start ==
    /\ ~up /\ up' = TRUE
    /\ UNCHANGED <<now, insts, current, binding, bucket, cmds, rqs,
                   bounds, heard>>

Clock ==
    /\ now < LastSecond
    /\ now' = now + 1
    /\ heard' = {x \in heard : now' <= x[2] + Late}
    /\ UNCHANGED <<up, insts, current, binding, bucket, cmds, rqs, bounds>>

Next ==
    \/ Start \/ Crash \/ Clock
    \/ \E persist \in BOOLEAN : EnableUnknown(persist) \/ EnableKnown(persist)
    \/ Bound \/ Disable \/ Reset
    \/ \E h \in Hosts, t \in Times : Data(h, t)
    \/ \E r \in Requests, end \in Times : ValueRequest(r, end)
    \/ aggTick
    \/ StashStep \/ Fault \/ Answered \/ TimesOut

Spec == Init /\ [][Next]_vars

\* Time passes and the interval timer of a running process fires.
FairSpec == Spec /\ WF_vars(Clock) /\ WF_vars(aggTick)
-----------------------------------------------------------------------------
(* Properties. *)

\* A load that is pending, and a save that keeps others from starting, have a
\* command whose answer or timeout will end them, whatever enables, disables
\* and resets came in between.
Engaged ==
    \A n \in DOMAIN insts :
        LET mine(op) == {i \in DOMAIN cmds : /\ cmds[i].inst = n
                                             /\ cmds[i].op = op
                                             /\ cmds[i].live}
        IN /\ insts[n].load = "pending" => mine("get") # {}
           /\ insts[n].saving => mine("put") # {}

\* The data in the stash are replaced only by a dataset that has all of them,
\* save those that have expired: neither a restart, nor a reset, nor a load
\* without an answer or with a late one makes the aggregator overwrite data it
\* has not read (caaggsvc.js, comment in save()).  An error of the stash does,
\* as the comment in load() accepts: "get" is not in FailOps.
NoClobber ==
    [][bucket # None /\ bucket' # None =>
          \A p \in Periods :
              \/ /\ bucket.reporting[p] \subseteq bucket'.reporting[p]
                 /\ bucket.data[p] <= bucket'.data[p]
              \/ Retention > 0 /\ p < now - Retention]_vars

\* A request for an instrumentation that stays in agg_insts is answered, with
\* or without the data.
RequestsAnswered ==
    \A r \in Requests :
        rqs[r].state = "waiting" ~> \/ rqs[r].state # "waiting"
                                    \/ rqs[r].inst # current
=============================================================================
