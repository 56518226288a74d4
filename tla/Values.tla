------------------------------- MODULE Values -------------------------------
(***************************************************************************)
(* One instrumentation in an instrumenter, from the request the            *)
(* configuration service accepts to the values reported each tick.  What   *)
(* it measures changes between the ticks: the kernel's statistics,         *)
(* datasets, processes, or the instrumenter's own events.                  *)
(*                                                                         *)
(* What happens is logged apart from the counters it shows up in, so that  *)
(* a value can be compared with what has happened.                         *)
(***************************************************************************)
EXTENDS Backends

CONSTANTS Requests,         \* what may be asked for, and of which kind of service:
                            \* [fake, module, stat, decomp, pred, zones]
          Universe,         \* names for the kstats there may be, and their families
          Datasets, Pids,   \* the datasets with their parents, the processes
          Sizes,            \* of what happens
          MaxHappen, MaxChurn, MaxReads

VARIABLES instn,            \* the instrumentation, fixed
          world,            \* what can be read now
          last,             \* kstat: the last snapshot, if any
          acc,              \* cainstr: the value so far
          alive,            \* is the instrumenter running
          answer,           \* the value reported in this tick
          truth,            \* ghost: the data points it should be made of
          log,              \* ghost: how often what has happened since the last read
          fresh,            \* ghost: kstats created since the last read
          renewed,          \* ghost: was one of them in the snapshot before that
          happened, churned, reads, now

vars == <<instn, world, last, acc, alive, answer, truth, log, fresh, renewed,
          happened, churned, reads, now>>

NoAnswer == [none |-> TRUE]

-----------------------------------------------------------------------------
(* The kernel, external: what each kind of event counts, once or by size   *)

Ev(ones, sizes) == [ones |-> ones, sizes |-> sizes]
Transfer == ("read" :> Ev({"reads"}, {"nread", "rtime"}))
            @@ ("write" :> Ev({"writes"}, {"nwritten", "rtime"}))
Effects ==
    [sys |-> ("kernel" :> Ev({}, {"cpu_nsec_kernel"})) @@ ("user" :> Ev({}, {"cpu_nsec_user"})),
     zones |-> ("kernel" :> Ev({}, {"nsec_sys"})) @@ ("user" :> Ev({}, {"nsec_user"}))
               @@ ("wait" :> Ev({}, {"nsec_waitrq"})) @@ ("load" :> Ev({}, {"avenrun_1min"})),
     link |-> ("sent" :> Ev({"opackets64"}, {"obytes64"}))
              @@ ("received" :> Ev({"ipackets64"}, {"rbytes64"})),
     disk |-> Transfer,
     vfs |-> Transfer,
     tcp |-> ("sent" :> Ev({"outSegs"}, {})) @@ ("received" :> Ev({"inSegs"}, {}))
             @@ [e \in TcpErrors |-> Ev({e}, {})],
     memory |-> ("rss" :> Ev({}, {"rss"})) @@ ("swap" :> Ev({}, {"swap"}))
                @@ ("pageout" :> Ev({}, {"pagedout"})) @@ ("pagein" :> Ev({}, {"pgpgin"}))
                @@ ("limits" :> Ev({}, {"physcap", "swapcap"})),
     kvm |-> [e \in DOMAIN Exits |-> Ev({"exits", Exits[e]}, {})] @@ ("other" :> Ev({"exits"}, {})),
     arc |-> ("hit" :> Ev({"hits"}, {})) @@ ("miss" :> Ev({"misses"}, {}))]
Zeros(family) ==
    LET all == UNION {Effects[family][e].ones \cup Effects[family][e].sizes :
                        e \in DOMAIN Effects[family]}
    IN  [c \in all |-> 0]
Bump(data, e, n) ==
    [c \in DOMAIN data |-> data[c] + (IF c \in e.ones THEN 1 ELSE IF c \in e.sizes THEN n ELSE 0)]

\* The kstats of the families that an implementation reads some of.
Kstats(impl) ==
    IF Kind(impl) # "kstat" THEN {}
    ELSE LET families == {Universe[k].family : k \in {x \in DOMAIN Universe : Selected(impl, Universe[x])}}
         IN  {k \in DOMAIN Universe : Universe[k].family \in families}

-----------------------------------------------------------------------------
(* The instrumentation that is made of each request                        *)

\* The configuration service knows the fields that any host has for the metric, an
\* instrumenter takes the request if one implementation has those that are used.
Used(r) == {r.decomp[i] : i \in DOMAIN r.decomp} \cup caPredFields(r.pred)
Accepted(r) ==
    /\ ValidFields(MetricArities(r.module, r.stat), r.decomp)
    /\ ValidPred(MetricArities(r.module, r.stat), r.pred)
    /\ Implementations(r.module, r.stat, Used(r)) # {}
Taken(r) == LET impl == Chosen(r.module, r.stat, Used(r))
            IN  IF r.fake THEN Fake(impl) ELSE impl

Made(r) ==
    LET impl == Taken(r)
        ars == arities(impl)
    IN  [impl |-> impl, kind |-> Kind(impl), arities |-> ars, kstats |-> Kstats(impl),
         decomp |-> OrderDecomposition(ars, r.decomp), shape |-> caInstArity(ars, r.decomp),
         asked |-> r.pred, zones |-> r.zones, pred |-> Restricted(impl, r.zones, r.pred)]
m == instn.impl
kind == instn.kind

Boot(i) ==
    CASE i.kind = "kstat" ->
            [k \in i.kstats |-> [snaptime |-> 0, data |-> Zeros(Universe[k].family)]]
      [] i.kind = "zfs" -> [d \in DOMAIN Datasets |-> [own |-> 1, quota |-> 0]]
      [] i.kind = "proc" -> [pid \in {} |-> 0]
      [] OTHER -> NoAnswer

Init ==
    \E r \in Requests :
        /\ Accepted(r)
        /\ Kind(Taken(r)) # "dtrace"   \* what D programs report: see MetaRun
        /\ instn = Made(r)
        /\ world = Boot(instn)
        /\ acc = inr_zero(instn.arities, instn.decomp)
        /\ last = <<>>
        /\ alive = TRUE
        /\ answer = NoAnswer
        /\ truth = {}
        /\ log = Empty
        /\ fresh = {}
        /\ renewed = FALSE
        /\ happened = 0 /\ churned = 0 /\ reads = 0 /\ now = 2 * Second

-----------------------------------------------------------------------------
(* What a numeric field is about: some kinds of events, which it counts or *)
(* whose sizes it adds up.                                                 *)

About(kinds, weight) == [kinds |-> kinds, weight |-> weight]
Meant ==
    [utilization |-> About({"kernel", "user"}, "size"),
     packets |-> About({"sent", "received"}, "one"),
     packets_in |-> About({"received"}, "one"),
     packets_out |-> About({"sent"}, "one"),
     bytes |-> About({"sent", "received", "read", "write"}, "size"),
     bytes_read |-> About({"received", "read"}, "size"),
     bytes_write |-> About({"sent", "write"}, "size"),
     iops |-> About({"read", "write"}, "one"),
     iops_read |-> About({"read"}, "one"),
     iops_write |-> About({"write"}, "one"),
     busytime |-> About({"read", "write"}, "size")]

-----------------------------------------------------------------------------
(* Between the ticks                                                       *)

Logged(what) == With(log, what, Get(log, what, 0) + 1)

Happens(what) ==
    /\ alive
    /\ happened < MaxHappen
    /\ happened' = happened + 1
    /\ log' = Logged(what)
    /\ answer' = NoAnswer
    /\ truth' = {}
    /\ UNCHANGED <<instn, last, alive, renewed, churned, reads, now>>

BySize == {"usage", "waittime", "bytes", "vnic_bytes", "physio_bytes",
           "logical_rwbytes", "reclaimed_bytes", "pageins"}

\* Sizes differ where a field tells them apart.
Sized == \E f \in {instn.decomp[i] : i \in DOMAIN instn.decomp} \cup caPredFields(instn.asked) :
            f \in DOMAIN Meant /\ Meant[f].weight = "size"

\* Nothing is told by what happens before there is a first snapshot.
KstatHappens(k, e, n) ==
    /\ kind = "kstat"
    /\ last # <<>>
    /\ k \in DOMAIN world
    /\ e \in DOMAIN Effects[Universe[k].family]
    /\ Sized \/ \A x \in Sizes : n <= x
    /\ Happens([k |-> k, e |-> e, n |-> n])
    /\ world' = [world EXCEPT ![k].data = Bump(@, Effects[Universe[k].family][e], n)]
    /\ UNCHANGED <<acc, fresh>>

ZfsHappens(d, field, n) ==
    /\ kind = "zfs"
    /\ Happens([k |-> d, e |-> field, n |-> n])
    /\ world' = [world EXCEPT ![d][field] = @ + n]
    /\ UNCHANGED <<acc, fresh>>

\* A process starts or ends.
ProcHappens(pid, pages) ==
    /\ kind = "proc"
    /\ Happens([k |-> pid, e |-> "proc", n |-> pages])
    /\ world' = IF pid \in DOMAIN world THEN [p \in DOMAIN world \ {pid} |-> world[p]]
                ELSE With(world, pid, [Pids[pid] EXCEPT !.pages = pages])
    /\ UNCHANGED <<acc, fresh>>

\* A kstat goes or comes: a zone halts or boots, a device is detached or attached.
Churn(k) ==
    /\ kind = "kstat"
    /\ alive
    /\ churned < MaxChurn
    /\ churned' = churned + 1
    /\ IF k \in DOMAIN world
         THEN /\ world' = [x \in DOMAIN world \ {k} |-> world[x]]
              /\ UNCHANGED fresh
         ELSE /\ world' = With(world, k, [snaptime |-> 0, data |-> Zeros(Universe[k].family)])
              /\ fresh' = fresh \cup {k}
    /\ answer' = NoAnswer
    /\ truth' = {}
    /\ UNCHANGED <<instn, last, acc, alive, log, renewed, happened, reads, now>>

-----------------------------------------------------------------------------
(* Applying a predicate and computing the value, or dying of the predicate *)

Misplaced == \E i \in DOMAIN instn.decomp : /\ i < Len(instn.decomp)
                                            /\ instn.arities[instn.decomp[i]] = "numeric"
Answer(bucketizers, points) ==
    IF \/ \E i \in DOMAIN points : caPredEval(instn.pred, points[i].fields) = "dies"
       \/ Misplaced
      THEN /\ alive' = FALSE
           /\ answer' = NoAnswer
    ELSE /\ answer' = caInstrComputeValue(bucketizers, instn.decomp,
                                          caInstrApplyPredicate(instn.pred, points))
         /\ UNCHANGED alive

iam_zero == CASE instn.decomp = <<>> -> [scalar |-> 0]
              [] Discrete(instn.arities, instn.decomp) # <<>> -> [bykey |-> Empty]
              [] OTHER -> [dist |-> <<>>]

-----------------------------------------------------------------------------
(* What has happened, seen from outside: the data points a value should    *)
(* tell of.                                                                *)

PlainKind == [waittime |-> {"wait"}, reclaimed_bytes |-> {"pageout"}, pageins |-> {"pagein"}]
MeantBy(v) == About(IF m.by = "" THEN PlainKind[m.stat] ELSE {v},
                    IF m.stat \in BySize THEN "size" ELSE "one")

Tally(k, about) ==
    FoldSet(LAMBDA o, sum : sum + log[o] * (IF about.weight = "one" THEN 1 ELSE o.n), 0,
            {o \in DOMAIN log : o.k = k /\ o.e \in about.kinds})
Percentage(n, since) == (100 * n) \div (now - since)

TruePoint(k, v, since) ==
    [who |-> <<k, v>>,
     fields |-> [f \in DOMAIN m.attrs |-> <<"string", Universe[k][m.attrs[f]]>>]
        @@ [f \in DOMAIN m.measures |->
              <<"number", IF m.measures[f].rate THEN Percentage(Tally(k, Meant[f]), since)
                          ELSE Tally(k, Meant[f])>>]
        @@ (m.by :> <<"string", v>>),
     value |-> CASE m.extract = "resource" -> 1
                 [] m.extract = "delta" -> Tally(k, MeantBy(v))
                 [] m.extract = "percent" -> Percentage(Tally(k, MeantBy(v)), since)
                 [] OTHER -> Sum(world[k].data, m.values[v])]

\* The kstats that are there and were there at the last read.
KstatTruth(seen) ==
    {TruePoint(p[1], p[2], last[1][p[1]].snaptime) :
        p \in {q \in (seen \cap DOMAIN last[1]) \X DOMAIN m.values :
                m.extract = "limit" => inskMemLimit(Sum(world[q[1]].data, m.values[q[2]]))}}

RECURSIVE Space(_)
Space(d) == LET children == {c \in DOMAIN Datasets : Datasets[c] = d}
            IN  world[d].own + FoldSet(LAMBDA c, sum : sum + Space(c), 0, children)

\* What the zfs and zpool commands print, of everything there is in one pool.
ZfsObjects ==
    IF m.scope = "pool"
      THEN "zones" :> [free |-> 5000 - Space("zones"), allocated |-> Space("zones"), size |-> 5000]
      ELSE [d \in DOMAIN Datasets |->
              [quota |-> world[d].quota, used |-> Space(d),
               usedbychildren |-> Space(d) - world[d].own]]
ZfsTruth ==
    IF m.scope = "pool" THEN {[who |-> "zones", fields |-> pt.fields, value |-> pt.value] :
                                pt \in ZfsPoints(m, ZfsObjects)}
    ELSE {[who |-> d, fields |-> ("zdataset" :> <<"string", d>>)
                                 @@ ("hostname" :> <<"string", "host">>),
           value |-> CASE m.stat = "dataset_used" -> world[d].own
                       [] m.stat = "dataset_quota" -> world[d].quota
                       [] OTHER -> world[d].quota - Space(d)] :
            d \in {x \in DOMAIN Datasets : m.stat = "dataset_used" \/ world[x].quota # 0}}

-----------------------------------------------------------------------------
(* The value of a tick                                                     *)

Tick(bad) ==
    /\ alive
    /\ reads < MaxReads
    /\ reads' = reads + 1
    /\ now' = now + 2 * Second
    /\ churned' = churned + bad
    /\ log' = Empty
    /\ fresh' = {}
    /\ renewed' = (last # <<>> /\ fresh \cap DOMAIN last[1] # {})
    /\ UNCHANGED <<instn, world, happened>>

\* The first value is zero.
KstatValue(bad) ==
    /\ kind = "kstat"
    /\ churned + Cardinality(bad) <= MaxChurn
    /\ bad \subseteq {k \in DOMAIN world : Selected(m, Universe[k])}
    /\ Tick(Cardinality(bad))
    /\ LET kdata == [k \in read(m, Universe, DOMAIN world, bad) |-> [world[k] EXCEPT !.snaptime = now]]
       IN  IF last = <<>>
             THEN /\ last' = <<kdata>>
                  /\ answer' = iam_zero
                  /\ truth' = {}
                  /\ UNCHANGED alive
           ELSE /\ last' = <<kdata>>
                /\ \E order \in SetToSeqs(DOMAIN kdata \cap DOMAIN last[1]) :
                        Answer(Bucketizers(m), kstatPoints(m, Universe, order, kdata, last[1]))
                /\ truth' = KstatTruth(DOMAIN kdata)
    /\ UNCHANGED acc

ZfsDataValue ==
    /\ kind = "zfs"
    /\ Tick(0)
    /\ Answer(Empty, Listed(ZfsPoints(m, ZfsObjects)))
    /\ truth' = ZfsTruth
    /\ UNCHANGED <<last, acc>>

ProcValue ==
    /\ kind = "proc"
    /\ Tick(0)
    /\ \E order \in SetToSeqs(ProcPoints(world)) : Answer(ProcBucketizers, order)
    /\ truth' = {[who |-> pt.fields.pid, fields |-> pt.fields, value |-> 1] :
                    pt \in ProcPoints(world)}
    /\ UNCHANGED <<last, acc>>

\* The fake back end makes data points up.
FakePoint(n, s, value) ==
    [fields |-> [f \in DOMAIN instn.arities |->
                    IF instn.arities[f] = "numeric" THEN <<"number", n>> ELSE <<"string", s>>],
     value |-> value]
FakeValue(points) ==
    /\ kind = "fake"
    /\ Tick(0)
    /\ Answer(infBucketizers(instn.arities), points)
    /\ truth' = {points[i] @@ ("who" :> i) : i \in DOMAIN points}
    /\ UNCHANGED <<last, acc>>

-----------------------------------------------------------------------------
(* cainstr adds to its value with every event                              *)

CaEvent(fields) ==
    LET pt == [fields |-> fields @@ ("hostname" :> <<"string", "host">>), value |-> 1]
        points == caInstrApplyPredicate(instn.pred, <<pt>>)
    IN  /\ kind = "cainstr"
        /\ DOMAIN fields \cup {"hostname"} = DOMAIN instn.arities
        /\ alive
        /\ happened < MaxHappen
        /\ happened' = happened + 1
        /\ log' = Logged(pt)
        /\ answer' = NoAnswer
        /\ truth' = {}
        /\ acc' = IF points = <<>> THEN acc
                  ELSE inr_add(instn.arities, instn.decomp, acc,
                               caInstrComputeValue(inrBucketizers, instn.decomp, points))
        /\ alive' = (caPredEval(instn.pred, pt.fields) # "dies")
        /\ UNCHANGED <<instn, world, last, fresh, renewed, churned, reads, now>>

CaValue ==
    /\ kind = "cainstr"
    /\ Tick(0)
    /\ answer' = acc
    /\ acc' = inr_zero(instn.arities, instn.decomp)
    /\ truth' = {p[1] @@ ("who" :> p) : p \in UNION {{pt} \X (1..log[pt]) : pt \in DOMAIN log}}
    /\ UNCHANGED <<last, alive>>

Names == {"a", "b"}
Next ==
    \/ \E k \in instn.kstats, n \in Sizes : \E e \in DOMAIN Effects[Universe[k].family] : KstatHappens(k, e, n)
    \/ \E k \in instn.kstats : Churn(k)
    \/ \E bad \in SUBSET instn.kstats : KstatValue(bad)
    \/ \E d \in DOMAIN Datasets, field \in {"own", "quota"}, n \in Sizes : ZfsHappens(d, field, n)
    \/ ZfsDataValue
    \/ \E pid \in DOMAIN Pids, pages \in {0, 3} : ProcHappens(pid, pages)
    \/ ProcValue
    \/ \E n \in Sizes, s \in Names, len \in 0..2 :
            FakeValue(SubSeq(<<FakePoint(0, "a", 1), FakePoint(n, s, 2)>>, 1, len))
    \/ \E n \in Sizes \cup {0}, s \in Names :
            CaEvent([f \in DOMAIN instn.arities \ {"hostname"} |->
                        IF instn.arities[f] = "numeric" THEN <<"number", n>> ELSE <<"string", s>>])
    \/ CaValue

Spec == Init /\ [][Next]_vars

-----------------------------------------------------------------------------
(* What a predicate and the zones mean                                     *)

RECURSIVE Meets(_, _)
Meets(p, row) ==
    CASE p.key = "and" -> \A i \in DOMAIN p.args : Meets(p.args[i], row)
      [] p.key = "or" -> \E i \in DOMAIN p.args : Meets(p.args[i], row)
      [] p.key \in Relations -> caPredEvalHelper(p.key, row[p.field], p.const)
      [] OTHER -> TRUE
InZones(row) ==
    \/ instn.zones = AllZones
    \/ kind = "cainstr"
    \/ \E z \in instn.zones : IF kind = "zfs" THEN row["zdataset"] = <<"string", "zones/" \o z>>
                                ELSE row["zonename"] = <<"string", z>>
Matching == {t \in truth : InZones(t.fields) /\ Meets(instn.asked, t.fields)}

SumOf(S) == FoldSet(LAMBDA t, sum : sum + t.value, 0, S)

\* A distribution tells how much there is below each of its bounds, and which of
\* them starts less than a bucket below a value.  The power of ten from which on
\* buckets are logarithmic may be counted in the one below.
Width(how, value) ==
    IF how.scale = "linear" THEN Cents(how.step)
    ELSE IF value < 10^how.min THEN Cents(10^how.min)
    ELSE Cents(10 * 10^caLogFloor(10, value)) \div how.nbuckets
Below(dist, lo) == FoldLeft(LAMBDA sum, e : IF e.lo < lo THEN sum + e.n ELSE sum, 0, dist)
DistAgrees(dist, S, f, how) ==
    LET at(t) == Cents(t.fields[f][2])
        edge == IF how.scale = "log" THEN Cents(10^how.min) ELSE -1
    IN  /\ Below(dist, 100000000) = SumOf(S)
        /\ \A t \in {x \in S : at(x) # edge} : \E i \in DOMAIN dist :
                dist[i].lo <= at(t) /\ at(t) < dist[i].lo + Width(how, t.fields[f][2])
        /\ \A i \in DOMAIN dist :
            LET lo == dist[i].lo
            IN  /\ SumOf({t \in S : at(t) < lo}) <= Below(dist, lo)
                /\ Below(dist, lo) <= SumOf({t \in S : at(t) < lo \/ at(t) = edge})
                /\ lo # edge => Below(dist, lo) = SumOf({t \in S : at(t) < lo})

Bucketizer(f) ==
    CASE kind = "kstat" -> m.measures[f].bucketize
      [] kind = "proc" -> ProcBucketizers[f]
      [] kind = "cainstr" -> inrBucketizers[f]
      [] OTHER -> LogLin(0)

RECURSIVE Agrees(_, _, _)
Agrees(value, S, decomp) ==
    IF decomp = <<>> THEN value.scalar = SumOf(S)
    ELSE LET f == Head(decomp)
             with(k) == {t \in S : t.fields[f] = k}
         IN  IF instn.arities[f] = "numeric" THEN DistAgrees(value.dist, S, f, Bucketizer(f))
             ELSE /\ DOMAIN value.bykey = {t.fields[f] : t \in S}
                  /\ \A k \in DOMAIN value.bykey : Agrees(value.bykey[k], with(k), Tail(decomp))

-----------------------------------------------------------------------------
(* Properties                                                              *)

\* A kstat that was destroyed and created again since the last read is taken for
\* the old one, proc forgets the predicate if there are zones, fake has none.
Known == \/ renewed
         \/ kind = "proc" /\ instn.zones # AllZones /\ caPredNonTrivial(instn.asked)
         \/ kind = "fake" /\ (instn.zones # AllZones \/ caPredNonTrivial(instn.asked))

\* Every value tells of what has happened since the last one, all of it, once,
\* and under the right names: what the counters, the snapshots, the data points,
\* the predicate, the zones and the buckets make of it is what was asked for.
Exact ==
    (answer # NoAnswer /\ reads > (IF kind = "kstat" THEN 1 ELSE 0) /\ ~Known)
        => Agrees(answer, Matching, instn.decomp)

\* The value has the representation that the aggregator expects of an
\* instrumentation with the dimension and the arity the configuration service
\* gave it: caDatasetForInstrumentation's adders take no other.
Fits ==
    LET each(shape) == \A k \in DOMAIN answer.bykey : DOMAIN answer.bykey[k] = {shape}
    IN  answer # NoAnswer =>
            CASE caDatasetForInstrumentation(instn.shape) = "Scalar" -> DOMAIN answer = {"scalar"}
              [] caDatasetForInstrumentation(instn.shape) = "HeatmapScalar" ->
                    DOMAIN answer = {"dist"}
              [] caDatasetForInstrumentation(instn.shape) = "Decomp" ->
                    DOMAIN answer = {"bykey"} /\ each("scalar")
              [] OTHER -> DOMAIN answer = {"bykey"} /\ each("dist")

=============================================================================
