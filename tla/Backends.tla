------------------------------ MODULE Backends ------------------------------
(***************************************************************************)
(* The metrics of the instrumenter's other back ends, and the choice of    *)
(* the implementation an instrumentation gets (cmd/cainst/modules,         *)
(* lib/ca/ca-svc-instr.js).  An implementation is a record with its        *)
(* backend, module and stat; arities maps its fields to "discrete" or      *)
(* "numeric".                                                              *)
(***************************************************************************)
EXTENDS Kstat, Props

Each(S, arity) == [f \in S |-> arity]

-----------------------------------------------------------------------------
(* zfs: what the columns of a dataset or a pool make of each metric        *)

Zfs(stat, scope) == [backend |-> "zfs", module |-> "zfs", stat |-> stat, scope |-> scope]
inszMetrics == {Zfs("dataset_unused_quota", "dataset"), Zfs("dataset_used", "dataset"),
                Zfs("dataset_quota", "dataset"), Zfs("pool_free", "pool"),
                Zfs("pool_used", "pool"), Zfs("pool_total", "pool")}
izm_mkey(m) == IF m.scope = "dataset" THEN "zdataset" ELSE "zpool"

\* Datasets that have no quota are left out of the metrics about quotas.
ZfsDefined(m, o) == m.stat \in {"dataset_unused_quota", "dataset_quota"} => o.quota # 0
ZfsValue(m, o) ==
    CASE m.stat = "dataset_unused_quota" -> o.quota - o.used
      [] m.stat = "dataset_used" -> o.used - o.usedbychildren
      [] m.stat = "dataset_quota" -> o.quota
      [] m.stat = "pool_free" -> o.free
      [] m.stat = "pool_used" -> o.allocated
      [] m.stat = "pool_total" -> o.size
ZfsPoints(m, objects) ==
    {[fields |-> (izm_mkey(m) :> <<"string", name>>) @@ ("hostname" :> <<"string", "host">>),
      value |-> ZfsValue(m, objects[name])] :
        name \in {x \in DOMAIN objects : ZfsDefined(m, objects[x])}}

-----------------------------------------------------------------------------
(* proc: every process is one data point                                   *)

inspMetrics == {[backend |-> "proc", module |-> "unix", stat |-> "processes"]}
ProcNames == {"execname", "zonename", "ppid", "pid", "contract", "psargs", "pmodel"}
ProcBucketizers == ("rss" :> LogLin(0))
                   @@ ("nthreads" :> [scale |-> "log", min |-> 1, nbuckets |-> 1000])
ProcPoints(objects) ==
    {[fields |-> [f \in ProcNames |-> <<"string", objects[pid][f]>>]
                 @@ ("hostname" :> <<"string", "host">>)
                 @@ ("rss" :> <<"number", 1024 * objects[pid].pages>>)
                 @@ ("nthreads" :> <<"number", objects[pid].nlwp>>),
      value |-> 1] : pid \in DOMAIN objects}

-----------------------------------------------------------------------------
(* cainstr: the instrumenter's own events                                  *)

Ca(stat) == [backend |-> "cainstr", module |-> "ca", stat |-> stat]
inrMetrics == {Ca("instr_ticks"), Ca("instr_beops"), Ca("instr_enables"),
               Ca("instr_disables")}
inrFields(m) ==
    {"hostname", "latency"}
    \cup (IF m.stat \in {"instr_ticks", "instr_beops"} THEN {"subsecond"} ELSE {})
    \cup (IF m.stat = "instr_ticks" THEN {} ELSE {"cabackend", "cainstnid", "cametric"})
inrBucketizers == ("latency" :> LogLin(0))
                  @@ ("subsecond" :> [scale |-> "linear", step |-> 10])

\* How values are added up depends on which kinds of decompositions there are.
inr_zero(arities, decomp) ==
    IF decomp = <<>> THEN [scalar |-> 0]
    ELSE IF Discrete(arities, decomp) = <<>> THEN [dist |-> <<>>]
    ELSE [bykey |-> Empty]
AddDists(l, r) == [dist |-> caAddDistributions(l.dist, r.dist)]
AddCounts(l, r) == [scalar |-> caAddScalars(l.scalar, r.scalar)]
inr_add(arities, decomp, l, r) ==
    IF decomp = <<>> THEN AddCounts(l, r)
    ELSE IF Discrete(arities, decomp) = <<>> THEN AddDists(l, r)
    ELSE IF Numeric(arities, decomp) = <<>>
    THEN [bykey |-> caAddDecompositions(l.bykey, r.bykey, AddCounts)]
    ELSE [bykey |-> caAddDecompositions(l.bykey, r.bykey, AddDists)]

-----------------------------------------------------------------------------
(* fake: any value of any field, for every metric there is                 *)

Fake(m) == [backend |-> "fake", module |-> m.module, stat |-> m.stat, of |-> m]
infBucketizers(arities) ==
    [f \in {x \in DOMAIN arities : arities[x] = "numeric"} |-> LogLin(0)]

-----------------------------------------------------------------------------
(* dtrace has its own implementation of a metric kstat has, too            *)

ArcOps == [backend |-> "dtrace", module |-> "zfs", stat |-> "arc_ops"]

-----------------------------------------------------------------------------
(* The fields of an implementation, and which implementation is taken      *)

Kind(m) == IF "backend" \in DOMAIN m THEN m.backend ELSE "kstat"

RECURSIVE arities(_)
arities(m) ==
    CASE Kind(m) = "kstat" ->
            Each(DOMAIN m.attrs \cup (IF m.by = "" THEN {} ELSE {m.by}), "discrete")
            @@ Each(DOMAIN m.measures, "numeric")
      [] Kind(m) = "zfs" -> Each({"hostname", izm_mkey(m)}, "discrete")
      [] Kind(m) = "proc" -> Each(ProcNames \cup {"hostname"}, "discrete")
                             @@ Each({"rss", "nthreads"}, "numeric")
      [] Kind(m) = "cainstr" -> Each(inrFields(m) \cap {"latency", "subsecond"}, "numeric")
                                @@ Each(inrFields(m), "discrete")
      [] Kind(m) = "fake" -> arities(m.of)
      [] OTHER -> Each({"hostname", "zonename", "execname", "optype"}, "discrete")

Registered == inskMetrics \cup {ArcOps} \cup inszMetrics \cup inrMetrics \cup inspMetrics
Order == <<"kstat", "dtrace", "zfs", "cainstr", "proc">>

implSupportsFields(m, fields) == fields \subseteq DOMAIN arities(m)

\* The fields of a metric, whatever their implementation.
MetricArities(module, stat) ==
    LET of == {m \in Registered : m.module = module /\ m.stat = stat}
    IN  [f \in UNION {DOMAIN arities(m) : m \in of} |->
            arities(CHOOSE m \in of : f \in DOMAIN arities(m))[f]]

\* The first back end that supports the fields of the decomposition and of the
\* predicate.  Which zones are asked for does not matter.
Implementations(module, stat, fields) ==
    {m \in Registered : m.module = module /\ m.stat = stat /\ implSupportsFields(m, fields)}
Chosen(module, stat, fields) ==
    LET able == Implementations(module, stat, fields)
        of(be) == {m \in able : Kind(m) = be}
    IN  CHOOSE m \in of(Order[SelectInSeq(Order, LAMBDA be : of(be) # {})]) : TRUE

\* Numeric decompositions are put last.
OrderDecomposition(ars, decomp) ==
    Discrete(ars, decomp) \o Numeric(ars, decomp)

\* The zones asked for, as a part of the predicate.  The proc back end looks for
\* the user's predicate under a wrong name and finds none, the fake one has none.
AllZones == {"all"}
ZoneName(m, zone) == IF Kind(m) = "zfs" THEN Rel("eq", "zdataset", <<"string", "zones/" \o zone>>)
                     ELSE Rel("eq", "zonename", <<"string", zone>>)
Restricted(m, zones, pred) ==
    LET onlyzones == Or(Listed({ZoneName(m, z) : z \in zones}))
    IN  IF Kind(m) = "fake" THEN Trivial
        ELSE IF Kind(m) = "cainstr" \/ zones = AllZones THEN pred
        ELSE IF caPredNonTrivial(pred) /\ Kind(m) # "proc" THEN And(<<onlyzones, pred>>)
        ELSE onlyzones
=============================================================================
