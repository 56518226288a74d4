------------------------------ MODULE Dataset ------------------------------
(***************************************************************************)
(* What an aggregator keeps of one instrumentation (lib/ca/ca-agg.js): the *)
(* data reported for each period, summed over the sources, in one of four  *)
(* representations; expiry, saving and restoring.  What is answered from   *)
(* it: module Requests.  The aggregator service decides when each of these *)
(* happens (module Aggregator), here they come in any order.               *)
(*                                                                         *)
(* A distribution is a sorted sequence of [lo, n], n being the count of    *)
(* the bucket that starts at lo.  Buckets have fixed bounds.  An object is *)
(* a function on the names it has.                                         *)
(***************************************************************************)
EXTENDS Sums, SequencesExt

CONSTANTS Undefined,        \* JavaScript's undefined
          Instns,           \* the instrumentations: dimension, arity, scope
          Granularity,      \* their granularity
          Hosts, Keys, Los, \* sources, names of a discrete field, buckets
          FirstTime, LastTime, \* when data may be stamped
          MaxUpdates, MaxExpires, MaxCrashes, MaxLoads

ASSUME DatasetAssumption ==
    /\ Granularity \in Nat \ {0} /\ FirstTime \in Nat /\ LastTime \in Nat
    /\ IsFiniteSet(Hosts) /\ IsFiniteSet(Keys) /\ Los \subseteq Int

\* What caInstArity makes of a decomposition, as caDatasetForInstrumentation
\* asserts.
ASSUME InstnsAssumption == \A i \in Instns :
    /\ i.dimension \in 1..3
    /\ i.dimension = 1 <=> i.arity = "scalar"
    /\ i.dimension = 3 => i.arity = "numeric"

\* It is none of the values that it stands in for.
ASSUME UndefinedAssumption ==
    LET Distribution == Seq([lo : Int, n : Nat])
    IN  /\ Undefined \notin Nat /\ Undefined \notin Distribution
        /\ \A K \in SUBSET Keys : Undefined \notin [K -> Nat] \cup [K -> Distribution]

VARIABLES instn,            \* the instrumentation, fixed
          ds,               \* the caDataset
          saved,            \* the stash's copy, or Undefined
          heard,            \* ghost: the reports the dataset is to tell of
          kept,             \* ghost: heard, when it was saved
          tainted,          \* ghost: is the dataset or its copy known to be wrong
          updates, expires, crashes, loads  \* bounds

datavars == <<instn, ds, saved, heard, kept, tainted, updates, expires, crashes,
              loads>>

Multiple(n) == n % Granularity = 0
Times == FirstTime..LastTime
ptime(t) == t - (t % Granularity)
ntime(t) == IF Multiple(t) THEN t ELSE ptime(t) + Granularity
normalizeInterval(start, duration) ==
    [start |-> ptime(start), duration |-> ntime(duration)]
Periods == {ptime(t) : t \in Times}

\* for (time = start; time < start + duration; time += granularity)
PeriodsOf(start, duration) ==
    {t \in start..(start + duration - 1) : Multiple(t - start)}

----------------------------------------------------------------------------
(* Which dataset an instrumentation has *)

kind == caDatasetForInstrumentation(instn)
doadd == instn.scope = "interval"

cds_zero == CASE kind = "Scalar" -> 0
              [] kind = "HeatmapScalar" -> <<>>
              [] OTHER -> Empty

----------------------------------------------------------------------------
(* Adding *)

cds_add(lhs, rhs) ==
    CASE kind = "Scalar" -> caAddScalars(lhs, rhs)
      [] kind = "Decomp" -> caAddDecompositions(lhs, rhs, caAddScalars)
      [] kind = "HeatmapScalar" -> caAddDistributions(lhs, rhs)

\* caAddDecompositions changes its left hand side.
InPlace == kind = "Decomp"

----------------------------------------------------------------------------
(* The dataset *)

caDataset == [sources |-> Empty, reporting |-> Empty,
              data |-> Empty,           \* of the simple kinds
              zero |-> cds_zero,        \* the object every sum starts from
              distbykey |-> Empty, totalsbytime |-> Empty, keysbytime |-> Empty]

\* A period whose first datum was undefined refers to the zero object itself.
IsZero == [zero |-> TRUE]
Value(v) == [zero |-> FALSE, v |-> v]
DataAt(d, t) == IF d.data[t].zero THEN d.zero ELSE d.data[t].v

AddSimple(d, t, datum) ==
    IF t \notin DOMAIN d.data
      THEN [d EXCEPT !.data = With(@, t, IF datum = Undefined THEN IsZero
                                         ELSE Value(datum))]
    ELSE LET sum == cds_add(DataAt(d, t), IF datum = Undefined THEN d.zero ELSE datum)
         IN  IF d.data[t].zero /\ InPlace THEN [d EXCEPT !.zero = sum]
             ELSE [d EXCEPT !.data[t] = Value(sum)]

\* Mutant: The total is that of the last report.
MAddKey(d, t, k, dist) ==
    LET times == Get(d.distbykey, k, Empty)
    IN  [d EXCEPT !.keysbytime[t] = @ \cup {k},
                  !.distbykey = With(@, k, With(times, t,
                        caAddDistributions(Get(times, t, <<>>), dist))),
                  !.totalsbytime[t] = dist]
AddKey(d, t, k, dist) ==
    LET times == Get(d.distbykey, k, Empty)
    IN  [d EXCEPT !.keysbytime[t] = @ \cup {k},
                  !.distbykey = With(@, k, With(times, t,
                        caAddDistributions(Get(times, t, <<>>), dist))),
                  !.totalsbytime[t] = caAddDistributions(@, dist)]

AddHeatmapDecomp(d, t, datum) ==
    IF datum = Undefined THEN d
    ELSE LET begun == IF t \in DOMAIN d.keysbytime THEN d
                      ELSE [d EXCEPT !.keysbytime = With(@, t, {}),
                                     !.totalsbytime = With(@, t, <<>>)]
         IN  FoldSet(LAMBDA k, e : AddKey(e, t, k, datum[k]), begun, DOMAIN datum)

aggregateValue(d, t, datum) ==
    IF kind = "HeatmapDecomp" THEN AddHeatmapDecomp(d, t, datum)
    ELSE AddSimple(d, t, datum)

Heard(d, host, last) ==
    [d EXCEPT !.sources = With(@, host, Max({last, Get(@, host, last)}))]
Report(d, t, hosts) ==
    [d EXCEPT !.reporting = With(@, t, Get(@, t, {}) \cup hosts)]

\* Mutant: A source counts as often as it reports.
Mupdate(d, host, raw, datum) ==
    aggregateValue(Report(Heard(d, host, raw), ptime(raw), {host}), ptime(raw), datum)
update(d, host, raw, datum) ==
    LET t == ptime(raw)
        known == Heard(d, host, raw)
    IN  IF host \in Get(d.reporting, t, {}) /\ ~doadd THEN known
        ELSE aggregateValue(Report(known, t, {host}), t, datum)

Since(f, exptime) == Restrict(f, {t \in DOMAIN f : t >= exptime})

\* Mutant: Keys that have no data left are kept.
MexpireDataBefore(d, exptime) ==
    IF kind # "HeatmapDecomp" THEN [d EXCEPT !.data = Since(@, exptime)]
    ELSE [d EXCEPT !.distbykey = [k \in DOMAIN @ |-> Since(@[k], exptime)],
                   !.totalsbytime = Since(@, exptime),
                   !.keysbytime = Since(@, exptime)]
expireDataBefore(d, exptime) ==
    IF kind # "HeatmapDecomp" THEN [d EXCEPT !.data = Since(@, exptime)]
    ELSE LET left == [k \in DOMAIN d.distbykey |->
                 Restrict(d.distbykey[k], {t \in DOMAIN d.distbykey[k] :
                     ~(t < exptime /\ t \in DOMAIN d.keysbytime /\ k \in d.keysbytime[t])})]
         IN  [d EXCEPT !.distbykey = RestrictValues(left, LAMBDA f : DOMAIN f # {}),
                       !.totalsbytime = Since(@, exptime),
                       !.keysbytime = Since(@, exptime)]

expireBefore(d, exptime) ==
    expireDataBefore([d EXCEPT !.reporting = Since(@, exptime)], exptime)

Window(start, duration) ==
    PeriodsOf(start, IF doadd THEN duration ELSE Granularity)

dataForTime(d, start, duration) ==
    IF kind # "HeatmapDecomp"
      THEN FoldSet(LAMBDA t, v : cds_add(v, DataAt(d, t)), d.zero,
                   Window(start, duration) \cap DOMAIN d.data)
    ELSE LET ts == Window(start, duration) \cap DOMAIN d.keysbytime
         IN  [k \in UNION {d.keysbytime[t] : t \in ts} |->
                 FoldSet(LAMBDA t, v : caAddDistributions(v, d.distbykey[k][t]),
                         <<>>, {t \in ts : k \in d.keysbytime[t]})]

nReportingAt(d, t) == Cardinality(Get(d.reporting, t, {}))
nreporting(d, start, duration) ==
    Min({nReportingAt(d, t) : t \in PeriodsOf(start, duration)})
maxreporting(d, start, duration) ==
    Max({nReportingAt(d, t) : t \in PeriodsOf(start, duration)})

stash(d) == [sources |-> d.sources,
             data |-> [t \in DOMAIN d.reporting |->
                 [reporting |-> d.reporting[t],
                  datum |-> dataForTime(d, t, Granularity)]]]

\* Mutant: The data are restored, who reported them is not.
Munstash(d, s) ==
    FoldSet(LAMBDA t, e : aggregateValue(e, t, s.data[t].datum), d, DOMAIN s.data)
unstash(d, s) ==
    LET known == FoldSet(LAMBDA h, e : Heard(e, h, s.sources[h]), d,
                         DOMAIN s.sources)
    IN  FoldSet(LAMBDA t, e : aggregateValue(
                    Report(e, t, s.data[t].reporting), t, s.data[t].datum),
                known, DOMAIN s.data)

keysForTime(d, start, duration) ==
    IF kind # "HeatmapDecomp" THEN {}
    ELSE UNION {Get(d.keysbytime, t, {}) : t \in PeriodsOf(start, duration)}

total(d) == IF kind = "HeatmapDecomp" THEN d.totalsbytime
            ELSE [t \in DOMAIN d.data |-> DataAt(d, t)]
dataForKey(d, k) == Get(d.distbykey, k, Empty)

\* What a distribution has in a bucket.
In(dist, lo) ==
    SumFunction([i \in {j \in DOMAIN dist : dist[j].lo = lo} |-> dist[i].n])

----------------------------------------------------------------------------
(* Steps *)

\* What a source may send for a period.
Dists == {<<>>} \cup {<<[lo |-> a, n |-> 1]>> : a \in Los}
         \cup {<<[lo |-> p[1], n |-> 1], [lo |-> p[2], n |-> 1]>> :
                  p \in {q \in Los \X Los : q[1] < q[2]}}
Data == {Undefined} \cup
    CASE kind = "Scalar" -> {0, 1}
      [] kind = "Decomp" -> UNION {[K -> {1}] : K \in SUBSET Keys}
      [] kind = "HeatmapScalar" -> Dists
      [] kind = "HeatmapDecomp" ->
           {[k \in K |-> dist] : K \in SUBSET Keys, dist \in Dists \ {<<>>}}

Init ==
    /\ instn \in Instns
    /\ ds = caDataset
    /\ saved = Undefined
    /\ heard = Empty
    /\ kept = Empty
    /\ tainted = FALSE
    /\ updates = 0 /\ expires = 0 /\ crashes = 0 /\ loads = 0

\* The zero that sums start from has been added to (aggregateValue keeps a
\* reference to it, and caAddDecompositions changes its left hand side).
Spoiled == ds.zero # cds_zero

\* Data arrive.  Their number in the order of arrival is their identity.
Update ==
    /\ updates < MaxUpdates
    /\ \E host \in Hosts, raw \in Times, datum \in Data :
         LET t == ptime(raw)
         IN  /\ ds' = update(ds, host, raw, datum)
             /\ heard' = With(heard, t, Get(heard, t, {}) \cup
                    {[id |-> updates, host |-> host, datum |-> datum]})
    /\ updates' = updates + 1
    /\ UNCHANGED <<instn, saved, kept, tainted, expires, crashes, loads>>

Expire ==
    /\ expires < MaxExpires
    /\ \E exptime \in Times :
         /\ ds' = expireBefore(ds, exptime)
         /\ heard' = Since(heard, exptime)
    /\ expires' = expires + 1
    /\ UNCHANGED <<instn, saved, kept, tainted, updates, crashes, loads>>

Save ==
    /\ ds.reporting # Empty
    /\ saved' = stash(ds)
    /\ kept' = heard
    /\ tainted' = (tainted \/ Spoiled)
    /\ UNCHANGED <<instn, ds, heard, updates, expires, crashes, loads>>

Crash ==
    /\ crashes < MaxCrashes
    /\ ds' = caDataset
    /\ heard' = Empty
    /\ crashes' = crashes + 1
    /\ UNCHANGED <<instn, saved, kept, tainted, updates, expires, loads>>

\* Has the dataset already what is restored: the same report, or, where a
\* source counts once, another report of the source.
Again(t) == \E a \in kept[t], b \in Get(heard, t, {}) :
                a.id = b.id \/ (~doadd /\ a.host = b.host)

Load ==
    /\ saved # Undefined /\ loads < MaxLoads
    /\ ds' = unstash(ds, saved)
    /\ heard' = [t \in DOMAIN heard \cup DOMAIN kept |->
                     Get(heard, t, {}) \cup Get(kept, t, {})]
    /\ tainted' = (tainted \/ \E t \in DOMAIN kept : Again(t))
    /\ loads' = loads + 1
    /\ UNCHANGED <<instn, saved, kept, updates, expires, crashes>>

Next == Update \/ Expire \/ Save \/ Crash \/ Load

Spec == Init /\ [][Next]_datavars

----------------------------------------------------------------------------
(* Properties *)

\* The reports of a period that count: all of them, or the first of each
\* source.
Counted(t) ==
    {r \in Get(heard, t, {}) : /\ r.datum # Undefined
                               /\ doadd \/ \A q \in heard[t] : q.host = r.host => q.id >= r.id}

\* What a value says of a name and a bucket.
Says(v, k, lo) ==
    CASE kind = "Scalar" -> v
      [] kind = "Decomp" -> Get(v, k, 0)
      [] kind = "HeatmapScalar" -> In(v, lo)
      [] kind = "HeatmapDecomp" -> In(Get(v, k, <<>>), lo)

Truth(ts, k, lo) ==
    SumFunction([t \in ts |-> SumFunction([r \in Counted(t) |-> Says(r.datum, k, lo)])])

\* The three structures of a heatmap with a decomposition agree: the keys of a
\* period are those with a distribution then, its total is the sum of these,
\* and a key without any is gone (caDatasetHeatmapDecomp).
Sorted(dist) == \A i \in 1..(Len(dist) - 1) : dist[i].lo < dist[i + 1].lo
Consistent ==
    /\ DOMAIN ds.totalsbytime = DOMAIN ds.keysbytime
    /\ \A k \in DOMAIN ds.distbykey : ds.distbykey[k] # Empty
    /\ \A t \in Periods :
         /\ Get(ds.keysbytime, t, {}) =
                {k \in DOMAIN ds.distbykey : t \in DOMAIN ds.distbykey[k]}
         /\ Sorted(Get(ds.totalsbytime, t, <<>>))
         /\ \A lo \in Los : In(Get(ds.totalsbytime, t, <<>>), lo) =
                SumFunction([k \in Keys |-> In(Get(dataForKey(ds, k), t, <<>>), lo)])

=============================================================================
