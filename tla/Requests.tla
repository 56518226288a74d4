------------------------------ MODULE Requests ------------------------------
(***************************************************************************)
(* What an aggregator answers to a request for the value of an             *)
(* instrumentation (cmd/caaggsvc.js: caAggrValueRequest; lib/ca/ca-agg.js: *)
(* caAggrValueRaw and others): its parameters are checked, it becomes a    *)
(* sequence of points, and once enough sources have reported, or after a   *)
(* while (module Aggregator), each is computed from the dataset as it is.  *)
(*                                                                         *)
(* Parameters are a function from names to what was sent for them: a text  *)
(* that is no number where one is expected is NaN, a list is a sequence.   *)
(* Latencies are in seconds.  node-heatmap is external: a column of a      *)
(* heatmap holds the distribution of one period.                           *)
(***************************************************************************)
EXTENDS Dataset

CONSTANTS NaN,              \* a text that is no number
          Invalid,          \* a request, or a part of it, that is refused
          Transforms,       \* the transformations there are,
          Allowed, Broken,  \*   those of the instrumentation, those that fail
          RawDuration, ImageDuration \* intervals if the request names none

ASSUME RequestsAssumption == RawDuration \in Nat \ {0} /\ ImageDuration \in Nat \ {0}

NoMax == 1000000            \* a parameter without maximum
Timeout == 5000             \* agg_http_req_timeout

-----------------------------------------------------------------------------
(* Parameters *)

Number(min, max, default) ==
    [type |-> "number", min |-> min, max |-> max, required |-> FALSE, default |-> default]
RequiredNumber(min, max) ==
    [type |-> "number", min |-> min, max |-> max, required |-> TRUE]
Flag == [type |-> "boolean", required |-> FALSE, default |-> FALSE]
Enum(choices, default) ==
    [type |-> "enum", choices |-> choices, required |-> FALSE, default |-> default]
Array(default) == [type |-> "array", required |-> FALSE, default |-> default]

\* What a parameter is, or Invalid.
caHttpParam(formals, actuals, p) ==
    LET decl == formals[p]
        raw == Get(actuals, p, Undefined)
        Valid == CASE decl.type = "number" -> raw # NaN /\ raw \in decl.min..decl.max
                   [] decl.type = "boolean" -> raw \in BOOLEAN
                   [] decl.type = "enum" -> raw \in decl.choices
                   [] decl.type = "array" -> TRUE
    IN  IF raw # Undefined THEN IF Valid THEN raw ELSE Invalid
        ELSE IF decl.required THEN Invalid ELSE decl.default

aggValueParams ==
    [duration |-> Number(1, 3600, Undefined),
     start_time |-> Number(0, NoMax, Undefined), end_time |-> Number(0, NoMax, Undefined),
     ndatapoints |-> Number(1, NoMax, 1), timeout |-> Number(0, Timeout, Timeout),
     transformations |-> Array(<<>>)]

caAggrHeatmapParams ==
    [width |-> Number(10, 1000, 600), height |-> Number(10, 1000, 300),
     ymin |-> Number(0, 1000, 0), ymax |-> Number(0, 1000, Undefined),
     nbuckets |-> Number(1, 100, 100), selected |-> Array(<<>>), hues |-> Array(Undefined),
     isolate |-> Flag, exclude |-> Flag, decompose_all |-> Flag,
     x |-> RequiredNumber(0, NoMax), y |-> RequiredNumber(0, NoMax),
     weights |-> Enum({"count", "weight"}, "weights"),
     coloring |-> Enum({"rank", "linear"}, "rank")]

-----------------------------------------------------------------------------
(* The interval, and the points *)

\* now is in seconds.
caAggrInterval(params, now, default) ==
    LET start == params.start_time
        end == params.end_time
        given == params.duration
        duration == IF given = Undefined /\ Undefined \in {start, end}
                      THEN default ELSE given
        Positive(s, n) == IF n < 1 THEN Invalid ELSE [start |-> s, duration |-> n]
    IN  IF end = Undefined
          THEN Positive(IF start = Undefined THEN now - duration - Granularity
                        ELSE start, duration)
        ELSE IF start = Undefined
          THEN IF duration > end THEN Invalid ELSE Positive(end - duration, duration)
        ELSE IF duration = Undefined
          THEN IF end <= start THEN Invalid ELSE Positive(start, end - start)
        ELSE IF start + duration # end THEN Invalid ELSE Positive(start, duration)

validate(xforms) == ToSet(xforms) \subseteq Transforms \cap Allowed

\* Mutant: The points overlap if they last longer than the granularity.
MPoints(p, n) == [i \in 1..n |-> [p EXCEPT !.start = @ + (i - 1) * Granularity]]
Points(p, n) == [i \in 1..n |-> [p EXCEPT !.start = @ + (i - 1) * p.duration]]

\* What a request asks for, or Invalid.
loadParameters(rq, default, now) ==
    LET given == IF rq.json # Undefined THEN rq.json ELSE rq.query
        param == [p \in DOMAIN aggValueParams |-> caHttpParam(aggValueParams, given, p)]
        interval == caAggrInterval(param, now, default)
        normal == normalizeInterval(interval.start, interval.duration)
    IN  IF \/ \E p \in DOMAIN param : param[p] = Invalid
           \/ ~validate(param.transformations)
           \/ interval = Invalid
          THEN Invalid
        ELSE [timeout |-> param.timeout, transformations |-> param.transformations,
              points |-> Points(normal, param.ndatapoints)]

latest_end(wanted) == Max({p.start + p.duration : p \in ToSet(wanted.points)})

-----------------------------------------------------------------------------
(* Which value *)

caAggrSupportsHeatmap(i) == i.arity = "numeric"

caAggrImpl ==
    [v \in {"raw", "image", "details", "average", "percentile"} |->
        [heatmap |-> v # "raw",
         duration |-> IF v \in {"image", "details"} THEN ImageDuration ELSE RawDuration]]

aggHttpValueList(i) ==
    {"raw"} \cup (IF caAggrSupportsHeatmap(i) THEN {"heatmap"} ELSE {})
aggHttpValueHeatmapList(i) ==
    IF caAggrSupportsHeatmap(i) THEN {"image", "details", "average", "percentile"} ELSE {}

\* What becomes of a request that arrives now: refused, or what it waits for.
NotFound == [error |-> "ENOTFOUND"]
Refused == [error |-> "ECA_INVAL"]
Start(rq, i, now) ==
    LET impl == caAggrImpl[rq.impl]
        wanted == loadParameters(rq, impl.duration, now)
    IN  IF impl.heatmap /\ ~caAggrSupportsHeatmap(i) THEN NotFound
        ELSE IF wanted = Invalid THEN Refused
        ELSE IF latest_end(wanted) * 1000 > now * 1000 + wanted.timeout THEN Refused
        ELSE wanted

-----------------------------------------------------------------------------
(* Values: raw *)

caAggrValueRaw(d, p) == dataForTime(d, p.start, p.duration)

\* A transformation that fails gives nothing, and costs no other its result.
aggHttpValueTransform(xforms, keys) ==
    [x \in ToSet(xforms) |-> IF x \in Broken THEN {} ELSE keys]

\* The answer for raw values.  The intervals are copied to it; for heatmaps,
\* a point that is refused or fails fails the request.
complete(d, wanted) ==
    [i \in DOMAIN wanted.points |->
        LET p == wanted.points[i]
            v == caAggrValueRaw(d, p)
            keys == IF kind \in {"Decomp", "HeatmapDecomp"} THEN DOMAIN v ELSE {}
        IN  [value |-> v, minreporting |-> nreporting(d, p.start, p.duration),
             transformations |-> aggHttpValueTransform(wanted.transformations, keys)]]

-----------------------------------------------------------------------------
(* Values: heatmaps.  Only now are their parameters checked. *)

Column(series, t) == [lo \in Los |-> In(Get(series, t, <<>>), lo)]
Deduct(col, cols) ==
    [lo \in Los |-> col[lo] - SumFunction([i \in DOMAIN cols |-> cols[i][lo]])]

\* The parameters of a heatmap, those in own among them, or Invalid.
caAggrHeatmapConf(query, own, isolate, nselected) ==
    LET param == [p \in {"height", "width", "nbuckets", "ymin", "ymax", "weights",
                         "coloring", "hues"} \cup own |->
                     caHttpParam(caAggrHeatmapParams, query, p)]
        nhues == nselected + IF isolate THEN 0 ELSE 1
    IN  IF \/ \E p \in DOMAIN param : param[p] = Invalid
           \/ param.ymax # Undefined /\ param.ymin >= param.ymax
           \/ /\ param.hues # Undefined
              /\ \/ nhues > Len(param.hues)
                 \/ \E h \in ToSet(param.hues) : h = NaN \/ h \notin 0..359
          THEN Invalid
        ELSE param

\* Those of an image, or Invalid.
ImageConf(query) ==
    LET param == [p \in {"selected", "isolate", "exclude", "decompose_all"} |->
                     caHttpParam(caAggrHeatmapParams, query, p)]
        conf == caAggrHeatmapConf(query, DOMAIN param, param.isolate, Len(param.selected))
    IN  IF \/ \E p \in DOMAIN param : param[p] = Invalid
           \/ conf = Invalid
           \/ Cardinality({p \in {"isolate", "exclude", "decompose_all"} : param[p]}) > 1
          THEN Invalid
        ELSE conf

caAggrHeatmapHues(nselected, isolate) ==
    LET hues == [i \in 1..(nselected + 1) |-> (21 + (i - 1) * 91) % 360]
    IN  IF isolate THEN Tail(hues) ELSE hues

\* The datasets of each period of an image, the first with the first hue.  It is
\* not drawn if there are not enough hues: an assertion fails.
HeatmapImage(d, conf, p) ==
    LET shown == IF conf.decompose_all THEN SetToSeq(keysForTime(d, p.start, p.duration))
                 ELSE conf.selected
        hues == IF conf.hues # Undefined THEN conf.hues
                ELSE caAggrHeatmapHues(Len(shown), conf.isolate)
        parts(t) == [i \in DOMAIN shown |-> Column(dataForKey(d, shown[i]), t)]
        rest(t) == Deduct(Column(total(d), t), parts(t))
        nothing == conf.isolate /\ shown = <<>>
        datasets(t) == IF nothing THEN <<Column(Empty, t)>>
                       ELSE IF conf.isolate THEN parts(t)
                       ELSE IF conf.exclude THEN <<rest(t)>>
                       ELSE <<rest(t)>> \o parts(t)
        ndatasets == IF conf.isolate THEN Len(shown)
                     ELSE IF conf.exclude THEN 1 ELSE Len(shown) + 1
    IN  [drawn |-> nothing \/ Len(hues) >= ndatasets,
         datasets |-> [t \in PeriodsOf(p.start, p.duration) |-> datasets(t)]]

\* Is a place in the image?
\* Mutant: So is the column right of it.
MInside(x, y, conf) == x <= conf.width /\ y < conf.height
Inside(x, y, conf) == x < conf.width /\ y < conf.height

\* Those of the details, or Invalid.
DetailsConf(query) ==
    LET param == [p \in {"x", "y"} |-> caHttpParam(caAggrHeatmapParams, query, p)]
        conf == caAggrHeatmapConf(query, DOMAIN param, FALSE, 0)
    IN  IF \/ Invalid \in {param.x, param.y, conf}
           \/ conf.ymax \in {Undefined, 0}
           \/ ~Inside(param.x, param.y, conf)
          THEN Invalid
        ELSE conf

samplerange(conf, p) == p.start + (conf.x * p.duration) \div conf.width

\* Rounding apart, the count of bucket lo below x, and what it is made of.
HeatmapDetails(d, conf, p, lo) ==
    LET t == ptime(samplerange(conf, p))
        present == keysForTime(d, t, p.duration)
        value == [k \in present |-> Column(dataForKey(d, k), t)[lo]]
        parts == RestrictValues(value, LAMBDA n : n # 0)
    IN  [bucket_time |-> t, present |-> parts,
         total |-> IF present = {} THEN Column(total(d), t)[lo] ELSE SumFunction(parts)]

-----------------------------------------------------------------------------
(* Properties *)

\* The requests of the instance: any interval, given in the URL or in a body;
\* values out of range; transformations and waits.
Or(S) == S \cup {Undefined}
Intervals == [start_time : Or(Times), end_time : Or(Times), ndatapoints : Or({2}),
              duration : Or(0..(LastTime - FirstTime + 2))]
Odd == [ndatapoints : {0, 1, NaN}] \cup [start_time : {-1, NaN, FirstTime}, timeout : {0, 5001}]
       \cup [transformations : {<<x>> : x \in Transforms} \cup {<<>>}]
Rq(impl, query, json) == [impl |-> impl, query |-> query, json |-> json]
RawRqs == {Rq("raw", q, Undefined) : q \in Intervals \cup Odd}
          \cup {Rq("raw", Empty, q) : q \in Odd}
\* What they ask for, for each instrumentation.
Asked == [i \in Instns |->
    {[points |-> r.points, transformations |-> r.transformations] :
        r \in {Start(rq, i, LastTime + 1) : rq \in RawRqs} \ {NotFound, Refused}}]

\* The periods that the points are about; where a source counts once, a point
\* tells of the period it starts with.
Whole(points) ==
    LET last == points[Len(points)]
    IN  IF doadd THEN PeriodsOf(points[1].start, last.start + last.duration - points[1].start)
        ELSE {p.start : p \in ToSet(points)}
Named(ts) == UNION {DOMAIN r.datum : r \in UNION {Counted(t) : t \in ts}}

\* Whatever is asked, in whatever order data arrived, expired, were saved,
\* lost and restored, the points that are answered add up to the sum of the
\* reports of the whole interval, and what is transformed are the names in
\* these reports (caAggrValueRequest: loadParameters, complete; caDataset:
\* update, expireBefore, dataForTime, stash and unstash).
RawIsTruth ==
    \A wanted \in Asked[instn] :
        LET answer == complete(ds, wanted)
            ts == Whole(wanted.points)
        IN  /\ \A k \in Keys, lo \in Los :
                   SumFunction([i \in DOMAIN answer |-> Says(answer[i].value, k, lo)])
                       = Truth(ts, k, lo)
            /\ kind \in {"Decomp", "HeatmapDecomp"} =>
                   \A x \in ToSet(wanted.transformations) \ Broken :
                       UNION {answer[i].transformations[x] : i \in DOMAIN answer} = Named(ts)

\* So it is as long as nothing is restored that is there already, and the
\* zero is zero.
Accurate == tainted \/ Spoiled \/ RawIsTruth

\* The heatmap requests of the instance.
Selections == {<<>>} \cup {<<k>> : k \in Keys} \cup {s \in Keys \X Keys : s[1] # s[2]}
Hues == {Undefined, <<0>>, <<0, 359>>, <<360>>, <<NaN>>}
ImageQueries == [selected : Selections, isolate : BOOLEAN, exclude : BOOLEAN,
                 decompose_all : BOOLEAN, hues : Hues]
Images == {ImageConf(q) : q \in ImageQueries} \ {Invalid}
Details == {DetailsConf(q) : q \in [x : {0, 5, 9, 10, Undefined}, y : {0, 300},
                                    width : {10}, ymax : {0, 1, Undefined}]} \ {Invalid}
HeatmapPoints == [i \in Instns |->
    LET r == Start(Rq("image", [start_time |-> FirstTime], Undefined), i, LastTime + 1)
    IN  IF r \in {NotFound, Refused} THEN {} ELSE ToSet(r.points)]

\* If heatmaps are listed, so are images and details; an image divides the total of each period among
\* what it shows, and takes from nothing more than there is; it is refused,
\* or drawn, unless everything is to be shown in too few hues.  The details of
\* a bucket are those of a period of the interval, and add up to what the
\* image has there (caAggrValueHeatmapImage, caAggrValueHeatmapDetails).
ImageWhole ==
    "heatmap" \in aggHttpValueList(instn) =>
    {"image", "details"} \subseteq aggHttpValueHeatmapList(instn) /\
    \A p \in HeatmapPoints[instn] :
        /\ \A conf \in Images : LET image == HeatmapImage(ds, conf, p) IN
             /\ image.drawn \/ (conf.decompose_all /\ conf.hues # Undefined)
             /\ \A t \in PeriodsOf(p.start, p.duration) : LET cols == image.datasets[t] IN
                  /\ \A i \in DOMAIN cols, lo \in Los : cols[i][lo] >= 0
                  /\ ~conf.isolate /\ ~conf.exclude => \A lo \in Los :
                         SumFunction([i \in DOMAIN cols |-> cols[i][lo]]) =
                             Column(total(ds), t)[lo]
        /\ \A conf \in Details, lo \in Los : LET at == HeatmapDetails(ds, conf, p, lo) IN
             /\ at.bucket_time \in PeriodsOf(p.start, p.duration)
             /\ at.total = Column(total(ds), at.bucket_time)[lo]

\* As many sources are said to report in a period as did, whatever was lost
\* and restored since, and in an interval as many as in its periods.
Reporters(t) == Cardinality({r.host : r \in Get(heard, t, {})})
ReportingTrue ==
    \A p \in UNION {ToSet(wanted.points) : wanted \in Asked[instn]} :
        LET ts == PeriodsOf(p.start, p.duration)
        IN  /\ maxreporting(ds, p.start, p.duration) = Max({Reporters(t) : t \in ts})
            /\ \A t \in ts : nreporting(ds, p.start, p.duration) <= Reporters(t)
=============================================================================
