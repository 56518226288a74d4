------------------------------- MODULE Metrics -------------------------------
(***************************************************************************)
(* What is known of metrics (lib/ca/ca-metric.js): metric sets, which say  *)
(* which metrics there are and who has them, and the metadata, which say   *)
(* how they are called and of which types they are.                        *)
(*                                                                         *)
(* A base metric is a pair of a module and a stat.  A property that a      *)
(* description does not have is absent from the domain of its record.      *)
(***************************************************************************)
EXTENDS Integers, Sequences, FiniteSets, Objects
CONSTANT IllegalNames       \* names that are not made of word characters

-----------------------------------------------------------------------------
(* caMetricSet: "all" never shrinks; "byhost" is what each host has now.   *)

NoMetrics == [all |-> Nothing, byhost |-> Nothing]

\* The metrics of a set, by base metric, with their fields.
addMetric(metrics, base, fields) ==
    Updated(metrics, base, fields \cup IF Has(metrics, base) THEN metrics[base] ELSE {})
Base(x) == <<x.module, x.stat>>
With(metrics, xs) ==
    LET upto[i \in 0..Len(xs)] == IF i = 0 THEN metrics
                                  ELSE addMetric(upto[i - 1], Base(xs[i]), xs[i].fields)
    IN  upto[Len(xs)]

addFromHost(set, xs, host) ==
    [all |-> With(set.all, xs), byhost |-> Updated(set.byhost, host, With(Nothing, xs))]

supports(set, base, fields, host) ==
    /\ Has(set.byhost, host)
    /\ base \in DOMAIN set.byhost[host]
    /\ fields \subseteq set.byhost[host][base]

intersection(left, right) ==
    [base \in DOMAIN left \cap DOMAIN right |-> left[base] \cap right[base]]

-----------------------------------------------------------------------------
(* caMetricMetadata.  What one host announces is added to what is known;   *)
(* "ok" says that there is no problem with it so far.                      *)

NoMetadata == [types |-> Single("string", [arity |-> "discrete", unit |-> ""]),
               fields |-> Nothing, modules |-> Nothing, metrics |-> Nothing, ok |-> TRUE]

\* Something is inserted unless there is something else of that name.
insert(known, new) == Merged(known, new)
Conflicts(known, new) == \E n \in DOMAIN known \cap DOMAIN new : known[n] # new[n]
Having(group, key) == [n \in {x \in DOMAIN group : Has(group[x], key)} |-> group[n]]
Legal(group) == DOMAIN group \cap IllegalNames = {}

addTypes(md, group) ==
    LET found == Having(group, "arity")
        new == [n \in DOMAIN found |-> Merged(found[n], [unit |-> ""])]
        Sound(t) == /\ t.arity \in {"numeric", "discrete"}
                    /\ Has(t, "base") => t.base \in {2, 10} /\ Has(t, "unit")
                    /\ Has(t, "power") => Has(t, "base")
    IN  [md EXCEPT !.types = insert(@, new),
                   !.ok = /\ @ /\ found = group /\ Legal(group)
                          /\ \A n \in DOMAIN found : Sound(found[n])
                          /\ ~Conflicts(md.types, new)]

addFields(md, group) ==
    LET Sound(f) == Has(f, "label") /\ (Has(f, "type") => Has(md.types, f.type))
    IN  [md EXCEPT !.fields = insert(@, group),
                   !.ok = /\ @ /\ Legal(group)
                          /\ \A n \in DOMAIN group : Sound(group[n])
                          /\ ~Conflicts(md.fields, group)]

addModules(md, group) ==
    LET found == Having(group, "label")
    IN  [md EXCEPT !.modules = insert(@, found),
                   !.ok = @ /\ found = group /\ Legal(group) /\ ~Conflicts(md.modules, found)]

\* A property that may be absent (undefined).
Opt(obj, key) == IF Has(obj, key) THEN <<obj[key]>> ELSE <<>>
\* The fields of a metric that is known already are merged, unless it is called
\* otherwise or measures something else.
Merge(old, new) == [old EXCEPT !.fields = @ \cup new.fields]
Same(old, new) == \A key \in {"label", "type", "unit"} : Opt(old, key) = Opt(new, key)
\* A metric of which a better instrumenter says that it is a point in time.
Upgrade(old, new) == IF old.interval = "interval" THEN [old EXCEPT !.interval = new.interval] ELSE old

\* A metric is given in a unit, or is of a type that is known.
Measurable(md, x) ==
    /\ Has(x, "unit") \/ Has(x, "type")
    /\ Has(x, "type") => Has(md.types, x.type)
SoundMetric(md, x) ==
    /\ x.stat \notin IllegalNames
    /\ Measurable(md, x)
    /\ Has(md.modules, x.module)
    /\ x.fields \subseteq DOMAIN md.fields

caAddMetric(md, x) ==
    LET new == Merged(x, [interval |-> "interval"])
        key == Base(x)
        sound == SoundMetric(md, x) /\ new.interval \in {"interval", "point"}
        old == Upgrade(md.metrics[key], new)
    IN  IF ~({"module", "stat", "label", "fields"} \subseteq DOMAIN x)
        THEN [md EXCEPT !.ok = FALSE]
        ELSE IF ~Has(md.metrics, key)
        THEN [md EXCEPT !.metrics = Updated(@, key, new), !.ok = @ /\ sound]
        ELSE IF ~Same(old, new) THEN [md EXCEPT !.metrics[key] = old, !.ok = FALSE]
        ELSE [md EXCEPT !.metrics[key] = Merge(old, new), !.ok = @ /\ sound]

addMetrics(md, xs) ==
    LET upto[i \in 0..Len(xs)] == IF i = 0 THEN md ELSE caAddMetric(upto[i - 1], xs[i])
    IN  upto[Len(xs)]

\* The groups one after the other, each of which has to be there.  Problems are
\* reported together, and what caused them stays.
addMetadata(md, doc) ==
    LET Grouped(m, key, added) == IF Has(doc, key) THEN added ELSE [m EXCEPT !.ok = FALSE]
        typed == Grouped(md, "types", addTypes(md, doc.types))
        fielded == Grouped(typed, "fields", addFields(typed, doc.fields))
        moduled == Grouped(fielded, "modules", addModules(fielded, doc.modules))
    IN  Grouped(moduled, "metrics", addMetrics(moduled, doc.metrics))

fieldType(md, f) == IF Has(md.fields[f], "type") THEN md.fields[f].type ELSE "string"
fieldArity(md, f) == md.types[fieldType(md, f)].arity

-----------------------------------------------------------------------------
(* caMetricHttpSerialize, which GET /ca answers with, looks up the module, *)
(* the unit and the fields of each metric, and all types.  Instrumenters   *)
(* announce what it makes of their own metrics.                            *)

\* What GET /ca/metrics looks up.
Labelled(metrics, md) ==
    \A base \in DOMAIN metrics :
        /\ Has(md.metrics, base) /\ Has(md.modules, base[1])
        /\ \A f \in metrics[base] : Has(md.fields, f) /\ Has(md.types, fieldType(md, f))
Describable(metrics, md) ==
    /\ Labelled(metrics, md)
    /\ \A base \in DOMAIN metrics : Measurable(md, md.metrics[base])

\* It describes the fields of all metrics it lists.
SelfDescribed(doc) ==
    /\ Has(doc, "metrics") =>
           doc.metrics \in Seq({doc.metrics[i] : i \in DOMAIN doc.metrics})
    /\ {"fields", "metrics"} \subseteq DOMAIN doc =>
           \A i \in DOMAIN doc.metrics :
               Has(doc.metrics[i], "fields") =>
                   doc.metrics[i].fields \subseteq DOMAIN doc.fields

-----------------------------------------------------------------------------
(* caProfileManager: named sets of metrics (lib/ca/ca-profile.js).  Their  *)
(* validation finds problems that nobody looks at.                         *)
caProfile(xs) == With(Nothing, xs)
=============================================================================
