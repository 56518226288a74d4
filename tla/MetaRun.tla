------------------------------ MODULE MetaRun ------------------------------
(***************************************************************************)
(* The generated D programs at work.  The operations a metric observes     *)
(* begin and end on threads of several zones; a program is enabled at any  *)
(* moment, also while operations are in progress, and may be enabled anew  *)
(* after DTrace has given it up (cmd/cainst/modules/dtrace.js).  A probe   *)
(* runs the clauses it is in, in their order, in every enabling.           *)
(*                                                                         *)
(* DTrace and the programs observed are external: a thread is in one       *)
(* operation at a time, except for the metrics whose operations nest, and  *)
(* the operations of a metric that indexes its variables are told apart by *)
(* their argument within a process.                                        *)
(***************************************************************************)
EXTENDS MetaDescs, FiniteSetsExt

CONSTANTS Threads, ZoneOf,  \* the threads and the zones they run in
          Programs,         \* the names and metrics to run
          MaxOps,           \* operations observed
          Args,             \* their arguments
          Second            \* the file system calls that may come second

VARIABLES prog,             \* the program, fixed
          on,               \* is it enabled
          live,             \* operations in progress
          started,          \* how many have begun
          vars,             \* the D variables that are set
          last              \* the operation that ended last, if any

runvars == <<prog, on, live, started, vars, last>>

Name(d) == <<d.module, d.stat>>
Named == [n \in {Name(d) : d \in Descs} |-> CHOOSE d \in Descs : Name(d) = n]

Generate == [p \in Programs |->
    mdGenerateDScript(Named[p.name], p.m, Numeric).script]

desc == Named[prog.name]
metric == prog.m
script == Generate[prog]
enablings == Scripts(desc, metric)

Indexed(d) == \E c \in Range(d.probedesc) : \E s \in Range(c.gather) : s.at # <<>>
Kernel(d) == d.module = "disk"

Names(d, point) == {p[1] : p \in {q \in UNION {c.probes : c \in Range(d.probedesc)} :
                                     q[2] = point}}

\* File system calls nest, and the execution of a query is part of it.
MayNest(d, name, outer) ==
    \/ d.module = "fs" /\ ~outer.nested
    \/ d.module = "mysql" /\ d.stat = "queries" /\ name = "query-exec"
       /\ outer.name = "query"
MayStart(d, name, above) == above = {} \/ \E o \in above : MayNest(d, name, o)

----------------------------------------------------------------------------
(* D *)

Key(o, at) == [thread |-> IF at = <<>> \/ "pid" \in Range(at) THEN o.thread
                          ELSE "any",
               at |-> at, arg |-> IF at = <<>> THEN 0 ELSE o.arg]

Holding(vs, o, ref) == {v \in vs : v.name = ref[1] /\ v.key = Key(o, ref[2])}

\* The conditions of the predicates of the descriptions.
Holds(cond, vs, o, point) ==
    LET depth == UNION {v.value : v \in Holding(vs, o, <<"depth", <<>>>>)}
        parsed == UNION {v.value : v \in Holding(vs, o, <<"parsed", <<>>>>)}
        vnode == Holding(vs, o, <<"vnode", <<>>>>)
    IN CASE cond = "fits" -> o.fits
         [] cond = "vnode unset" -> vnode = {}
         [] cond = "vnode set" -> vnode # {}
         [] cond = "at depth" -> (IF o.nested THEN "inner" ELSE "outer") \in depth
         [] cond = "begun" -> "begun" \in parsed
         [] cond = "not begun" -> "begun" \notin parsed
         [] cond = "not begun, or query-done" ->
                "begun" \notin parsed \/ o.name = "query"

\* Does not ask for the zone.
MPasses(c, vs, o, point) ==
    /\ \A r \in c.verify : Holding(vs, o, r) # {}
    /\ \A p \in c.pred : Holds(p, vs, o, point)
    /\ c.filtered => o.fits

Passes(c, vs, o, point) ==
    /\ \A r \in c.verify : Holding(vs, o, r) # {}
    /\ c.zones # {} => o.zone \in c.zones
    /\ \A p \in c.pred : Holds(p, vs, o, point)
    /\ c.filtered => o.fits

Set(vs, o, c) ==
    LET keep == {v \in vs : \A f \in DOMAIN c.sets :
                    v \notin Holding(vs, o, <<f, c.sets[f].at>>)}
        old(f) == UNION {v.value : v \in Holding(vs, o, <<f, c.sets[f].at>>)}
        new(f) == CASE c.sets[f].as = "depth" ->
                           {IF o.nested THEN "inner" ELSE "outer"}
                    [] c.sets[f].as = "executed" -> old(f) \cup {"executed"}
                    [] OTHER -> {c.sets[f].as}
    IN keep \cup {[name |-> f, key |-> Key(o, c.sets[f].at), value |-> new(f),
                   by |-> o.id] : f \in DOMAIN c.sets}

Clear(vs, o, c) == {v \in vs : \A r \in c.clears : v \notin Holding(vs, o, r)}

\* A clause, with the variables and, for each time the enabling aggregated, the
\* operations whose values went into that.
Run(c, o, point, S) ==
    IF <<o.name, point>> \notin c.probes \/ ~Passes(c, S.vars, o, point)
    THEN S
    ELSE LET set == Set(S.vars, o, c) IN
         [vars |-> Clear(set, o, c),
          hits |-> IF ~c.aggs THEN S.hits
                   ELSE Append(S.hits, {v.by : v \in UNION
                        {Holding(set, o, r) : r \in c.agg.reads}})]

\* One enabling.
Enabling(vs, o, point) ==
    LET upto[i \in 0..Len(script)] == IF i = 0 THEN [vars |-> vs, hits |-> <<>>]
                                      ELSE Run(script[i], o, point, upto[i - 1])
    IN upto[Len(script)]

\* All of them, each with what has become of its variables and what it counted.
Fired(o, point) ==
    {[in |-> z, of |-> IF on /\ (z = {} \/ o.zone \in z) THEN Enabling(vars[z], o, point)
                       ELSE [vars |-> vars[z], hits |-> <<>>]] : z \in enablings}

VarsOf(f) == [z \in enablings |-> UNION {x.of.vars : x \in {y \in f : y.in = z}}]
HitsOf(f) == UNION {{<<x.in, i, x.of.hits[i]>> : i \in DOMAIN x.of.hits} : x \in f}

----------------------------------------------------------------------------
Unset == [z \in enablings |-> {}]

Init ==
    /\ prog \in Programs
    /\ on = FALSE /\ live = {} /\ started = 0 /\ last = {}
    /\ vars = Unset

\* Goes on with the consumer there was.
Minstrument ==
    /\ on' = TRUE /\ live' = {[o EXCEPT !.seen = FALSE] : o \in live}
    /\ last' = {} /\ UNCHANGED <<prog, started, vars>>

\* insDTraceMetric.instrument, and once more from value().
instrument ==
    /\ on' = TRUE /\ vars' = Unset
    /\ live' = {[o EXCEPT !.seen = FALSE] : o \in live} /\ last' = {}
    /\ UNCHANGED <<prog, started>>

Enable == ~on /\ instrument
Reenable == on /\ started = MaxOps /\ live # {} /\ instrument

Op(t, name, fits, arg, nested) ==
    [id |-> started + 1, thread |-> t, name |-> name, zone |-> ZoneOf[t], fits |-> fits,
     arg |-> arg, nested |-> nested, seen |-> on]

\* Is there a condition on operations in the program at all.
MaySelect(d, m) == m.predicate # {} \/ \E c \in Range(d.probedesc) : "fits" \in c.pred
Selective == MaySelect(desc, metric)

Begin(t, name, fits, arg) ==
    LET above == {o \in live : o.thread = t}
        o == Op(t, name, fits, arg, ~Indexed(desc) /\ above # {})
        f == Fired(o, "start")
        last0 == IF Names(desc, "done") = {}
                 THEN {[op |-> o, hits |-> HitsOf(f), part |-> FALSE]} ELSE {}
    IN /\ started < MaxOps /\ started' = started + 1
       /\ fits \/ Selective
       /\ IF Indexed(desc)
          THEN \A x \in live : x.arg = arg => ~Kernel(desc) /\ x.thread # t
          ELSE arg = CHOOSE a \in Args : TRUE
       /\ Indexed(desc) \/ MayStart(desc, name, above)
       /\ desc.module = "fs" /\ started > 0 => name \in Second
       /\ vars' = VarsOf(f) /\ last' = last0
       /\ live' = IF last0 = {} THEN live \cup {o} ELSE live
       /\ UNCHANGED <<prog, on>>

\* Is it part of an operation that is observed itself.
Within(o) == o.nested /\ \E x \in live : x.thread = o.thread /\ ~x.nested /\ x.seen

Finish(o) ==
    LET f == Fired(o, "done") IN
    /\ o.nested \/ ~\E x \in live : x.thread = o.thread /\ x.nested
    /\ live' = live \ {o} /\ vars' = VarsOf(f)
    /\ last' = {[op |-> o, hits |-> HitsOf(f), part |-> Within(o)]}
    /\ UNCHANGED <<prog, on, started>>

Event(t, name, fits) ==
    LET o == Op(t, name, fits, CHOOSE a \in Args : TRUE, FALSE)
        f == Fired(o, "fires")
    IN /\ started < MaxOps /\ started' = started + 1
       /\ fits \/ Selective
       /\ vars' = VarsOf(f) /\ last' = {[op |-> o, hits |-> HitsOf(f), part |-> FALSE]}
       /\ UNCHANGED <<prog, on, live>>

Next ==
    \/ Enable \/ Reenable
    \/ \E t \in Threads, fits \in BOOLEAN :
          \/ \E name \in Names(desc, "start"), arg \in Args :
                Begin(t, name, fits, arg)
          \/ \E name \in Names(desc, "fires") : Event(t, name, fits)
    \/ \E o \in live : Finish(o)

Spec == Init /\ [][Next]_runvars

----------------------------------------------------------------------------
(* Properties *)

Plainly == [decomps |-> {}, predicate |-> {}, zones |-> {}]
Metrics(d) == [decomps : {D \in SUBSET d.fields : Cardinality(D) <= 2},
               predicate : {{}} \cup {{f} : f \in d.fields}, zones : {{}}]

\* The variables the conditions of a predicate read.
CondReads(p) == CASE p \in {"vnode set", "vnode unset"} -> {<<"vnode", <<>>>>}
                  [] p = "at depth" -> {<<"depth", <<>>>>}
                  [] p = "fits" -> {}
                  [] OTHER -> {<<"parsed", <<>>>>}

Sound(d, m) ==
    LET s == mdGenerateDScript(d, m, Numeric).script
        reads(c) == c.verify \cup c.locals \cup c.filter \cup c.clears
                    \cup UNION {CondReads(p) : p \in c.pred}
                    \cup IF c.aggs THEN c.agg.reads ELSE {}
    IN /\ \A i \in DOMAIN s : \A r \in reads(s[i]) :
              \E j \in DOMAIN s : /\ j <= i \/ s[i].clears # {}
                                  /\ r[1] \in DOMAIN s[j].sets
                                  /\ r[2] = s[j].sets[r[1]].at
       /\ \A i \in DOMAIN s : s[i].aggs =>
              /\ (s[i].locals \cup s[i].filter \cup s[i].agg.reads)
                     \cap (d.fields_internal \X {<<>>}) \subseteq s[i].verify
              /\ s[i].agg.hasdists <=> s[i].agg.function = "quantize"
       /\ \A i \in DOMAIN s : \A f \in DOMAIN s[i].sets :
              \E j \in DOMAIN s : <<f, s[i].sets[f].at>> \in s[j].clears

\* Whatever a metric is decomposed and filtered by, the program generated for
\* it refers only to variables it gathers, under the index they are gathered
\* with; a pointer is followed only after it was compared with NULL; the
\* aggregation is a distribution exactly if the value is to be one; and each
\* variable has a clause that clears it.  The descriptions pass validation.
ScriptsSound ==
    ~on /\ started = 0 /\ metric = Plainly =>
        /\ mdValidateMetaD(desc)
        /\ \A m \in Metrics(desc) : Sound(desc, m)

Gathers == \E i \in DOMAIN script : script[i].sets # Nothing

\* Is it an open under fs.logical_ops, or inside one.  The clause that should clear the
\* variables of an open when it returns does so when it begins: none is counted, and what
\* is inside it is.
Opening(o) ==
    /\ Name(desc) = <<"fs", "logical_ops">>
    /\ \/ o.name = "fop_open"
       \/ /\ o.nested
          /\ \E x \in live : x.thread = o.thread /\ ~x.nested /\ x.name = "fop_open"

\* An operation is counted once, in one enabling, if it ran in a zone and met
\* the conditions asked for and, when variables are gathered, the program was
\* enabled before it began; otherwise it is not counted.  An operation inside
\* another one that is observed is part of it.  No value goes into the count that was saved by
\* another operation than itself or one inside it, however the programs are
\* enabled anew and the operations of the threads overlap.  Of an open under
\* fs.logical_ops, and what is inside it, it is left open whether it is counted: the
\* program counts no open, against the documentation.
CountedOnce ==
    \A e \in last :
        LET o == e.op
            meets == /\ on /\ o.fits
                     /\ metric.zones = {} \/ o.zone \in metric.zones
                     /\ Gathers => o.seen
        IN /\ Cardinality(e.hits) <= IF meets THEN 1 ELSE 0
           /\ Opening(o) \/ Cardinality(e.hits) = IF meets /\ ~e.part THEN 1 ELSE 0
           /\ \A h \in e.hits : \A by \in h[3] : by >= o.id

\* When no operation is in progress that began under the program, it holds no
\* variable: none is left to be taken for a later operation's, and the space
\* DTrace has for them does not fill up.
NothingLeft ==
    (~\E o \in live : o.seen) => \A z \in enablings : vars[z] = {}

----------------------------------------------------------------------------
(* Programs whose operations do not nest.  What such a program must be for  *)
(* the last two properties to hold, whatever is observed, can be read off   *)
(* its clauses; MCMetaRun finds that all of them are of this kind.          *)

Nests(d) == d.module = "fs" \/ (d.module = "mysql" /\ d.stat = "queries")

Only(c, point) == \A q \in c.probes : q[2] = point
Gathering(c) == DOMAIN c.sets # {}
Refs(c) == {<<f, c.sets[f].at>> : f \in DOMAIN c.sets}

\* A clause gathers when an operation begins, or counts, or clears when it ends,
\* on no condition but "fits".
ClauseRegular(c, m) ==
    /\ c.sets = [f \in DOMAIN c.sets |-> [at |-> c.sets[f].at, as |-> c.sets[f].as]]
    /\ c.aggs \in BOOLEAN /\ c.filtered \in BOOLEAN /\ c.pred \subseteq {"fits"}
    /\ Gathering(c) => ~c.aggs /\ c.clears = {} /\ Only(c, "start")
    /\ c.clears # {} => ~c.aggs /\ Only(c, "done")
    /\ IF c.aggs THEN c.zones = m.zones ELSE c.verify = {} /\ c.zones = {} /\ ~c.filtered

\* The index of a variable tells the operations apart that may be in progress together.
Distinct(d, at) == IF Indexed(d) THEN at # <<>> /\ ("pid" \in Range(at) \/ Kernel(d))
                   ELSE at = <<>>

\* What is gathered when an operation begins is cleared when it ends, on no further condition.
ClearedIn(s, c) ==
    \A q \in c.probes, r \in Refs(c) : \E j \in DOMAIN s :
        <<q[1], "done">> \in s[j].probes /\ r \in s[j].clears /\ s[j].pred \subseteq c.pred

\* What a clause that counts reads has been gathered when the operation began, on no
\* further condition, and is not cleared before; where anything is gathered it asks for some
\* of it; and it looks at the conditions there are.
CountsIn(s, i, d, m) ==
    LET c == s[i] IN
    /\ \A q \in c.probes :
        /\ q[2] = "done" \/ c.verify \cup c.agg.reads = {}
        /\ \A r \in c.verify \cup c.agg.reads : \E j \in DOMAIN s :
               <<q[1], "start">> \in s[j].probes /\ r \in Refs(s[j]) /\ s[j].pred \subseteq c.pred
        /\ q[2] = "done" => \A j \in DOMAIN s :
               <<q[1], "done">> \in s[j].probes /\ s[j].clears # {} => i < j
        /\ q[2] = "done" /\ (\E j \in DOMAIN s : Gathering(s[j])) => c.verify # {}
    /\ "fits" \in c.pred \/ c.filtered \/ ~MaySelect(d, m)

CountsAt(s, i, name, point) == s[i].aggs /\ <<name, point>> \in s[i].probes
OneAt(s, name, point) ==
    \E i \in DOMAIN s : \A j \in DOMAIN s : CountsAt(s, j, name, point) <=> j = i
NoneAt(s, name, point) == \A j \in DOMAIN s : ~CountsAt(s, j, name, point)

Regular(d, m, s) ==
    /\ ~Nests(d)
    /\ s \in Seq({s[i] : i \in DOMAIN s})
    /\ \A i \in DOMAIN s :
        /\ ClauseRegular(s[i], m) /\ ClearedIn(s, s[i])
        /\ s[i].aggs => CountsIn(s, i, d, m)
        /\ \A f \in DOMAIN s[i].sets : Distinct(d, s[i].sets[f].at)
    /\ \A name \in Names(d, "start") :
        IF Names(d, "done") = {} THEN OneAt(s, name, "start") /\ \A i \in DOMAIN s : ~Gathering(s[i])
        ELSE NoneAt(s, name, "start") /\ OneAt(s, name, "done")
    /\ \A name \in Names(d, "fires") : OneAt(s, name, "fires")
=============================================================================
