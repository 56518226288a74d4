------------------------------- MODULE MetaD -------------------------------
(***************************************************************************)
(* The generator of D programs (lib/ca/ca-metad.js).  A metric is a list   *)
(* of clauses (its `probedesc'): the probes, the variables gathered there, *)
(* the aggregation with the transforms its values are taken from, the      *)
(* variables that must have been set for it, and the ones cleared.  The    *)
(* generator drops the clauses an instrumentation does not need, replaces  *)
(* $0 by the variable gathered, and adds the predicates.                   *)
(*                                                                         *)
(* The text of D is abstracted to what it refers to: a reference is a pair *)
(* <<variable, index>>, with "$" for the variable of the field at hand and *)
(* <<>> for the index of a thread-local one.                               *)
(***************************************************************************)
EXTENDS Naturals, Sequences, SequencesExt, FiniteSets, Functions, TLC

Nothing == <<>>                    \* no key of an object

Clause(ps) == [probes |-> ps, gather |-> Nothing, always |-> Nothing,
               local |-> Nothing, agg |-> Nothing, trans |-> Nothing,
               verify |-> Nothing, clean |-> Nothing, pred |-> {}]

Desc(module, stat, fields, internal, locals, zoned, clauses) ==
    [module |-> module, stat |-> stat, fields |-> fields,
     fields_internal |-> internal, locals |-> locals,
     usepragmazone |-> zoned, probedesc |-> clauses]

(***************************************************************************)
(* mdValidateMetaD: what must be true of a description.                    *)
(***************************************************************************)

Gathered(c) == DOMAIN c.gather \cup DOMAIN c.always

mdCheckGather(gather, fields) == DOMAIN gather \subseteq fields

ClauseValid(d, c) ==
    LET all == d.fields \cup d.fields_internal IN
    /\ mdCheckGather(c.gather, all) /\ mdCheckGather(c.always, all)
    /\ DOMAIN c.local \subseteq d.locals
    /\ c.agg # Nothing =>
          /\ "default" \in DOMAIN c.agg
          /\ DOMAIN c.agg \ {"default"} \subseteq
                (d.fields \cap DOMAIN c.trans) \ d.fields_internal
    /\ (c.trans # Nothing \/ c.verify # Nothing) => c.agg # Nothing

\* The keys verified or cleared were gathered by this clause or before it.
InOrder(d) ==
    \A i \in DOMAIN d.probedesc :
        DOMAIN d.probedesc[i].verify \cup DOMAIN d.probedesc[i].clean
            \subseteq UNION {Gathered(d.probedesc[j]) : j \in 1..i}

mdValidateMetaD(d) ==
    LET cs == Range(d.probedesc)
        gathered == UNION {Gathered(c) : c \in cs}
        cleaned == UNION {DOMAIN c.clean : c \in cs}
        aggregated == UNION {DOMAIN c.agg : c \in cs}
    IN /\ cs # {} /\ \A c \in cs : c.probes # {} /\ ClauseValid(d, c)
       /\ InOrder(d)
       /\ gathered # {} => \E c \in cs : c.verify # Nothing
       /\ cleaned = gathered
       /\ aggregated # {}
       /\ d.fields \subseteq aggregated

(***************************************************************************)
(* mdGenerateDScript.  A metric m names the fields decomposed by, those of *)
(* the predicate, and the zones it is confined to (none: all of them).     *)
(***************************************************************************)

mdNeedProbe(c, fields, gathered) ==
    \/ c.agg # Nothing
    \/ DOMAIN c.clean \cap DOMAIN gathered # {}
    \/ c.always # Nothing
    \/ DOMAIN c.gather \cap fields # {}

\* A local variable of a clause in an index stands for what it was set to.
Index(c, at) == [i \in DOMAIN at |-> IF at[i] \in DOMAIN c.local
                                     THEN c.local[at[i]].is ELSE at[i]]

mdGenerateGather(c, st) == [at |-> Index(c, st.at), as |-> st.as]

\* $0 becomes the variable of the field, if there is one.
mdTransformsResolve(c, t, gathered) ==
    [f \in DOMAIN t |->
        {<<IF r[1] = "$" /\ f \in DOMAIN gathered THEN f ELSE r[1],
           Index(c, r[2])>> : r \in t[f]}]

\* What the aggregation function is, for the fields decomposed by.
Arity(numeric, f) == IF f \in numeric THEN "numeric" ELSE "discrete"

\* Looks for a discrete field first.
MmdGenerateAggregate(decomps, numeric, agg, trans) ==
    LET dists == decomps \cap numeric
        discrete == decomps \ numeric
        by == IF discrete # {} THEN CHOOSE f \in discrete : TRUE
              ELSE IF dists # {} THEN CHOOSE f \in dists : TRUE
              ELSE "default"
    IN [function |-> agg[by],
        reads |-> UNION {trans[f] : f \in decomps},
        zero |-> IF discrete # {} THEN "object"
                 ELSE IF dists # {} THEN "array" ELSE "number",
        hasdists |-> dists # {}, hasdecomps |-> discrete # {}]

mdGenerateAggregate(decomps, numeric, agg, trans) ==
    LET dists == decomps \cap numeric
        discrete == decomps \ numeric
        by == IF dists # {} THEN CHOOSE f \in dists : TRUE
              ELSE IF discrete # {} THEN CHOOSE f \in discrete : TRUE
              ELSE "default"
    IN [function |-> agg[by],
        reads |-> UNION {trans[f] : f \in decomps},
        zero |-> IF discrete # {} THEN "object"
                 ELSE IF dists # {} THEN "array" ELSE "number",
        hasdists |-> dists # {}, hasdecomps |-> discrete # {}]

Restricted(f, S) == [x \in DOMAIN f \cap S |-> f[x]]

\* Every variable gathered so far must have been set; one that the verify
\* clause leaves out is compared as `undefined'.
Verified(c, gathered, fields) ==
    LET v == mdTransformsResolve(c, c.verify, gathered) IN
    [f \in DOMAIN gathered |->
        IF f \in DOMAIN v THEN v[f] ELSE {<<"undefined", <<>>>>}]

\* One generated clause.  The predicate is a conjunction in the order
\* verify, zones, locals, pred, filter; the statements come in the order
\* sets, agg, clears.
Generated(c, m, numeric, gathered, fields) ==
    LET t == mdTransformsResolve(c, c.trans, gathered)
        clean == mdTransformsResolve(c, c.clean, gathered)
        aggs == c.agg # Nothing
    IN [probes |-> c.probes,
        verify |-> IF aggs THEN UNION Range(Verified(c, gathered, fields))
                   ELSE {},
        zones |-> IF aggs THEN m.zones ELSE {},
        locals |-> UNION {c.local[x].reads : x \in DOMAIN c.local},
        pred |-> c.pred,
        filter |-> IF aggs THEN UNION {t[f] : f \in m.predicate} ELSE {},
        filtered |-> aggs /\ m.predicate # {},
        sets |-> Restricted(gathered, DOMAIN c.always \cup
                                      (DOMAIN c.gather \cap fields)),
        aggs |-> aggs,
        agg |-> IF aggs THEN mdGenerateAggregate(m.decomps, numeric, c.agg, t)
                ELSE Nothing,
        clears |-> UNION Range(Restricted(clean, DOMAIN gathered))]

mdGenerateDScript(d, m, numeric) ==
    LET fields == m.decomps \cup m.predicate
        Add(acc, c) ==
            IF ~mdNeedProbe(c, fields, acc.gathered) THEN acc
            ELSE LET new == [f \in DOMAIN c.always \cup
                                   (DOMAIN c.gather \cap fields) |->
                                mdGenerateGather(c, IF f \in DOMAIN c.gather \cap fields
                                    THEN c.gather[f] ELSE c.always[f])]
                     g == new @@ acc.gathered
                 IN [gathered |-> g,
                     script |-> Append(acc.script,
                                       Generated(c, m, numeric, g, fields))]
    IN FoldLeft(Add, [gathered |-> Nothing, script |-> <<>>], d.probedesc)

md_pragma_maxzones == 4

\* One enabling for every zone, if the zones are few and the metric allows it,
\* else one for all of them ({}: no pragma).
Scripts(d, m) ==
    IF d.usepragmazone /\ m.zones # {}
       /\ Cardinality(m.zones) < md_pragma_maxzones
    THEN {{z} : z \in m.zones} ELSE {{}}
=============================================================================
