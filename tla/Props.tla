------------------------------- MODULE Props -------------------------------
(***************************************************************************)
(* How the configuration service validates the properties of an            *)
(* instrumentation (lib/ca/ca-svc-config.js), but for the predicate, which *)
(* is the subject of Pred.                                                 *)
(***************************************************************************)
EXTENDS Integers, Sequences, Objects

\* The fields of the metric come with their arities.  There may be one discrete
\* and one numeric decomposition.
Numeric(arities, decomp) ==
    SelectSeq(decomp, LAMBDA f : arities[f] = "numeric")
Discrete(arities, decomp) ==
    SelectSeq(decomp, LAMBDA f : arities[f] # "numeric")
\* Mutant: Only numeric decompositions are counted.
MValidDecomposition(arities, decomp) == Len(Numeric(arities, decomp)) <= 1
ValidDecomposition(arities, decomp) ==
    /\ Len(Discrete(arities, decomp)) <= 1
    /\ Len(Numeric(arities, decomp)) <= 1
caInstArity(arities, decomp) ==
    [dimension |-> Len(decomp) + 1,
     arity |-> CASE decomp = <<>> -> "scalar"
                 [] Numeric(arities, decomp) # <<>> -> "numeric"
                 [] OTHER -> "discrete"]

\* What instnValidateProps asks of the decomposition.
ValidFields(arities, decomp) ==
    /\ {decomp[i] : i \in DOMAIN decomp} \subseteq DOMAIN arities
    /\ ValidDecomposition(arities, decomp)

-----------------------------------------------------------------------------
(* The other properties.  One that is not given is absent; a number is the *)
(* sequence of what could be parsed, <<>> for NaN.                         *)

cfg_retain_min == 10
cfg_datapoints_max == 3600
cfg_idle_max_max == 60 * 60 * 24 * 7
ca_granularity_min == 5

Given(props, key) == key \in DOMAIN props
Default == [enabled |-> TRUE, granularity |-> <<1>>, retention |-> <<600>>, idle |-> <<3600>>, persist |-> FALSE]
Between(n, low, high) == n # <<>> /\ low <= n[1] /\ n[1] <= high

ValidGranularity(g) == g # <<>> /\ g[1] >= 1 /\ (g[1] = 1 \/ g[1] % ca_granularity_min = 0)

\* The maximum depends on the granularity given in the same request.
ValidRetention(props) ==
    /\ props.retention # <<>>
    /\ props.retention[1] >= cfg_retain_min
    /\ Given(props, "granularity") /\ props.granularity # <<>> =>
           props.retention[1] <= cfg_datapoints_max * props.granularity[1]

caInstValidateMutableFields(props, privileged) ==
    /\ Given(props, "enabled") => props.enabled = TRUE
    /\ Given(props, "retention") => ValidRetention(props)
    /\ Given(props, "idle") => Between(props.idle, IF privileged THEN 0 ELSE 1, cfg_idle_max_max)
    /\ Given(props, "persist") => props.persist \in BOOLEAN

\* instnValidateProps: what is left of a request, with what is not given filled in.
Filled(props) == Merged(props, Default)
instnValidateProps(arities, props, privileged) ==
    /\ ValidFields(arities, props.decomp)
    /\ ValidGranularity(Filled(props).granularity)
    /\ caInstValidateMutableFields(Filled(props), privileged)
=============================================================================
