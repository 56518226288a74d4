----------------------------- MODULE MCMetaRun -----------------------------
EXTENDS MetaRun

CONSTANTS t1, t2, z1, z2

ZoneOfThread == t1 :> z1 @@ t2 :> z2

\* The descriptions whose clearing clauses are on other probes.
Leaky == {mantaop_tasks_executed, mantaop_zone_resets}

\* Each description without a decomposition, decomposed by a gathered numeric
\* field, and filtered by it; in all zones, one and two of them.
Latency(d) == {{}} \cup {{f} : f \in {"latency"} \cap d.fields}
Metric(D, P, Z) == [decomps |-> D, predicate |-> P, zones |-> Z]
Asked(d) ==
    {Metric(D, {}, Z) : D \in Latency(d), Z \in {{}, {z1}, {z1, z2}}}
    \cup {Metric({}, P, Z) : P \in Latency(d), Z \in {{}, {z1}}}
ProgramsOf(ds) == UNION {{[name |-> Name(d), m |-> m] : m \in Asked(d)} : d \in ds}
Sane == ProgramsOf(Descs \ Leaky)

\* Where the source asks for nothing that was gathered ("1"), because an origin may be empty,
\* and nothing else is gathered.
Unverified(d, m) ==
    /\ d = node_httpd_ops /\ "http_origin" \in m.decomps \cup m.predicate
    /\ {"http_method", "http_url", "http_path", "latency"} \cap (m.decomps \cup m.predicate) = {}

\* All others whose operations do not nest give regular programs, however they are
\* decomposed, filtered and confined to zones.
ASSUME RegularAssumption ==
    \A d \in {x \in Descs \ Leaky : ~Nests(x)} :
        \A m \in {x \in Metrics(d) : ~Unverified(d, x)}, Z \in {{}, {z1, z2}} :
            LET asked == [m EXCEPT !.zones = Z]
            IN  Regular(d, asked, mdGenerateDScript(d, asked, Numeric).script)
=============================================================================
