------------------------------ MODULE MCStartup ------------------------------
(* Two instrumenters, of which one may have less to offer than the other or      *)
(* announce something that contradicts what is known, and one customer with two  *)
(* machines on two servers.                                                      *)
EXTENDS Startup, TLC

ops == [module |-> "fs", stat |-> "ops", label |-> "operations", unit |-> "ops"]
Plain == ops @@ [fields |-> {"optype"}]
Timed == ops @@ [fields |-> {"optype", "latency"}, interval |-> "point"]
Renamed == [Timed EXCEPT !.label = "other operations"]
Busy == [module |-> "fs", stat |-> "busy", label |-> "time", type |-> "time", fields |-> {}]

Type(n) == CASE n = "time" -> [arity |-> "numeric", unit |-> "seconds", base |-> 10, power |-> -9]
Field(n) == CASE n = "optype" -> [label |-> "operation"]
              [] n = "latency" -> [label |-> "latency", type |-> "time"]
Document(types, fields, metrics) ==
    [types |-> [n \in types |-> Type(n)], fields |-> [n \in fields |-> Field(n)],
     modules |-> [n \in {"fs"} |-> [label |-> "file systems"]], metrics |-> metrics]
Old == Document({}, {"optype"}, <<Plain>>)
Full == Document({"time"}, {"optype", "latency"}, <<Plain, Timed, Busy>>)
Conflicting == Document({"time"}, {"optype", "latency"}, <<Renamed>>)
Undescribed == Document({}, {"optype", "latency"}, <<Timed, Busy>>)
Other == Document({}, {}, <<>>)
MCDocs == {Full, Conflicting}

Restricted == caProfile(<<Plain>>)
Both == [n \in {"customer", "operator"} |-> Restricted]
Id(s, n) == <<s, n>>
Kept(decomp) == [base |-> Base(ops), decomp |-> decomp, by |-> 0, zones |-> Undefined]
OldBucket == Id("G", 1) :> Kept(<<>>) @@ Id("c", 1) :> Kept(<<>>)
NewBucket == Id("G", 2) :> Kept(<<"latency">>)
ZonedBucket == Id("c", 2) :> [Kept(<<>>) EXCEPT !.zones = <<ByHost({"v1"})>>]

Setup(old, new, docs, servers) ==
    [profiles |-> Both, legacy |-> old, buckets |-> new, doc |-> docs, registered |-> servers]
Two(d1, d2) == [h \in {"h1", "h2"} |-> IF h = "h1" THEN d1 ELSE d2]
MCSetups ==
    {Setup(OldBucket, Nothing, "h2" :> Full, {"s1"}),
     Setup(Nothing, NewBucket, Two(Other, Full), {"s1", "s2"}),
     Setup(Nothing, ZonedBucket, "h1" :> Old, {"s1"}),
     Setup(Nothing, Nothing, Two(Undescribed, Old), {"s1"}),
     Setup(Nothing, Nothing, Two(Full, Conflicting), {}),
     [Setup(OldBucket, NewBucket, "h1" :> Old, {"s1"}) EXCEPT !.profiles = [n \in {"customer"} |-> Restricted]]}

Ask(scope, decomp, profile) ==
    [scope |-> scope, base |-> Base(ops), decomp |-> decomp, profile |-> profile]
MCCreations ==
    {Ask("G", <<>>, "operator"), Ask("G", <<"latency">>, "none"), Ask("c", <<"optype">>, "operator"),
     Ask("c", <<>>, "operator") @@ [idle |-> <<0>>, granularity |-> <<7>>],
     Ask("G", <<>>, "none") @@ [enabled |-> FALSE]}

Wire(size, type, parses, version) == [size |-> size, type |-> type, parses |-> parses, version |-> version]
MCRaw == {Wire(1, "application/json", TRUE, TRUE), Wire(5, "application/json", TRUE, TRUE),
          Wire(1, "application/json", FALSE, TRUE), Wire(1, "multipart/form-data", TRUE, TRUE),
          Wire(1, "application/x-www-form-urlencoded", TRUE, FALSE)}
MCServers == [s \in {"s1", "s2"} |-> IF s = "s1" THEN "h1" ELSE "h2"]
MCVms == [v \in {"v1", "v2"} |-> IF v = "v1" THEN "s1" ELSE "s2"]
===============================================================================
