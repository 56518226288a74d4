------------------------------ MODULE MCValues ------------------------------
EXTENDS Values

K(family, module, class, name, instance, zonename) ==
    [family |-> family, module |-> module, class |-> class, name |-> name,
     instance |-> instance, zonename |-> zonename, host |-> "host",
     nic |-> name \in {"e1000g0", "net0"}]

\* At most two of each that a metric is computed from, and one that is left out.
SomeKstats ==
    [cpu0 |-> K("sys", "cpu", "misc", "sys", "0", ""),
     cpu1 |-> K("sys", "cpu", "misc", "sys", "1", ""),
     cpu_vm |-> K("sys", "cpu", "misc", "vm", "0", ""),
     zones1 |-> K("zones", "zones", "zone_misc", "z1", "1", "z1"),
     zones2 |-> K("zones", "zones", "zone_misc", "z2", "2", "z2"),
     e1000g0 |-> K("link", "link", "net", "e1000g0", "0", "global"),
     z1_net0 |-> K("link", "link", "net", "z1_net0", "1", "z1"),
     sd0 |-> K("disk", "sd", "disk", "sd0", "0", ""),
     cmdk1 |-> K("disk", "cmdk", "disk", "cmdk1", "1", ""),
     ramdisk |-> K("disk", "ramdisk", "disk", "ramdisk2", "2", ""),
     tcp |-> K("tcp", "tcp", "mib2", "tcp", "0", ""),
     vfs1 |-> K("vfs", "zone_vfs", "zone_vfs", "z1", "1", "z1"),
     vfs2 |-> K("vfs", "zone_vfs", "zone_vfs", "z2", "2", "z2"),
     memory1 |-> K("memory", "memory_cap", "zone_memory_cap", "z1", "1", "z1"),
     memory2 |-> K("memory", "memory_cap", "zone_memory_cap", "z2", "2", "z2"),
     vcpu |-> K("kvm", "kvm", "misc", "vcpu-0", "1", "z1"),
     kvm |-> K("kvm", "kvm", "misc", "vm", "1", "z1"),
     arc |-> K("arc", "zfs", "misc", "arcstats", "0", "")]

ZfsTree == [zones |-> "none"] @@ ("zones/z1" :> "zones") @@ ("zones/z2" :> "zones")
Proc(zone, pid, nlwp) ==
    [execname |-> "node", zonename |-> zone, ppid |-> "1", pid |-> pid, contract |-> "c",
     psargs |-> "node", pmodel |-> "32-bit", pages |-> 0, nlwp |-> nlwp]
Processes == ("7" :> Proc("z1", "7", 9)) @@ ("8" :> Proc("z2", "8", 12))

\* Of a metric: one discrete field with a value it may have, one numeric one.
Value1 == [zonename |-> "z1", cpu |-> "0", nic |-> "e1000g0", disk |-> "sd0", tcpstack |-> "0",
           vcpuid |-> "vcpu-0", hostname |-> "host", zdataset |-> "zones/z1", zpool |-> "zones",
           cametric |-> "a", cabackend |-> "a", cainstnid |-> "a"]
Of1(impl, arity) == {f \in DOMAIN arities(impl) : arities(impl)[f] = arity}
Named(impl) == LET fs == Of1(impl, "discrete") \cap (DOMAIN Value1 \ {"hostname"})
               IN  IF fs = {} THEN "hostname" ELSE CHOOSE f \in fs : TRUE

AnyOf(S) == IF S = {} THEN {} ELSE {CHOOSE x \in S : TRUE}
Str(s) == <<"string", s>>
Num(n) == <<"number", n>>
Preds(impl) ==
    LET d == Named(impl)
        eq == Rel("eq", d, Str(Value1[d]))
    IN  {Trivial, eq, Malformed, Rel("eq", "nonesuch", Str("x")), Rel("eq", d, Num(1)),
         Rel("lt", d, Str("x")), And(<<eq, Trivial>>), And(<<eq>>)}
        \cup UNION {{Or(<<Rel("gt", n, Num(3)), And(<<Rel("ne", d, Str(Value1[d])),
                                                      Rel("le", n, Num(1100))>>)>>),
                     Rel("ge", n, Str("x"))} :
                    n \in AnyOf(Of1(impl, "numeric"))}
Decomps(impl) ==
    LET d == Named(impl)
    IN  {<<>>} \cup {<<f>> : f \in DOMAIN arities(impl) \ {"hostname"}}
        \cup {<<f, d>> : f \in AnyOf(Of1(impl, "numeric")) \cup AnyOf(Of1(impl, "discrete") \ {d})}
        \cup {<<"nonesuch">>}

\* Metrics that are computed alike are asked for with the same predicates once,
\* and of particular zones once of those customers see.
Sampled == {"cpus", "rss_limit", "loadavg1", "errors", "vnic_packets",
            "dataset_quota", "pool_free", "processes", "instr_ticks", "instr_beops"}
CustomerStats == {"vnic_packets", "logical_rwops", "rss_limit", 
                  "dataset_unused_quota", "dataset_used", "processes"}

\* Every decomposition with the plain predicate, and every predicate with no
\* decomposition; of particular zones, fewer.
Ask(impl, decomp, pred, zones, fake) ==
    [module |-> impl.module, stat |-> impl.stat, decomp |-> decomp, pred |-> pred,
     zones |-> zones, fake |-> fake]
AskedOf(impl, fake) ==
    {Ask(impl, d, Trivial, AllZones, fake) : d \in Decomps(impl)}
    \cup {Ask(impl, <<>>, p, AllZones, fake) :
            p \in (IF impl.stat \in Sampled THEN Preds(impl) ELSE {Trivial})}
OfZones(impl) ==
    {Ask(impl, <<>>, Trivial, zs, FALSE) : zs \in {{"z1"}, {}}}
    \cup {Ask(impl, <<f>>, p, {"z1"}, FALSE) :
            f \in AnyOf(Of1(impl, "discrete") \ {"hostname"}), p \in {x \in Preds(impl) : x.key \in {"none", "eq", "or"}}}
Real == Registered \ {ArcOps}
AllRequests ==
    UNION {AskedOf(impl, FALSE) : impl \in Real}
    \cup UNION {OfZones(impl) : impl \in {x \in Real : x.stat \in CustomerStats}}
    \cup UNION {AskedOf(impl, TRUE) : impl \in {x \in Real : x.stat = "disks"}}
=============================================================================
