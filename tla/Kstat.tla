------------------------------- MODULE Kstat -------------------------------
(***************************************************************************)
(* The instrumenter's kstat back end (cmd/cainst/modules/kstat.js): the    *)
(* metrics it has, and the value of an instrumentation from two            *)
(* consecutive snapshots of the kernel's statistics.                       *)
(*                                                                         *)
(* A kstat is a record of what does not change: module, class, name,       *)
(* instance, and zonename, "" if its data have none; "kstat" maps names to *)
(* such records.  A snapshot maps the names of the kstats that were read   *)
(* to [snaptime, data], data being an object with the counters.            *)
(***************************************************************************)
EXTENDS Buckets, TLC

Unlimited == 2000000    \* stands for 2^64, "no limit"
Second == 1000           \* what snaptime advances by in a second

\* How often a metric's extract function, or a field's values function, takes
\* the counters "plus" less the counters "minus".
Of(plus) == [plus |-> plus, minus |-> {}]

\* Fields whose values come from the kstat's identity, and numeric fields, whose
\* values are deltas of counters, per interval in percent if rate.
Linear == [scale |-> "linear", step |-> 1]
LogLin(min) == [scale |-> "log", min |-> min, nbuckets |-> 100]
Count(counters) == [of |-> Of(counters), rate |-> FALSE, bucketize |-> LogLin(0)]
Bytes(counters) == [of |-> Of(counters), rate |-> FALSE, bucketize |-> LogLin(2)]
Percent(counters) == [of |-> Of(counters), rate |-> TRUE, bucketize |-> Linear]

\* "by" is the field one kstat has several values of, with what is extracted for
\* each of them.  A metric without such a field has by = "" and one "value".
Kst(module, stat, kstat, filter, attrs, extract, by, values, measures) ==
    [module |-> module, stat |-> stat, kstat |-> kstat, filter |-> filter,
     attrs |-> attrs @@ ("hostname" :> "host"), extract |-> extract, by |-> by,
     values |-> values, measures |-> measures]
Plain(counters) == "" :> Of(counters)
None == [x \in {} |-> 0]
Resource(module, stat, kstat, filter, attrs, measures) ==
    Kst(module, stat, kstat, filter, attrs, "resource", "", Plain({}), measures)

Zone == "zonename" :> "zonename"
Direction(sent, received) == ("sent" :> Of({sent})) @@ ("received" :> Of({received}))
Optype(reads, writes) == ("read" :> Of({reads})) @@ ("write" :> Of({writes}))

CpuMetrics ==
    LET zones == [module |-> "zones", class |-> "zone_misc"]
    IN {Resource("cpu", "cpus", [module |-> "cpu", class |-> "misc", name |-> "sys"],
                 "all", "cpu" :> "instance",
                 "utilization" :> Percent({"cpu_nsec_kernel", "cpu_nsec_user"})),
        Kst("cpu", "usage", zones, "all", Zone, "percent", "cpumode",
            ("kernel" :> Of({"nsec_sys"})) @@ ("user" :> Of({"nsec_user"})), None),
        Kst("cpu", "waittime", zones, "all", Zone, "delta", "",
            Plain({"nsec_waitrq"}), None),
        Kst("cpu", "loadavg1", zones, "all", Zone, "current", "",
            Plain({"avenrun_1min"}), None)}     \* in units of 1 / FSCALE

NicMetrics ==
    LET link == [module |-> "link", class |-> "net"]
        out(stat, filter, attrs, sent, received) ==
            Kst("nic", stat, link, filter, attrs, "delta", "direction",
                Direction(sent, received), None)
        Nic == "nic" :> "name"
    IN {Resource("nic", "nics", link, "nic", Nic,
                 ("packets" :> Count({"ipackets64", "opackets64"}))
                 @@ ("packets_in" :> Count({"ipackets64"}))
                 @@ ("packets_out" :> Count({"opackets64"}))
                 @@ ("bytes" :> Bytes({"rbytes64", "obytes64"}))
                 @@ ("bytes_read" :> Bytes({"rbytes64"}))
                 @@ ("bytes_write" :> Bytes({"obytes64"}))),
        out("bytes", "nic", Nic, "obytes64", "rbytes64"),
        out("packets", "nic", Nic, "opackets64", "ipackets64"),
        out("vnic_bytes", "vnic", Zone, "obytes64", "rbytes64"),
        out("vnic_packets", "vnic", Zone, "opackets64", "ipackets64")}

DiskMetrics ==
    LET io(stat, reads, writes) ==
            Kst("disk", stat, [class |-> "disk"], "disk", "disk" :> "name", "delta",
                "optype", Optype(reads, writes), None)
    IN {Resource("disk", "disks", [class |-> "disk"], "disk", "disk" :> "name",
                 ("iops" :> Count({"reads", "writes"}))
                 @@ ("iops_read" :> Count({"reads"}))
                 @@ ("iops_write" :> Count({"writes"}))
                 @@ ("bytes" :> Bytes({"nread", "nwritten"}))
                 @@ ("bytes_read" :> Bytes({"nread"}))
                 @@ ("bytes_write" :> Bytes({"nwritten"}))
                 @@ ("busytime" :> Percent({"rtime"}))),
        io("physio_ops", "reads", "writes"),
        io("physio_bytes", "nread", "nwritten")}

\* The errors are named by the counter instead of the text for it.
TcpErrors == {"attemptFails", "retransSegs", "inDupAck", "listenDrop", "listenDropQ0",
              "halfOpenDrop", "timRetransDrop"}

TcpMetrics ==
    LET tcp(stat, by, values) ==
            Kst("tcp", stat, [module |-> "tcp", class |-> "mib2"], "all",
                "tcpstack" :> "instance", "delta", by, values, None)
    IN {tcp("segments", "direction", Direction("outSegs", "inSegs")),
        tcp("errors", "errtype", [e \in TcpErrors |-> Of({e})])}

FsMetrics ==
    LET vfs(stat, reads, writes) ==
            Kst("fs", stat, [module |-> "zone_vfs"], "all", Zone, "delta", "optype",
                Optype(reads, writes), None)
    IN {vfs("logical_rwops", "reads", "writes"),
        vfs("logical_rwbytes", "nread", "nwritten")}

MemoryMetrics ==
    LET cap(stat, extract, counter) ==
            Kst("memory", stat, [module |-> "memory_cap"], "all", Zone, extract, "",
                Plain({counter}), None)
    IN {cap("rss", "current", "rss"), cap("rss_limit", "limit", "physcap"),
        cap("swap", "current", "swap"), cap("swap_limit", "limit", "swapcap"),
        cap("reclaimed_bytes", "delta", "pagedout"), cap("pageins", "delta", "pgpgin")}

\* The exits of other kinds are those that none of the five counters counts.
Exits == "haltx" :> "halt-exits" @@ "irqx" :> "irq-exits"
         @@ "irqwx" :> "irq-window-exits" @@ "iox" :> "io-exits"
         @@ "mmiox" :> "mmio-exits"
Other == [plus |-> {"exits"}, minus |-> {Exits[e] : e \in DOMAIN Exits}]
VmMetrics ==
    {Kst("vm", "exits", [module |-> "kvm", class |-> "misc"], "vcpu",
         Zone @@ ("vcpuid" :> "name"), "delta", "vleavereason",
         [e \in DOMAIN Exits |-> Of({Exits[e]})] @@ ("other" :> Other), None)}

ZfsMetrics ==
    {Kst("zfs", "arc_ops", [module |-> "zfs", name |-> "arcstats"], "all", None,
         "delta", "optype", ("hit" :> Of({"hits"})) @@ ("miss" :> Of({"misses"})), None)}

inskMetrics == CpuMetrics \cup NicMetrics \cup DiskMetrics \cup TcpMetrics
               \cup FsMetrics \cup MemoryMetrics \cup VmMetrics \cup ZfsMetrics

-----------------------------------------------------------------------------
(* Which kstats a metric is computed from *)

inskNicFilter(k) == k.nic
inskVnicFilter(k) == k.zonename \notin {"", "global"}
inskDiskFilter(k) == k.module \in {"cmdk", "sd"}
inskVMExitFilter(k) == k.name # "vm"

Selected(m, k) ==
    /\ \A part \in DOMAIN m.kstat : k[part] = m.kstat[part]
    /\ CASE m.filter = "nic" -> inskNicFilter(k)
         [] m.filter = "vnic" -> inskVnicFilter(k)
         [] m.filter = "disk" -> inskDiskFilter(k)
         [] m.filter = "vcpu" -> inskVMExitFilter(k)
         [] OTHER -> TRUE

\* A kstat that could not be read is skipped.
read(m, kstat, names, bad) == {k \in names \ bad : Selected(m, kstat[k])}

-----------------------------------------------------------------------------
(* Data points *)

Sum(data, of) ==
    LET add(S) == FoldSet(LAMBDA c, sum : sum + data[c], 0, S)
    IN  add(of.plus) - add(of.minus)
Delta(new, old, of) == Sum(new.data, of) - Sum(old.data, of)
Rate(new, old, of) == (100 * Delta(new, old, of)) \div (new.snaptime - old.snaptime)

\* The values iam_extract may return; that of "limit" is undefined if there is none.
inskMemLimit(value) == value \notin {0, Unlimited}
Defined(m, new, of) == m.extract = "limit" => inskMemLimit(Sum(new.data, of))
iam_extract(m, new, old, of) ==
    CASE m.extract = "resource" -> 1
      [] m.extract = "delta" -> Delta(new, old, of)
      [] m.extract = "percent" -> Rate(new, old, of)
      [] OTHER -> Sum(new.data, of)

Measured(measure, new, old) ==
    <<"number", IF measure.rate THEN Rate(new, old, measure.of)
                ELSE Delta(new, old, measure.of)>>

\* The fields of kstatDataPointsFrom: only "by" has more than one value, so that
\* there is one data point for each of its values.
kstatDataPoints(m, k, new, old) ==
    LET fields(v) == [f \in DOMAIN m.attrs |-> <<"string", k[m.attrs[f]]>>]
                     @@ [f \in DOMAIN m.measures |-> Measured(m.measures[f], new, old)]
                     @@ (IF m.by = "" THEN None ELSE m.by :> <<"string", v>>)
    IN  {[fields |-> fields(v), value |-> iam_extract(m, new, old, m.values[v])] :
            v \in {x \in DOMAIN m.values : Defined(m, new, m.values[x])}}

\* order: how the kernel lists the kstats, which all have been read twice.
kstatPoints(m, kstat, order, new, old) ==
    FlattenSeq([i \in DOMAIN order |->
        Listed(kstatDataPoints(m, kstat[order[i]], new[order[i]], old[order[i]]))])

Bucketizers(m) == [f \in DOMAIN m.measures |-> m.measures[f].bucketize]
=============================================================================
