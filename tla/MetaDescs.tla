----------------------------- MODULE MetaDescs -----------------------------
(***************************************************************************)
(* The metrics implemented in D (cmd/cainst/modules/dtrace), one           *)
(* description a definition, and the arity of the fields                   *)
(* (metadata/metric/metrics.json).  A probe is a pair of an operation and  *)
(* a point of it: the entry, start and request probes are its "start", the *)
(* return, done and response probes its "done", any other probe "fires".   *)
(* "fits" stands for the conditions a predicate puts on the operation      *)
(* itself (the kind of file system, the name of the device).               *)
(***************************************************************************)
EXTENDS MetaD

Start(ops) == ops \X {"start"}
Done(ops) == ops \X {"done"}
Fires(ops) == ops \X {"fires"}

\* Variables held under an index, what the variables of their own fields or
\* of another are read for, and keys that read none.
Stores(keys, at, as) == [k \in keys |-> [at |-> at, as |-> as]]
Own(keys, at) == [k \in keys |-> {<<"$", at>>}]
Reads(keys, var) == [k \in keys |-> {<<var, <<>>>>}]
Plain(keys) == [k \in keys |-> {}]

\* A local variable that is another name of an index, or is read through a
\* pointer that was gathered.
Is(name, term) == name :> [is |-> term, reads |-> {}]
Derefs(name, var) == name :> [is |-> name, reads |-> {<<var, <<>>>>}]

\* A clause that gathers, one that clears, and those that aggregate.
Saves(ps, at, keys) == [Clause(ps) EXCEPT !.gather = Stores(keys, at, "now")]
Clears(ps, at, keys) == [Clause(ps) EXCEPT !.clean = Own(keys, at)]
Aggregates(ps, fields, dists, reads, verify) ==
    [Clause(ps) EXCEPT
        !.agg = [f \in fields \cup {"default"} |->
                    IF f \in dists THEN "quantize" ELSE "count"],
        !.trans = reads @@ Plain(fields), !.verify = verify]
Counts(ps, fields, dists) == Aggregates(ps, fields, dists, Nothing, Nothing)
Sums(ps, fields) == [Counts(ps, fields, {}) EXCEPT
                        !.agg = [f \in fields \cup {"default"} |-> "sum"]]

Process == {"hostname", "zonename", "pid", "execname", "psargs"}
Parent == {"ppid", "pexecname", "ppsargs"}

FopNames == {"fop_read", "fop_write", "fop_ioctl", "fop_access",
    "fop_getattr", "fop_setattr", "fop_lookup", "fop_create", "fop_remove",
    "fop_link", "fop_rename", "fop_mkdir", "fop_rmdir", "fop_readdir",
    "fop_symlink", "fop_readlink", "fop_fsync", "fop_getpage", "fop_putpage",
    "fop_map"}

LdapNames == {"server-add", "server-bind", "server-compare",
    "server-delete", "server-exop", "server-modify", "server-modifydn",
    "server-search", "server-unbind"}

MorayNames == {"delobject", "findobjects", "getobject", "putobject",
    "update"}

StatementNames == {"delete", "insert", "insert-select", "multi-delete",
    "multi-update", "select", "update"}

apache_httpd_ops ==
    LET F == Process \cup Parent \cup {"http_method", "http_url", "raddr",
          "rport", "http_path", "latency"}
    IN Desc("apache", "httpd_ops", F, {}, {}, TRUE, <<
        Saves(Start({"request"}), <<>>, {"latency"}),
        Aggregates(Done({"request"}), F, {"latency"}, Own({"latency"},
            <<>>), Own({"latency"}, <<>>)),
        Clears(Done({"request"}), <<>>, {"latency"}) >>)

cpu_thread_executions ==
    LET F == Process \cup Parent \cup {"leavereason", "runtime", "subsecond"}
        K == {"runtime", "subsecond"}
    IN Desc("cpu", "thread_executions", F, {}, {"state"}, FALSE, <<
        [Saves(Start({"cpu"}), <<>>, K) EXCEPT !.pred = {"fits"}],
        [Aggregates(Done({"cpu"}), F, K, Own(K, <<>>), Own(K, <<>>)) EXCEPT
            !.local = Is("state", "state"), !.pred = {"fits"}],
        [Clears(Done({"cpu"}), <<>>, K) EXCEPT !.pred = {"fits"}] >>)

cpu_thread_samples ==
    LET F == Process \cup Parent \cup {"subsecond"}
    IN Desc("cpu", "thread_samples", F, {}, {}, FALSE, <<
        [Counts(Fires({"profile-99hz"}), F, {"subsecond"}) EXCEPT !.pred =
            {"fits"}] >>)

disk_physio_ops ==
    LET F == {"hostname", "disk", "optype", "latency", "size", "offset"}
        At == <<"arg0">>
    IN Desc("disk", "physio_ops", F, {}, {}, FALSE, <<
        Saves(Start({"io"}), At, {"latency"}),
        [Aggregates(Done({"io"}), F, {"latency", "size", "offset"},
            Own({"latency"}, At), Own({"latency"}, At)) EXCEPT !.pred =
            {"fits"}],
        Clears(Done({"io"}), At, {"latency"}) >>)

\* The clearing clause of opens is put on the entry probe, as in the source.
fs_logical_ops ==
    LET F == Process \cup Parent \cup {"fstype", "optype", "latency"}
        K == {"latency", "vnode", "depth"}
    IN Desc("fs", "logical_ops", F, {"vnode", "depth"}, {"fstype"}, FALSE, <<
        [Saves(Start(FopNames \cup {"fop_open"}), <<>>, {"latency"}) EXCEPT
            !.always = Stores({"vnode"}, <<>>, "now") @@ Stores({"depth"},
            <<>>, "depth"), !.pred = {"vnode unset"}],
        [Aggregates(Done({"fop_open"}), F, {"latency"}, Own({"latency"},
            <<>>) @@ Reads({"fstype"}, "vnode"), Own(K, <<>>)) EXCEPT !.local =
            Derefs("fstype", "vnode"), !.pred = {"at depth", "vnode set",
            "fits"}],
        [Aggregates(Done(FopNames), F, {"latency"}, Own({"latency"}, <<>>)
            @@ Reads({"fstype"}, "vnode"), Own(K, <<>>)) EXCEPT !.local =
            Derefs("fstype", "vnode"), !.pred = {"at depth", "vnode set",
            "fits"}],
        [Clears(Done(FopNames) \cup Start({"fop_open"}), <<>>, K) EXCEPT
            !.pred = {"at depth"}] >>)

fs_logical_rwops ==
    LET F == Process \cup Parent \cup {"fstype", "optype", "size", "offset",
          "latency"}
        K == {"size", "offset", "latency", "vnode", "depth"}
        V == {"size", "offset", "latency"}
    IN Desc("fs", "logical_rwops", F, {"vnode", "depth"}, {"fstype"}, FALSE, <<
        [Saves(Start({"fop_read", "fop_write"}), <<>>, V) EXCEPT !.always =
            Stores({"vnode"}, <<>>, "now") @@ Stores({"depth"}, <<>>, "depth"),
            !.pred = {"vnode unset"}],
        [Aggregates(Done({"fop_read", "fop_write"}), F, V, Own(V, <<>>) @@
            Reads({"fstype"}, "vnode"), Own(K, <<>>)) EXCEPT !.local =
            Derefs("fstype", "vnode"), !.pred = {"at depth", "vnode set",
            "fits"}],
        [Clears(Done({"fop_read", "fop_write"}), <<>>, K) EXCEPT !.pred =
            {"at depth"}] >>)

ldapjs_connections ==
    LET F == Process \cup {"raddr"}
    IN Desc("ldapjs", "connections", F, {}, {}, TRUE, <<
        Counts(Fires({"server-connection"}), F, {}) >>)

ldapjs_ops ==
    LET F == Process \cup {"raddr", "optype", "ldapbinddn", "ldaprequestdn",
          "status", "latency"}
        At == <<"pid", "rqid">>
    IN Desc("ldapjs", "ops", F, {}, {"rqid"}, TRUE, <<
        [Saves(Start(LdapNames), At, {"latency"}) EXCEPT !.local =
            Is("rqid", "arg0")],
        [Aggregates(Done(LdapNames), F, {"latency"}, Own({"latency"}, At),
            Own({"latency"}, <<"pid", "arg0">>)) EXCEPT !.local = Is("rqid",
            "arg0")],
        [Clears(Done(LdapNames), At, {"latency"}) EXCEPT !.local =
            Is("rqid", "arg0")] >>)

ldapjs_search_ops ==
    LET F == Process \cup {"raddr", "ldapbinddn", "ldaprequestdn", "status",
          "ldapfilter", "ldapscope", "latency"}
        K == {"ldapfilter", "ldapscope", "latency"}
        At == <<"pid", "rqid">>
    IN Desc("ldapjs", "search_ops", F, {}, {"rqid"}, TRUE, <<
        [Saves(Start({"server-search"}), At, K) EXCEPT !.local = Is("rqid",
            "arg0")],
        [Aggregates(Done({"server-search"}), F, {"latency"}, Own(K, At),
            Own(K, <<"pid", "arg0">>)) EXCEPT !.local = Is("rqid", "arg0")],
        [Clears(Done({"server-search"}), At, K) EXCEPT !.local = Is("rqid",
            "arg0")] >>)

mantaop_jobs_assigned ==
    LET F == {"hostname", "zonename"}
    IN Desc("mantaop", "jobs_assigned", F, {}, {}, TRUE, <<
        Counts(Fires({"supervisor:job-assigned"}), F, {}) >>)

mantaop_supervisor_auths ==
    LET F == {"hostname", "zonename", "user", "latency", "errname"}
        At == <<"pid", "arg0">>
    IN Desc("mantaop", "supervisor_auths", F, {}, {}, TRUE, <<
        Saves(Start({"supervisor:auth"}), At, {"latency"}),
        Aggregates(Done({"supervisor:auth"}), F, {"latency"},
            Own({"latency"}, At), Own({"latency"}, At)),
        Clears(Done({"supervisor:auth"}), At, {"latency"}) >>)

mantaop_supervisor_deletes ==
    LET F == {"hostname", "zonename", "objname", "latency", "errname"}
        At == <<"pid", "arg0">>
    IN Desc("mantaop", "supervisor_deletes", F, {}, {}, TRUE, <<
        Saves(Start({"supervisor:delete"}), At, {"latency"}),
        Aggregates(Done({"supervisor:delete"}), F, {"latency"},
            Own({"latency"}, At), Own({"latency"}, At)),
        Clears(Done({"supervisor:delete"}), At, {"latency"}) >>)

mantaop_supervisor_errors ==
    LET F == {"hostname", "zonename", "jobid"}
    IN Desc("mantaop", "supervisor_errors", F, {}, {}, TRUE, <<
        Counts(Fires({"supervisor:error-dispatched"}), F, {}) >>)

mantaop_supervisor_locates ==
    LET F == {"hostname", "zonename", "objname", "latency", "errname"}
        At == <<"pid", "arg0">>
    IN Desc("mantaop", "supervisor_locates", F, {}, {}, TRUE, <<
        Saves(Start({"supervisor:locate"}), At, {"latency"}),
        Aggregates(Done({"supervisor:locate"}), F, {"latency"},
            Own({"latency"}, At), Own({"latency"}, At)),
        Clears(Done({"supervisor:locate"}), At, {"latency"}) >>)

mantaop_tasks_committed ==
    LET F == {"hostname", "zonename", "jobid"}
    IN Desc("mantaop", "tasks_committed", F, {}, {}, TRUE, <<
        Counts(Fires({"supervisor:task-committed"}), F, {}) >>)

mantaop_tasks_dispatched ==
    LET F == {"hostname", "zonename", "jobid"}
    IN Desc("mantaop", "tasks_dispatched", F, {}, {}, TRUE, <<
        Counts(Fires({"supervisor:task-dispatched"}), F, {}) >>)

\* The clearing clauses of these two are on probes of the supervisor, the
\* others on probes of the agent.
mantaop_tasks_executed ==
    LET F == {"hostname", "jobid", "latency"}
        At == <<"pid", "arg1">>
    IN Desc("mantaop", "tasks_executed", F, {}, {}, FALSE, <<
        Saves(Start({"agent:task"}), At, {"latency"}),
        Aggregates(Done({"agent:task"}), F, {"latency"}, Own({"latency"},
            At), Own({"latency"}, At)),
        Clears(Done({"supervisor:task"}), At, {"latency"}) >>)

mantaop_tasks_killed ==
    LET F == {"hostname", "jobid"}
    IN Desc("mantaop", "tasks_killed", F, {}, {}, FALSE, <<
        Counts(Fires({"agent:task-killed"}), F, {}) >>)

mantaop_zone_resets ==
    LET F == {"hostname", "zonename", "latency", "errname"}
        At == <<"pid", "arg0">>
    IN Desc("mantaop", "zone_resets", F, {}, {}, FALSE, <<
        Saves(Start({"agent:zone-reset"}), At, {"latency"}),
        Aggregates(Done({"agent:zone-reset"}), F, {"latency"},
            Own({"latency"}, At), Own({"latency"}, At)),
        Clears(Done({"supervisor:zone-reset"}), At, {"latency"}) >>)

moray_ops ==
    LET F == Process \cup {"optype", "table", "latency", "cputime"}
        K == {"optype", "table", "latency", "cputime"}
        V == {"latency", "cputime"}
        At == <<"pid", "arg0">>
    IN Desc("moray", "ops", F, {}, {}, TRUE, <<
        Saves(Start(MorayNames), At, K),
        Aggregates(Done(MorayNames), F, V, Own(K, At), Own(K, At)),
        Clears(Done(MorayNames), At, K),
        Saves(Start({"batch-op"}), At, K),
        Aggregates(Done({"batch-op"}), F, V, Own(K, At), Own(K, At)),
        Clears(Done({"batch-op"}), At, K) >>)

moray_queries ==
    LET F == Process \cup {"querysubstr", "latency", "cputime"}
        K == {"querysubstr", "latency", "cputime"}
        At == <<"pid", "arg0">>
    IN Desc("moray", "queries", F, {}, {}, TRUE, <<
        Saves(Start({"query"}), At, K),
        Aggregates(Done({"query"}), F, {"latency", "cputime"}, Own(K, At),
            Own(K, At)),
        Clears(Done({"query"}), At, K) >>)

mysql_commands ==
    LET F == Process \cup {"command", "user", "client", "status", "latency",
          "cputime"}
        K == {"command", "user", "client", "latency", "cputime"}
    IN Desc("mysql", "commands", F, {}, {}, TRUE, <<
        Saves(Start({"command"}), <<>>, K),
        Aggregates(Done({"command"}), F, {"latency", "cputime"}, Own(K,
            <<>>), Own(K, <<>>)),
        Clears(Done({"command"}), <<>>, K) >>)

mysql_connections ==
    LET F == Process \cup {"user", "client", "latency"}
        K == {"user", "client", "latency"}
    IN Desc("mysql", "connections", F, {}, {}, TRUE, <<
        Saves(Start({"connection"}), <<>>, K),
        Aggregates(Done({"connection"}), F, {"latency"}, Own(K, <<>>),
            Own(K, <<>>)),
        Clears(Done({"connection"}), <<>>, K) >>)

mysql_filesort ==
    LET F == Process \cup {"database", "table", "latency", "cputime"}
        K == {"database", "table", "latency", "cputime"}
    IN Desc("mysql", "filesort", F, {}, {}, TRUE, <<
        Saves(Start({"filesort"}), <<>>, K),
        Aggregates(Done({"filesort"}), F, {"latency", "cputime"}, Own(K,
            <<>>), Own(K, <<>>)),
        Clears(Done({"filesort"}), <<>>, K) >>)

mysql_queries ==
    LET F == Process \cup {"querysubstr", "database", "user", "client",
          "parsed", "status", "latency", "cputime"}
        K == {"querysubstr", "database", "user", "client", "parsed",
          "latency", "cputime"}
        V == {"querysubstr", "database", "user", "client", "latency",
          "cputime"}
    IN Desc("mysql", "queries", F, {}, {}, TRUE, <<
        [Saves(Start({"query"}), <<>>, V) EXCEPT !.always =
            Stores({"parsed"}, <<>>, "begun")],
        [Saves(Start({"query-exec"}), <<>>, V) EXCEPT !.always =
            Stores({"parsed"}, <<>>, "executed")],
        [Aggregates(Done({"query"}), F, {"latency", "cputime"}, Own(K,
            <<>>), Own(K, <<>>)) EXCEPT !.pred = {"begun"}],
        [Aggregates(Done({"query-exec"}), F, {"latency", "cputime"}, Own(V,
            <<>>), Own(K, <<>>)) EXCEPT !.pred = {"not begun"}],
        [Clears(Done({"query", "query-exec"}), <<>>, K) EXCEPT !.pred =
            {"not begun, or query-done"}] >>)

mysql_statements ==
    LET F == Process \cup {"statement", "status", "rowsmatched",
          "rowschanged", "latency", "cputime"}
        K == {"latency", "cputime"}
    IN Desc("mysql", "statements", F, {}, {}, TRUE, <<
        Saves(Start(StatementNames), <<>>, K),
        Aggregates(Done(StatementNames), F, {"rowsmatched", "rowschanged",
            "latency", "cputime"}, Own(K, <<>>), Own(K, <<>>)),
        Clears(Done(StatementNames), <<>>, K) >>)

node_gc_ops ==
    LET F == Process \cup Parent \cup {"gctype", "latency"}
    IN Desc("node", "gc_ops", F, {}, {}, TRUE, <<
        Saves(Start({"gc"}), <<>>, {"latency"}),
        Aggregates(Done({"gc"}), F, {"latency"}, Own({"latency"}, <<>>),
            Own({"latency"}, <<>>)),
        Clears(Done({"gc"}), <<>>, {"latency"}) >>)

node_httpc_ops ==
    LET F == Process \cup Parent \cup {"http_method", "http_url", "raddr",
          "rport", "http_path", "latency"}
        K == {"http_method", "http_url", "http_path", "latency"}
        At == <<"pid", "fd">>
    IN Desc("node", "httpc_ops", F, {}, {"fd"}, TRUE, <<
        [Saves(Start({"http-client"}), At, K) EXCEPT !.local = Is("fd",
            "fd")],
        [Aggregates(Done({"http-client"}), F, {"latency"}, Own(K, At),
            Own(K, At)) EXCEPT !.local = Is("fd", "fd")],
        [Clears(Done({"http-client"}), At, K) EXCEPT !.local = Is("fd",
            "fd")] >>)

node_httpd_ops ==
    LET F == Process \cup Parent \cup {"http_method", "http_url", "raddr",
          "rport", "http_path", "http_origin", "latency"}
        K == {"http_method", "http_url", "http_path", "http_origin",
          "latency"}
        At == <<"pid", "fd">>
    IN Desc("node", "httpd_ops", F, {}, {"fd"}, TRUE, <<
        [Saves(Start({"http-server"}), At, K) EXCEPT !.local = Is("fd",
            "fd")],
        [Aggregates(Done({"http-server"}), F, {"latency"}, Own(K, At),
            Own({"http_method", "http_url", "http_path", "latency"}, At) @@
            Plain({"http_origin"})) EXCEPT !.local = Is("fd", "fd")],
        [Clears(Done({"http-server"}), At, K) EXCEPT !.local = Is("fd",
            "fd")] >>)

node_socket_ops ==
    LET F == Process \cup Parent \cup {"optype", "raddr", "rport", "size",
          "buffered"}
    IN Desc("node", "socket_ops", F, {}, {}, TRUE, <<
        Counts(Fires({"net-socket-read", "net-socket-write"}), F, {"size",
            "buffered"}) >>)

postgres_queries ==
    LET F == Process \cup {"querysubstr", "latency", "cputime"}
        K == {"querysubstr", "latency", "cputime"}
    IN Desc("postgres", "queries", F, {}, {}, TRUE, <<
        Saves(Start({"query"}), <<>>, K),
        Aggregates(Done({"query"}), F, {"latency", "cputime"}, Own(K,
            <<>>), Own(K, <<>>)),
        Clears(Done({"query"}), <<>>, K) >>)

unix_proc_execs ==
    LET F == Process \cup Parent \cup {"subsecond"}
    IN Desc("unix", "proc_execs", F, {}, {}, FALSE, <<
        Counts(Fires({"exec-success"}), F, {"subsecond"}) >>)

unix_proc_exits ==
    LET F == Process \cup Parent \cup {"subsecond", "walltime"}
    IN Desc("unix", "proc_exits", F, {}, {}, FALSE, <<
        Counts(Fires({"exit"}), F, {"subsecond", "walltime"}) >>)

unix_proc_forks ==
    LET F == Process \cup {"subsecond", "ppid"}
    IN Desc("unix", "proc_forks", F, {}, {}, FALSE, <<
        Counts(Fires({"create"}), F, {"subsecond"}) >>)

restify_handler_ops ==
    LET F == Process \cup Parent \cup {"restify_sname", "restify_rname",
          "restify_hname", "latency"}
        At == <<"pid", "arg3">>
    IN Desc("restify", "handler_ops", F, {}, {}, FALSE, <<
        Saves(Start({"handler"}), At, {"latency"}),
        Aggregates(Done({"handler"}), F, {"latency"}, Own({"latency"}, At),
            Own({"latency"}, At)),
        Clears(Done({"handler"}), At, {"latency"}) >>)

restify_server_ops ==
    LET F == Process \cup Parent \cup {"restify_sname", "restify_rname",
          "http_url", "http_method", "http_status", "latency"}
        K == {"http_url", "http_method", "latency"}
        At == <<"pid", "arg2">>
    IN Desc("restify", "server_ops", F, {}, {}, FALSE, <<
        Saves(Start({"route"}), At, K),
        Aggregates(Done({"route"}), F, {"latency"}, Own(K, At), Own(K, At)),
        Clears(Done({"route"}), At, K) >>)

syscall_syscalls ==
    LET F == Process \cup Parent \cup {"syscall", "subsecond", "latency",
          "cputime"}
        K == {"subsecond", "latency", "cputime"}
    IN Desc("syscall", "syscalls", F, {}, {}, FALSE, <<
        Saves(Start({"syscall"}), <<>>, K),
        Aggregates(Done({"syscall"}), F, K, Own(K, <<>>), Own(K, <<>>)),
        Clears(Done({"syscall"}), <<>>, K) >>)

tcp_accepts ==
    LET F == Process \cup Parent \cup {"rport", "raddr"}
    IN Desc("tcp", "accepts", F, {"sockaddr"}, {"addrtype"}, FALSE, <<
        [Saves(Start({"accept"}), <<>>, {}) EXCEPT !.always =
            Stores({"sockaddr"}, <<>>, "now")],
        [Aggregates(Done({"accept"}), F, {}, Reads({"rport", "raddr"},
            "sockaddr"), Own({"sockaddr"}, <<>>)) EXCEPT !.local =
            Derefs("addrtype", "sockaddr"), !.pred = {"fits"}],
        Clears(Done({"accept"}), <<>>, {"sockaddr"}) >>)

tcp_connects ==
    LET F == Process \cup Parent \cup {"rport", "raddr"}
    IN Desc("tcp", "connects", F, {"sockaddr"}, {"addrtype"}, FALSE, <<
        [Saves(Start({"connect"}), <<>>, {}) EXCEPT !.always =
            Stores({"sockaddr"}, <<>>, "now")],
        [Aggregates(Done({"connect"}), F, {}, Reads({"rport", "raddr"},
            "sockaddr"), Own({"sockaddr"}, <<>>)) EXCEPT !.local =
            Derefs("addrtype", "sockaddr"), !.pred = {"fits"}],
        Clears(Done({"connect"}), <<>>, {"sockaddr"}) >>)

unix_thr_creates ==
    LET F == Process \cup Parent \cup {"subsecond"}
    IN Desc("unix", "thr_creates", F, {}, {}, FALSE, <<
        Counts(Fires({"lwp-create"}), F, {"subsecond"}) >>)

vm_irqs ==
    LET F == {"hostname", "zonename", "subsecond", "irqvector"}
    IN Desc("vm", "irqs", F, {}, {}, FALSE, <<
        Counts(Fires({"kvm-inj-virq"}), F, {"subsecond"}) >>)

vm_physio_bytes ==
    LET F == {"hostname", "zonename", "optype"}
    IN Desc("vm", "physio_bytes", F, {}, {}, FALSE, <<
        Sums(Start({"zvol-uio"}), F) >>)

vm_physio_ops ==
    LET F == {"hostname", "zonename", "optype", "latency", "size", "offset",
          "errno"}
        K == {"latency", "size", "offset"}
    IN Desc("vm", "physio_ops", F, {}, {}, FALSE, <<
        Saves(Start({"zvol-uio"}), <<>>, K),
        Aggregates(Done({"zvol-uio"}), F, K, Own(K, <<>>), Own(K, <<>>)),
        Clears(Done({"zvol-uio"}), <<>>, K) >>)

vm_thread_samples ==
    LET F == {"hostname", "zonename", "subsecond", "vmmmuctx"}
    IN Desc("vm", "thread_samples", F, {}, {}, FALSE, <<
        [Counts(Fires({"profile-99hz"}), F, {"subsecond"}) EXCEPT !.pred =
            {"fits"}] >>)

zfs_arc_ops ==
    LET F == Process \cup Parent \cup {"optype"}
    IN Desc("zfs", "arc_ops", F, {}, {}, FALSE, <<
        Counts(Fires({"arc-hit", "arc-miss"}), F, {}) >>)

\* The fields whose type is numeric.
Numeric == {"busytime", "bytes", "bytes_read", "bytes_write", "buffered",
    "cputime", "iops", "iops_read", "iops_write", "latency", "nthreads",
    "offset", "packets", "packets_in", "packets_out", "rowsmatched",
    "rowschanged", "rss", "runtime", "size", "subsecond", "utilization",
    "walltime"}

Descs == {apache_httpd_ops, cpu_thread_executions, cpu_thread_samples,
    disk_physio_ops, fs_logical_ops, fs_logical_rwops, ldapjs_connections,
    ldapjs_ops, ldapjs_search_ops, mantaop_jobs_assigned,
    mantaop_supervisor_auths, mantaop_supervisor_deletes,
    mantaop_supervisor_errors, mantaop_supervisor_locates,
    mantaop_tasks_committed, mantaop_tasks_dispatched, mantaop_tasks_executed,
    mantaop_tasks_killed, mantaop_zone_resets, moray_ops, moray_queries,
    mysql_commands, mysql_connections, mysql_filesort, mysql_queries,
    mysql_statements, node_gc_ops, node_httpc_ops, node_httpd_ops,
    node_socket_ops, postgres_queries, unix_proc_execs, unix_proc_exits,
    unix_proc_forks, restify_handler_ops, restify_server_ops, syscall_syscalls,
    tcp_accepts, tcp_connects, unix_thr_creates, vm_irqs, vm_physio_bytes,
    vm_physio_ops, vm_thread_samples, zfs_arc_ops}
=============================================================================
