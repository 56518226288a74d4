---------------------------- MODULE MCInstrumenter ----------------------------
EXTENDS Instrumenter, TLC

CONSTANTS dt, zf, zg, pr

\* One instrumentation of each kind, and runs with fewer of them.
Kinds == dt :> "dtrace" @@ zf :> "zfs" @@ zg :> "zfs" @@ pr :> "proc"
BackendOf == [i \in Insts |-> Kinds[i]]

\* Both zfs instrumentations read the name; each reads a column of its own.
Columns == {"name", "used", "avail"} 
Reads == [i \in Insts |-> IF i = zf THEN {"name", "used"}
                          ELSE IF i = zg THEN {"name", "avail"} ELSE {}]
Stale == [k \in {"zfs", "proc"} |-> IF k = "zfs" THEN 3 ELSE 1]
===============================================================================
