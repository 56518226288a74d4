----------------------------- MODULE MCAmqpCap -----------------------------
EXTENDS AmqpCap

CONSTANT key    \* a key that the process binds besides its own

\* A service that tries for ever to connect and is started twice; its process
\* ids have the same length, as printed in base 2.
Service == [limit |-> -1, breaks |-> 1, pids |-> <<2, 3>>, quota |-> <<1, 1>>,
            kinds |-> {"enable_instrumentation"}, keys |-> {key}]

\* A command line tool that gives up when it is disconnected, or when it could
\* not connect again at once.
Tool(n) == [limit |-> n, breaks |-> 2, pids |-> <<2>>, quota |-> <<2>>,
            kinds |-> Direct \cup Checked, keys |-> {}]

ServiceAndTools == {Service, Tool(0), Tool(2)}

ASSUME DistinctIds
=============================================================================
