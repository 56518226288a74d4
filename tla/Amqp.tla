-------------------------------- MODULE Amqp --------------------------------
(***************************************************************************)
(* The connection of one process to the AMQP broker (lib/ca/ca-amqp.js):   *)
(* connecting, declaring the exchange and the exclusive queue, binding its *)
(* keys, queueing what is sent meanwhile, losing the connection and        *)
(* connecting again.  The broker and the socket are modelled from how the  *)
(* code uses them.  The module is composed with its only consumer, the     *)
(* command layer, in AmqpCap; the handlers of that consumer which run in   *)
(* the same step are conjoined there.                                      *)
(***************************************************************************)
EXTENDS Integers, Sequences, SequencesExt, FiniteSets

CONSTANTS
    Keys,           \* routing keys this process may bind
    Own,            \* the key named as its queue: answers are sent to it
    Confs           \* configurations of a process: its retry limit (-1: for
                    \* ever), and the bound on how often it is disconnected

ASSUME OwnIsKey == Own \in Keys
ASSUME LimitsAreInts == \A c \in Confs : c.limit \in Int /\ c.breaks \in Nat

VARIABLES
    conf,       \* what the constructor was given; it never changes
    conn,       \* caa_conn, caa_exchange and caa_queue, in the order they are set
    broken,     \* the socket is dead and its 'close' event not yet handled
    closing,    \* caa_closing
    ncloses,    \* caa_ncloses
    retryTimer, \* the timer of connClosed runs
    msgqueue,   \* caa_msgqueue
    bindings,   \* caa_bindings
    unbound,    \* bindings whose promise queueSetup still waits for
    awaiting,   \* keys whose bind() waits for the broker
    told,       \* keys whose bind() has called back
    bound,      \* keys bound to the queue at the broker
    lock,       \* who holds the exclusive queue: "free", "mine" or "stale"
    out,        \* messages written to the socket, or sent on by the broker
    breaks      \* connections lost so far

linkVars == <<conn, broken, closing, ncloses, retryTimer>>
bindVars == <<bindings, unbound, awaiting, told, bound, lock>>
amqpVars == <<conf, linkVars, msgqueue, bindVars, out, breaks>>

Phases == <<"none", "connecting", "exchange", "queue", "binding", "up">>
HasExchange == conn \in {"exchange", "queue", "binding", "up"}
HasQueue == conn \in {"queue", "binding", "up"}

AmqpInit ==
    /\ conf \in Confs
    /\ conn = "connecting" /\ broken = FALSE /\ closing = FALSE
    /\ ncloses = 0 /\ retryTimer = FALSE
    /\ msgqueue = <<>> /\ out = {}
    /\ bindings = {Own} /\ unbound = {} /\ awaiting = {} /\ told = {}
    /\ bound = {} /\ lock = "free" /\ breaks = 0
-----------------------------------------------------------------------------
\* send(): a write on a dead socket throws and the message is queued, unless
\* the exchange is not open yet: then node-amqp keeps it and it is lost.
Writable == HasExchange /\ (~broken \/ conn = "exchange")
Send(m) ==
    IF Writable
    THEN out' = out \cup {m} /\ UNCHANGED msgqueue
    ELSE msgqueue' = Append(msgqueue, m) /\ UNCHANGED out

\* bind(): without a queue it succeeds at once and queueSetup will bind.
Bind(k) ==
    /\ bindings' = bindings \cup {k}
    /\ IF HasQueue
       THEN awaiting' = awaiting \cup {k} /\ UNCHANGED told
       ELSE told' = told \cup {k} /\ UNCHANGED awaiting
    /\ UNCHANGED <<conf, linkVars, msgqueue, unbound, bound, lock, out, breaks>>

BindDone(k) ==
    /\ k \in awaiting /\ ~broken
    /\ awaiting' = awaiting \ {k} /\ told' = told \cup {k} /\ bound' = bound \cup {k}
    /\ UNCHANGED <<conf, linkVars, msgqueue, bindings, unbound, lock, out, breaks>>

\* start(), from the constructor's caller and from the two timers.
Connect == conn' = "connecting" /\ broken' = FALSE /\ closing' = FALSE

connSetup ==
    /\ conn = "connecting" /\ ~broken
    /\ conn' = "exchange" /\ ncloses' = 0
    /\ UNCHANGED <<conf, broken, closing, retryTimer, msgqueue, bindVars, out, breaks>>

ExchangeOpen ==
    /\ conn = "exchange" /\ ~broken
    /\ conn' = "queue"
    /\ UNCHANGED <<conf, broken, closing, ncloses, retryTimer, msgqueue, bindVars, out, breaks>>

\* (Seeded fault.)  The bindings made since the start are not made again.
MqueueSetup ==
    /\ conn = "queue" /\ ~broken /\ lock # "stale"
    /\ conn' = "binding" /\ lock' = "mine" /\ unbound' = {Own}
    /\ UNCHANGED <<conf, broken, closing, ncloses, retryTimer, msgqueue,
                   bindings, awaiting, told, bound, out, breaks>>

queueSetup ==
    /\ conn = "queue" /\ ~broken /\ lock # "stale"
    /\ conn' = "binding" /\ lock' = "mine" /\ unbound' = bindings
    /\ UNCHANGED <<conf, broken, closing, ncloses, retryTimer, msgqueue,
                   bindings, awaiting, told, bound, out, breaks>>

\* A binding of queueSetup is made, but not the last one.
Bound(k) ==
    /\ conn = "binding" /\ k \in unbound /\ unbound # {k}
    /\ bound' = bound \cup {k} /\ unbound' = unbound \ {k}
    /\ UNCHANGED <<conf, linkVars, msgqueue, bindings, awaiting, told, lock, out, breaks>>

\* The last one: flush() takes the queued messages last first and publishes
\* them; the consumer then hears 'connected'.
\* (Seeded fault: Mflush sends one message only.)
Mflush ==
    IF msgqueue = <<>>
    THEN UNCHANGED <<out, msgqueue>>
    ELSE out' = out \cup {Last(msgqueue)} /\ msgqueue' = Front(msgqueue)
flush ==
    /\ out' = out \cup ToSet(Reverse(msgqueue))
    /\ msgqueue' = <<>>
Connected(k) ==
    /\ conn = "binding" /\ unbound = {k} /\ (broken => msgqueue = <<>>)
    /\ conn' = "up" /\ bound' = bound \cup {k} /\ unbound' = {}
    /\ flush
    /\ UNCHANGED <<conf, broken, closing, ncloses, retryTimer,
                   bindings, awaiting, told, lock, breaks>>

\* flush() on a socket that died meanwhile: publish() throws, nobody catches.
FlushThrows == conn = "binding" /\ Cardinality(unbound) = 1 /\ broken /\ msgqueue # <<>>
-----------------------------------------------------------------------------
\* The socket dies; what was written and not yet received may be lost.
Break ==
    /\ conn # "none" /\ ~broken /\ breaks < conf.breaks
    /\ broken' = TRUE /\ breaks' = breaks + 1
    /\ \E kept \in SUBSET out : out' = kept
    /\ UNCHANGED <<conf, conn, closing, ncloses, retryTimer, msgqueue, bindVars>>

\* stop(): ask for the end of the connection.  There must be one to end.
Ends == closing' = TRUE /\ broken' = TRUE

\* 'close' is handled.  The broker deletes the exclusive queue.
GivesUp == ~closing /\ conf.limit # -1 /\ ncloses + 1 >= conf.limit
connClosed ==
    /\ conn # "none" /\ broken
    /\ conn' = "none" /\ broken' = FALSE
    /\ ncloses' = ncloses + 1
    /\ retryTimer' = (~closing /\ ~GivesUp)
    /\ unbound' = {} /\ awaiting' = {} /\ bound' = {}
    /\ lock' = IF lock = "mine" THEN "free" ELSE lock
    /\ UNCHANGED <<conf, closing, msgqueue, bindings, told, out, breaks>>

Retry ==
    /\ retryTimer /\ retryTimer' = FALSE
    /\ Connect
    /\ UNCHANGED <<conf, ncloses, msgqueue, bindVars, out, breaks>>

\* The process ends without closing its connection: the broker may go on
\* holding the queue for it.  What it has written may still be sent on.
Vanish ==
    /\ conn' = "none" /\ broken' = FALSE /\ closing' = FALSE /\ ncloses' = 0
    /\ retryTimer' = FALSE /\ msgqueue' = <<>> /\ bindings' = {Own}
    /\ unbound' = {} /\ awaiting' = {} /\ told' = {} /\ bound' = {}
    /\ lock' \in (IF lock = "mine" THEN {"stale", "free"} ELSE {lock})
    /\ \E kept \in SUBSET out : out' = kept
    /\ UNCHANGED <<conf, breaks>>

\* The broker notices that the holder of the queue has gone.
Reaped ==
    /\ lock = "stale" /\ lock' = "free"
    /\ UNCHANGED <<conf, linkVars, msgqueue, bindings, unbound, awaiting, told, bound, out, breaks>>
=============================================================================
