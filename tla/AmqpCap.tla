------------------------------- MODULE AmqpCap -------------------------------
(***************************************************************************)
(* The command layer of one process (capAmqpCap in lib/ca/ca-amqp-cap.js)  *)
(* over its connection (module Amqp): commands with their ids and timers,  *)
(* acknowledgements, the keepalive timer, the recovery from a queue that   *)
(* is locked by an earlier life of the process, stop and fatal errors.     *)
(* A peer receives the commands, carries them out or refuses them, and     *)
(* answers to the key of the process.                                      *)
(***************************************************************************)
EXTENDS Amqp, CapWire

\* A configuration also has the process ids of the successive lives of the
\* process, the subtypes of the commands it issues and the keys it binds, and
\* the bound on how many commands each life issues.
CONSTANTS
    Untimed,    \* numbers of the commands that are given no timeout
    Base        \* base in which numbers are printed (10 in the code)

ASSUME LivesAreListed ==
    \A c \in Confs : /\ c.pids \in Seq(Nat) /\ c.pids # <<>>
                     /\ c.quota \in [DOMAIN c.pids -> Nat]
                     /\ c.kinds \subseteq Direct \cup Checked
                     /\ c.keys \subseteq Keys

VARIABLES
    life,       \* the current life; 0 between two lives, see alive
    alive,      \* whether the process runs
    stopped,    \* stop() has been called
    cmdid,      \* cap_cmdid
    cmds,       \* cap_cmds: outstanding commands of this life
    timers,     \* commands whose timer runs
    keepalive,  \* cap_toid: the keepalive timer runs
    retrying,   \* cap_retrying
    unlockTimer,\* the timer of error() runs
    inbox,      \* answers in the queue of this process at the broker
    call, fate  \* history: what has become of each command, see CallSpec

tableVars == <<cmdid, cmds, timers, call>>
lockVars == <<retrying, unlockTimer>>
lifeVars == <<life, alive, stopped>>
vars == <<amqpVars, tableVars, keepalive, lockVars, lifeVars, inbox, fate>>

Calls == UNION {UNION {{l} \X (0 .. c.quota[l] - 1) : l \in DOMAIN c.pids} : c \in Confs}
Timed == {c \in Calls : c[2] \notin Untimed}

\* The id of a command: 'auto.', the process id and the number of the
\* command, printed one after the other with nothing between.
Digits[n \in Nat] == IF n < Base THEN <<n>> ELSE Append(Digits[n \div Base], n % Base)
Id(c) == Digits[conf.pids[c[1]]] \o Digits[c[2]]

\* No two commands of a process print the same id, which is all that tells
\* their answers apart.  (A hypothesis on the process ids of successive lives,
\* not a fact of the code: it holds if they differ and have as many digits.)
DistinctIds == \A cf \in Confs :
    LET Of == {c \in Calls : c[1] \in DOMAIN cf.pids /\ c[2] < cf.quota[c[1]]}
        Printed(c) == Digits[cf.pids[c[1]]] \o Digits[c[2]]
    IN  \A c, d \in Of : Printed(c) = Printed(d) => c = d

Command(c, k) == [msg |-> Cmd(k), id |-> Id(c), call |-> c]
Answer(m, ack) == [msg |-> ack, id |-> m.id, call |-> m.call]

Init ==
    /\ AmqpInit
    /\ life = 1 /\ alive = TRUE /\ stopped = FALSE
    /\ cmdid = 0 /\ cmds = {} /\ timers = {}
    /\ keepalive = FALSE /\ retrying = FALSE /\ unlockTimer = FALSE
    /\ inbox = {}
    /\ call = [c \in Calls |-> "none"] /\ fate = [c \in Calls |-> "none"]

\* The process ends: what it held in memory is gone.
Die ==
    /\ Vanish
    /\ alive' = FALSE
    /\ cmds' = {} /\ timers' = {} /\ keepalive' = FALSE
    /\ retrying' = FALSE /\ unlockTimer' = FALSE
    /\ call' = [c \in Calls |-> IF call[c] = "open" THEN "gone" ELSE call[c]]
    /\ UNCHANGED <<life, stopped, cmdid, inbox, fate>>
-----------------------------------------------------------------------------
\* cmd(), and the send of the command: a callback under a fresh id, a timer
\* if the caller asked for one, and the message.
Issue(k) ==
    LET c == <<life, cmdid>> IN
    /\ alive /\ ~stopped /\ cmdid < conf.quota[life]
    /\ cmdid' = cmdid + 1
    /\ cmds' = cmds \cup {c}
    /\ timers' = IF c \in Timed THEN timers \cup {c} ELSE timers
    /\ call' = [call EXCEPT ![c] = "open"]
    /\ Send(Command(c, k))
    /\ UNCHANGED <<conf, linkVars, bindVars, breaks, keepalive, lockVars, lifeVars, inbox, fate>>

BindKey(k) ==
    /\ alive /\ ~stopped /\ k \in conf.keys \ bindings
    /\ Bind(k)
    /\ UNCHANGED <<tableVars, keepalive, lockVars, lifeVars, inbox, fate>>

\* The timer of a command runs out.  (Seeded fault: MTimedOut leaves the
\* command in the table.)
MTimedOut(c) ==
    /\ c \in timers
    /\ timers' = timers \ {c}
    /\ call' = [call EXCEPT ![c] = "timedout"]
    /\ UNCHANGED <<amqpVars, cmdid, cmds, keepalive, lockVars, lifeVars, inbox, fate>>
TimedOut(c) ==
    /\ c \in timers
    /\ timers' = timers \ {c} /\ cmds' = cmds \ {c}
    /\ call' = [call EXCEPT ![c] = "timedout"]
    /\ UNCHANGED <<amqpVars, cmdid, keepalive, lockVars, lifeVars, inbox, fate>>

\* ack(): the command is found by the id in the message.
Waiting(m) == {c \in cmds : Id(c) = m.id}
ack(m) ==
    IF Waiting(m) = {}
    THEN UNCHANGED <<cmds, timers, call>>
    ELSE LET c == CHOOSE c \in Waiting(m) : TRUE IN
         /\ cmds' = cmds \ {c} /\ timers' = timers \ {c}
         /\ call' = [call EXCEPT ![c] = Outcome(m.msg)]

\* receive() of an acknowledgement: dropped unless it is well formed.
receive(m) ==
    /\ alive /\ HasQueue /\ ~broken /\ m \in inbox
    /\ inbox' = inbox \ {m}
    /\ \E sameMajor \in BOOLEAN :
          IF Received(m.msg, Fields(m.msg), sameMajor)
          THEN ack(m)
          ELSE UNCHANGED <<cmds, timers, call>>
    /\ UNCHANGED <<amqpVars, cmdid, keepalive, lockVars, lifeVars, fate>>
-----------------------------------------------------------------------------
(* The events of the connection, with what the command layer does in them. *)
idle == UNCHANGED <<tableVars, lifeVars, inbox, fate>>

LinkStep ==
    /\ alive
    /\ connSetup \/ ExchangeOpen \/ queueSetup \/ Break
        \/ (\E k \in Keys : Bound(k) \/ BindDone(k))
    /\ UNCHANGED <<keepalive, lockVars>> /\ idle

connected ==
    /\ alive /\ \E k \in Keys : Connected(k)
    /\ keepalive' = TRUE /\ retrying' = FALSE
    /\ UNCHANGED unlockTimer /\ idle

\* 'close': 'disconnected' is emitted for the first close after a connect, and
\* 'amqp-fatal' when the retries are used up.
disconnected ==
    /\ alive /\ ~GivesUp /\ connClosed
    /\ keepalive' = IF ncloses = 0 THEN FALSE ELSE keepalive
    /\ inbox' = {}
    /\ UNCHANGED <<lockVars, tableVars, lifeVars, fate>>

\* fatal(): nobody listens, and the process panics.
fatal == alive /\ conn # "none" /\ broken /\ GivesUp /\ Die

FlushFails == alive /\ FlushThrows /\ Die

Retries ==
    /\ alive /\ Retry
    /\ UNCHANGED <<keepalive, lockVars>> /\ idle

\* error() with RESOURCE_LOCKED: ping the queue, end the connection, and
\* start again in ten seconds; the second time, give up.
Locked == alive /\ conn = "queue" /\ ~broken /\ lock = "stale"
error ==
    /\ Locked /\ ~retrying
    /\ retrying' = TRUE /\ unlockTimer' = TRUE
    /\ Ends
    /\ lock' \in {"stale", "free"}
    /\ UNCHANGED <<conf, conn, ncloses, retryTimer, msgqueue, bindings, unbound,
                   awaiting, told, bound, out, breaks, keepalive>>
    /\ idle
errorAgain == Locked /\ retrying /\ Die

\* The ten seconds are over: start() asserts that the exchange is gone.
Restarts ==
    /\ alive /\ unlockTimer /\ ~HasExchange
    /\ unlockTimer' = FALSE
    /\ Connect
    /\ UNCHANGED <<conf, ncloses, retryTimer, msgqueue, bindVars, out, breaks,
                   retrying, keepalive>>
    /\ idle
AssertStart == alive /\ unlockTimer /\ HasExchange /\ Die
-----------------------------------------------------------------------------
\* stop(): the connection is ended, and every outstanding command is failed.
\* A callback may issue another command meanwhile, whose entry is then lost
\* with the table; without a connection to end, the call fails.
stop ==
    /\ alive /\ ~stopped /\ conn # "none"
    /\ stopped' = TRUE
    /\ Ends
    /\ cmds' = {}
    /\ \E late \in SUBSET {<<life, cmdid>>} :
          /\ late # {} => cmds # {} /\ cmdid < conf.quota[life]
          /\ \E k \in conf.kinds : msgqueue' = msgqueue \o SetToSeq({Command(c, k) : c \in late})
          /\ cmdid' = cmdid + Cardinality(late)
          /\ timers' = late \cap Timed
          /\ call' = [c \in Calls |-> IF c \in cmds THEN "intr"
                                      ELSE IF c \in late THEN "open" ELSE call[c]]
    /\ UNCHANGED <<conf, conn, ncloses, retryTimer, bindVars, out, breaks,
                   keepalive, lockVars, life, alive, inbox, fate>>
stopUnconnected == alive /\ ~stopped /\ conn = "none" /\ Die

\* The process crashes, or ends after stop(); its manager starts it again.
Crash == alive /\ life < Len(conf.pids) /\ Die
Exit == alive /\ stopped /\ conn = "none" /\ Die

Respawn ==
    /\ ~alive /\ life < Len(conf.pids)
    /\ life' = life + 1 /\ alive' = TRUE /\ stopped' = FALSE
    /\ cmdid' = 0 /\ inbox' = {}
    /\ conn' = "connecting"
    /\ UNCHANGED <<conf, broken, closing, ncloses, retryTimer, msgqueue, bindVars, out, breaks,
                   cmds, timers, call, keepalive, lockVars, fate>>
-----------------------------------------------------------------------------
\* The peer receives a command, carries it out or refuses it, and answers; the
\* broker drops the answer if the key is not bound.  A peer of another major
\* version drops the commands that state their version.
Peer(m) ==
    /\ m \in out
    /\ out' = out \ {m}
    /\ \E sameMajor \in BOOLEAN :
          IF Received(m.msg, Fields(m.msg), sameMajor)
          THEN \E a \in Answers(m.msg.subtype) :
                 /\ fate' = [fate EXCEPT ![m.call] = IF CarriedOut(a) THEN "done" ELSE "refused"]
                 /\ inbox' = IF Own \in bound THEN inbox \cup {Answer(m, a)} ELSE inbox
          ELSE UNCHANGED <<fate, inbox>>
    /\ UNCHANGED <<conf, linkVars, msgqueue, bindVars, breaks, tableVars, keepalive,
                   lockVars, lifeVars>>

ReapQueue ==
    /\ Reaped
    /\ UNCHANGED <<keepalive, lockVars>> /\ idle

Link == LinkStep \/ connected \/ disconnected \/ fatal \/ FlushFails \/ Retries
        \/ error \/ errorAgain \/ Restarts \/ AssertStart

Next ==
    \/ \E k \in conf.kinds : Issue(k)
    \/ \E k \in Keys : BindKey(k)
    \/ \E c \in Calls : TimedOut(c)
    \/ \E m \in inbox : receive(m)
    \/ \E m \in out : Peer(m)
    \/ Link \/ ReapQueue
    \/ stop \/ stopUnconnected \/ Crash \/ Exit \/ Respawn

\* Timers fire, and the connection makes progress while it is not lost.
Fairness ==
    /\ \A c \in Calls : WF_vars(TimedOut(c))
    /\ WF_vars(Link)

Spec == Init /\ [][Next]_vars /\ Fairness
-----------------------------------------------------------------------------
\* Types of the state, and what the assertions of the code rely on: the
\* keepalive timer runs only between 'connected' and 'disconnected', and at
\* most one timer is about to call start(), never with a connection open.
TypeOK ==
    /\ conn \in {"none", "connecting", "exchange", "queue", "binding", "up"}
    /\ conf \in Confs /\ ncloses \in Nat
    /\ bindings \subseteq Keys /\ told \subseteq bindings /\ bound \subseteq bindings
    /\ unbound \subseteq bindings /\ awaiting \subseteq bindings
    /\ lock \in {"free", "mine", "stale"}
    /\ \A m \in out \cup ToSet(msgqueue) : m.call \in Calls
    /\ cmds \subseteq {c \in Calls : c[1] = life}
    /\ keepalive => conn = "up"
    /\ retryTimer => conn = "none" /\ ~unlockTimer

\* While the connection is up, every key of which a consumer has been told
\* that it is bound is bound to the queue, whenever bind() was called: the
\* bindings survive a reconnect, and bind() may not call back too early.
BoundWhenUp == conn = "up" => told \subseteq bound

\* Until stop() is called, the table holds exactly the commands whose callback
\* has not been called, and a timer runs only for one of them.
TableExact ==
    ~stopped => /\ cmds = {c \in Calls : call[c] = "open"}
                /\ timers = cmds \cap Timed

\* Commands are carried out at most once and reported truthfully, and those
\* with a timeout end: the layer implements the specification of a command.
Abstract == INSTANCE CallSpec
RemoteCalls == Abstract!Spec

\* A lost connection is made again and what was sent meanwhile is published,
\* unless the process stops or dies.
Recovers ==
    (alive /\ (conn # "up" \/ msgqueue # <<>>))
        ~> (~alive \/ stopped \/ (conn = "up" /\ msgqueue = <<>>))
=============================================================================
