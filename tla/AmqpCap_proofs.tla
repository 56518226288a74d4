--------------------------- MODULE AmqpCap_proofs ---------------------------
(***************************************************************************)
(* Proofs about the command layer and its connection, for any keys,        *)
(* configurations, commands, disconnections and lives of the process: what *)
(* consumers were told is bound is bound whenever the connection is up,    *)
(* the table of commands is exact, and the layer implements the            *)
(* specification of a remote call (CallSpec) step by step, provided that   *)
(* no two commands print the same id.                                      *)
(***************************************************************************)
EXTENDS AmqpCap, FiniteSetTheorems, SequenceTheorems, TLAPS

-----------------------------------------------------------------------------
(* The inductive invariant.                                                *)

\* The commands that the lives of this process may issue.
Ours == {c \in Calls : c[1] \in DOMAIN conf.pids /\ c[2] < conf.quota[c[1]]}
Commands == {Command(c, k) : c \in Ours, k \in conf.kinds}
Queued == ToSet(msgqueue)

Types ==
    /\ conn \in {"none", "connecting", "exchange", "queue", "binding", "up"}
    /\ conf \in Confs /\ ncloses \in Nat /\ lock \in {"free", "mine", "stale"}
    /\ life \in DOMAIN conf.pids /\ cmdid \in Nat
    /\ cmds \subseteq Ours /\ timers \subseteq Ours
    /\ msgqueue \in Seq(Commands) /\ out \subseteq Commands
    /\ call \in [Calls -> {"none", "open", "ok", "failed", "timedout", "intr", "gone"}]
    /\ fate \in [Calls -> {"none", "done", "refused"}]

\* Nothing of the connection or of a timer outlives the process; the two
\* timers that call start() exclude each other, because the second one is
\* started only together with the end of the connection.
LinkExact ==
    /\ HasExchange => ncloses = 0
    /\ keepalive => conn = "up"
    /\ retryTimer => conn = "none" /\ ~unlockTimer
    /\ unlockTimer => closing
    /\ ~alive => conn = "none" /\ ~retryTimer /\ ~unlockTimer

\* Whatever consumers were told is bound is among the bindings, and while the
\* bindings are made again it is bound already or still to come.
KeysExact ==
    /\ bindings \subseteq Keys /\ told \subseteq bindings /\ awaiting \subseteq bindings
    /\ unbound \subseteq bindings /\ bound \subseteq bindings
    /\ conn = "binding" => told \subseteq bound \cup unbound
    /\ conn = "up" => told \subseteq bound

\* A callback that has not been called is one of this life; stop() leaves at
\* most those of commands issued in the callbacks that it calls.
CallsExact ==
    /\ \A c \in Calls : call[c] = "open" => alive /\ c[1] = life
    /\ cmds \subseteq {c \in Calls : call[c] = "open"}
    /\ timers \subseteq {c \in Calls : call[c] = "open"}
    /\ TableExact

\* Commands that are still to be issued are in no message.
Unissued(c) == c[1] > life \/ (c[1] = life /\ c[2] >= cmdid)
Fresh == \A c \in Calls : Unissued(c) => call[c] = "none" /\ fate[c] = "none"

\* A command under way has been issued and not been decided, and is under way
\* once.
UnderWay ==
    /\ \A m \in out \cup Queued : call[m.call] # "none" /\ fate[m.call] = "none"
    /\ \A m, n \in out \cup Queued : m.call = n.call => m = n
    /\ out \cap Queued = {}

\* An answer says what has become of the command whose id it carries.
Replies == \A m \in inbox :
    /\ m.call \in Ours /\ m.id = Id(m.call)
    /\ m.msg.type = "ack" /\ m.msg \in Answers(m.msg.subtype)
    /\ fate[m.call] = IF CarriedOut(m.msg) THEN "done" ELSE "refused"

IInv == /\ Types /\ LinkExact /\ KeysExact /\ CallsExact
        /\ Fresh /\ UnderWay /\ Replies
-----------------------------------------------------------------------------
(* Sequences, sets and the configuration.                                  *)

LEMMA ToSetEmpty == ToSet(<<>>) = {}
BY DEF ToSet

LEMMA ToSetAppend ==
    ASSUME NEW S, NEW s \in Seq(S), NEW e \in S
    PROVE  Append(s, e) \in Seq(S) /\ ToSet(Append(s, e)) = ToSet(s) \cup {e}
<1>1. /\ Append(s, e) \in Seq(S) /\ Len(Append(s, e)) = Len(s) + 1
      /\ \A i \in 1 .. Len(s) : Append(s, e)[i] = s[i]
      /\ Append(s, e)[Len(s) + 1] = e
  OBVIOUS
<1>2. ASSUME NEW x \in ToSet(Append(s, e)) PROVE x \in ToSet(s) \cup {e}
  BY <1>1, <1>2 DEF ToSet
<1>3. ASSUME NEW x \in ToSet(s) \cup {e} PROVE x \in ToSet(Append(s, e))
  BY <1>1, <1>3 DEF ToSet
<1>. QED BY <1>1, <1>2, <1>3

LEMMA ToSetReverse == ASSUME NEW S, NEW s \in Seq(S) PROVE ToSet(Reverse(s)) = ToSet(s)
<1>1. Len(s) \in Nat /\ DOMAIN s = 1 .. Len(s) /\ DOMAIN Reverse(s) = 1 .. Len(s)
  BY DEF Reverse
<1>2. \A i \in 1 .. Len(s) : Reverse(s)[i] = s[Len(s) - i + 1]
  BY DEF Reverse
<1>3. ASSUME NEW i \in 1 .. Len(s)
      PROVE /\ Len(s) - i + 1 \in 1 .. Len(s)
            /\ Reverse(s)[Len(s) - i + 1] = s[i]
  <2>1. Len(s) - i + 1 \in 1 .. Len(s) /\ Len(s) - (Len(s) - i + 1) + 1 = i
    BY <1>1
  <2>. QED BY <1>2, <2>1
<1>4. ASSUME NEW x \in ToSet(s) PROVE x \in ToSet(Reverse(s))
  <2>1. PICK i \in 1 .. Len(s) : x = s[i]
    BY <1>1 DEF ToSet
  <2>. QED BY <1>1, <1>3, <2>1 DEF ToSet
<1>5. ASSUME NEW x \in ToSet(Reverse(s)) PROVE x \in ToSet(s)
  <2>1. PICK i \in 1 .. Len(s) : x = Reverse(s)[i]
    BY <1>1 DEF ToSet
  <2>. QED BY <1>1, <1>2, <1>3, <2>1 DEF ToSet
<1>. QED BY <1>4, <1>5

LEMMA ToSetIn == ASSUME NEW S, NEW s \in Seq(S) PROVE ToSet(s) \subseteq S
BY DEF ToSet

\* What stop() adds to the queue: no command, or one.
LEMMA NoneInSeq == SetToSeq({}) = <<>>
<1>1. Cardinality({}) = 0
  BY FS_EmptySet
<1>2. [i \in 1 .. 0 |-> {}] \in [1 .. Cardinality({}) -> {}]
      /\ IsInjective([i \in 1 .. 0 |-> {}])
  BY <1>1 DEF IsInjective
<1>3. SetToSeq({}) \in [1 .. 0 -> {}]
  BY <1>1, <1>2 DEF SetToSeq
<1>. QED BY <1>3

LEMMA OneInSeq == ASSUME NEW x PROVE SetToSeq({x}) = <<x>>
<1>1. Cardinality({x}) = 1
  BY FS_Singleton
<1>2. [i \in 1 .. 1 |-> x] \in [1 .. Cardinality({x}) -> {x}]
      /\ IsInjective([i \in 1 .. 1 |-> x])
  BY <1>1 DEF IsInjective
<1>3. SetToSeq({x}) \in [1 .. 1 -> {x}]
  BY <1>1, <1>2 DEF SetToSeq
<1>4. ASSUME NEW f \in [1 .. 1 -> {x}] PROVE f = <<x>>
  OBVIOUS
<1>. QED BY <1>3, <1>4

LEMMA Configured ==
    ASSUME conf \in Confs
    PROVE  /\ conf.pids \in Seq(Nat) /\ conf.pids # <<>> /\ DOMAIN conf.pids = 1 .. Len(conf.pids)
           /\ 1 \in DOMAIN conf.pids /\ Len(conf.pids) \in Nat
           /\ \A l \in DOMAIN conf.pids : conf.quota[l] \in Nat
           /\ conf.kinds \subseteq Direct \cup Checked
           /\ conf.keys \subseteq Keys
BY LivesAreListed

LEMMA NextIsOurs ==
    ASSUME conf \in Confs, life \in DOMAIN conf.pids, cmdid \in Nat, cmdid < conf.quota[life]
    PROVE  <<life, cmdid>> \in Ours
<1>1. conf.quota[life] \in Nat
  BY Configured
<1>2. cmdid \in 0 .. conf.quota[life] - 1
  BY <1>1
<1>3. <<life, cmdid>> \in UNION {{l} \X (0 .. conf.quota[l] - 1) : l \in DOMAIN conf.pids}
  BY <1>2
<1>4. <<life, cmdid>> \in Calls
  BY <1>3 DEF Calls
<1>. QED BY <1>4 DEF Ours

LEMMA CallsArePairs == \A c \in Calls : c = <<c[1], c[2]>> /\ c[1] \in Nat /\ c[2] \in Nat
<1>1. SUFFICES ASSUME NEW c \in Calls PROVE c = <<c[1], c[2]>> /\ c[1] \in Nat /\ c[2] \in Nat
  OBVIOUS
<1>2. PICK cf \in Confs : c \in UNION {{l} \X (0 .. cf.quota[l] - 1) : l \in DOMAIN cf.pids}
  BY DEF Calls
<1>3. PICK l \in DOMAIN cf.pids : c \in {l} \X (0 .. cf.quota[l] - 1)
  BY <1>2
<1>4. l \in Nat /\ cf.quota[l] \in Nat
  BY LivesAreListed
<1>. QED BY <1>3, <1>4

LEMMA SameConf ==
    ASSUME conf' = conf
    PROVE  Ours' = Ours /\ Commands' = Commands /\ \A c \in Ours : Id(c)' = Id(c)
BY DEF Ours, Commands, Command, Id

LEMMA CommandParts ==
    ASSUME NEW m \in Commands
    PROVE  /\ m.call \in Ours /\ m.call \in Calls /\ m.id = Id(m.call)
           /\ \E k \in conf.kinds : m.msg = Cmd(k) /\ m = Command(m.call, k)
BY DEF Commands, Command, Ours

-----------------------------------------------------------------------------
(* The initial states, and the end of the process.                         *)

LEMMA InitHolds == Init => IInv
<1>. SUFFICES ASSUME Init PROVE IInv
  OBVIOUS
<1>. USE DEF Init, AmqpInit
<1>1. Types
  BY Configured DEF Types
<1>2. LinkExact
  BY DEF LinkExact, HasExchange
<1>3. KeysExact
  BY OwnIsKey DEF KeysExact
<1>4. CallsExact
  BY DEF CallsExact, TableExact
<1>5. Fresh
  BY DEF Fresh
<1>6. UnderWay
  BY ToSetEmpty DEF UnderWay, Queued
<1>7. Replies
  BY DEF Replies
<1>. QED BY <1>1, <1>2, <1>3, <1>4, <1>5, <1>6, <1>7 DEF IInv

LEMMA Dies == ASSUME IInv, Die PROVE IInv'
<1>. USE DEF Die, Vanish, IInv
<1>0. conf' = conf /\ Ours' = Ours /\ Commands' = Commands /\ \A c \in Ours : Id(c)' = Id(c)
  BY SameConf
<1>1. Types'
  BY <1>0 DEF Types
<1>2. LinkExact'
  BY DEF LinkExact, HasExchange
<1>3. KeysExact'
  BY OwnIsKey DEF KeysExact
<1>4. CallsExact'
  BY DEF CallsExact, TableExact, Types
<1>5. Fresh'
  BY DEF Fresh, Types, Unissued
<1>6. UnderWay'
  <2>1. Queued' = {} /\ out' \subseteq out
    BY ToSetEmpty DEF Queued
  <2>2. \A m \in out : m.call \in Calls
    BY CommandParts DEF Types
  <2>. QED BY <2>1, <2>2 DEF UnderWay, Types
<1>7. Replies'
  BY <1>0 DEF Replies
<1>. QED BY <1>1, <1>2, <1>3, <1>4, <1>5, <1>6, <1>7

-----------------------------------------------------------------------------
(* Commands, their timers and their answers.                               *)

LEMMA IssueHolds == ASSUME IInv, NEW k \in conf.kinds, Issue(k) PROVE IInv'
<1> DEFINE c == <<life, cmdid>>
           m == Command(c, k)
<1>. USE DEF Issue, IInv
<1>0. conf' = conf /\ Ours' = Ours /\ Commands' = Commands /\ \A d \in Ours : Id(d)' = Id(d)
  BY SameConf
<1>1. c \in Ours /\ c \in Calls /\ Unissued(c) /\ c[1] = life /\ c[2] = cmdid
  BY NextIsOurs DEF Types, Unissued, Ours
<1>2. m \in Commands /\ m.call = c
  BY <1>1 DEF Commands, Command
<1>3. call[c] = "none" /\ fate[c] = "none"
  BY <1>1 DEF Fresh
<1>4. /\ msgqueue' \in Seq(Commands) /\ out' \subseteq Commands
      /\ out' \cup Queued' = (out \cup Queued) \cup {m}
      /\ out' \cap Queued' \subseteq (out \cap Queued) \cup ({m} \cap (out \cup Queued))
  <2>1. CASE Writable
    BY <1>2, <2>1 DEF Send, Queued, Types
  <2>2. CASE ~Writable
    <3>1. msgqueue' = Append(msgqueue, m) /\ out' = out
      BY <2>2 DEF Send
    <3>2. msgqueue \in Seq(Commands) /\ m \in Commands
      BY <1>2 DEF Types
    <3>3. Append(msgqueue, m) \in Seq(Commands)
          /\ ToSet(Append(msgqueue, m)) = ToSet(msgqueue) \cup {m}
      <4>. HIDE DEF m, Issue, IInv
      <4>. QED BY <3>2, ToSetAppend
    <3>4. msgqueue' \in Seq(Commands) /\ Queued' = Queued \cup {m}
      BY <3>1, <3>3 DEF Queued
    <3>. QED BY <3>1, <3>4 DEF Types
  <2>. QED BY <2>1, <2>2
<1>5. Types'
  <2>1. call' \in [Calls -> {"none", "open", "ok", "failed", "timedout", "intr", "gone"}]
    BY <1>1 DEF Types
  <2>2. cmds' \subseteq Ours' /\ timers' \subseteq Ours' /\ cmdid' \in Nat
    <3>1. cmds \subseteq Ours /\ timers \subseteq Ours /\ cmdid \in Nat
      BY DEF Types
    <3>0. cmds' = cmds \cup {c} /\ timers' \subseteq timers \cup {c} /\ cmdid' = cmdid + 1
      OBVIOUS
    <3> HIDE DEF m, Issue, IInv
    <3>2. cmds' \subseteq Ours'
      BY <1>0, <1>1, <3>0, <3>1
    <3>3. timers' \subseteq Ours'
      BY <1>0, <1>1, <3>0, <3>1
    <3>4. cmdid' \in Nat
      BY <1>0, <1>1, <3>0, <3>1
    <3> QED BY <3>2, <3>3, <3>4
  <2>3. msgqueue' \in Seq(Commands') /\ out' \subseteq Commands'
    BY <1>0, <1>4
  <2>4. UNCHANGED <<conn, conf, ncloses, lock, life, fate>>
    BY DEF linkVars, bindVars, lifeVars
  <2>. HIDE DEF m, c, Issue
  <2>. QED BY <2>1, <2>2, <2>3, <2>4 DEF Types
<1>6. LinkExact'
  BY DEF LinkExact, HasExchange, linkVars, lockVars, lifeVars
<1>7. KeysExact'
  BY DEF KeysExact, linkVars, bindVars
<1>8. CallsExact'
  BY <1>1 DEF CallsExact, TableExact, Types, lifeVars
<1>9. Fresh'
  <2>1. ASSUME NEW d \in Calls, Unissued(d)' PROVE Unissued(d) /\ d # c
    BY <1>1, <2>1, CallsArePairs DEF Unissued, lifeVars, Types
  <2>. QED BY <1>1, <2>1 DEF Fresh, Types
<1>10. UnderWay'
  <2>1. \A n \in out \cup Queued : n.call \in Calls /\ n.call # c
    BY <1>3, <1>1, CommandParts, ToSetIn DEF UnderWay, Types, Queued
  <2>2. m \notin out \cup Queued
    BY <1>2, <2>1
  <2>3. fate' = fate /\ call'[c] = "open"
        /\ \A n \in out \cup Queued : call'[n.call] = call[n.call]
    BY <1>1, <2>1 DEF Types
  <2>. HIDE DEF m, c, Issue
  <2>4. \A n \in out' \cup Queued' : call'[n.call] # "none" /\ fate'[n.call] = "none"
    BY <1>2, <1>3, <1>4, <2>3 DEF UnderWay
  <2>5. \A n, o \in out' \cup Queued' : n.call = o.call => n = o
    BY <1>2, <1>4, <2>1 DEF UnderWay
  <2>6. out' \cap Queued' = {}
    BY <1>4, <2>2 DEF UnderWay
  <2>. QED BY <2>4, <2>5, <2>6 DEF UnderWay
<1>11. Replies'
  BY <1>0 DEF Replies
<1>. QED BY <1>5, <1>6, <1>7, <1>8, <1>9, <1>10, <1>11

LEMMA TimedOutHolds == ASSUME IInv, NEW c \in Calls, TimedOut(c) PROVE IInv'
<1>. USE DEF TimedOut, IInv, amqpVars, linkVars, bindVars, lockVars, lifeVars
<1>0. conf' = conf /\ Ours' = Ours /\ Commands' = Commands /\ \A d \in Ours : Id(d)' = Id(d)
  BY SameConf
<1>1. call[c] = "open"
  BY DEF CallsExact
<1>2. Types'
  BY <1>0 DEF Types
<1>3. LinkExact'
  BY DEF LinkExact, HasExchange
<1>4. KeysExact'
  BY DEF KeysExact
<1>5. CallsExact'
  BY <1>1 DEF CallsExact, TableExact, Types
<1>6. Fresh'
  BY <1>1 DEF Fresh, Unissued, Types
<1>7. UnderWay'
  BY <1>1, CommandParts, ToSetIn DEF UnderWay, Queued, Types
<1>8. Replies'
  BY <1>0 DEF Replies
<1>. QED BY <1>2, <1>3, <1>4, <1>5, <1>6, <1>7, <1>8

LEMMA ReceiveHolds == ASSUME IInv, NEW m \in inbox, receive(m) PROVE IInv'
<1>. USE DEF receive, IInv, amqpVars, linkVars, bindVars, lockVars, lifeVars
<1>0. conf' = conf /\ Ours' = Ours /\ Commands' = Commands /\ \A d \in Ours : Id(d)' = Id(d)
  BY SameConf
<1>1. \/ UNCHANGED <<cmds, timers, call>>
      \/ \E c \in cmds : /\ cmds' = cmds \ {c} /\ timers' = timers \ {c}
                         /\ call' = [call EXCEPT ![c] = Outcome(m.msg)]
  BY DEF ack, Waiting
<1>2. CASE UNCHANGED <<cmds, timers, call>>
  <2>1. Types' /\ LinkExact' /\ KeysExact'
    BY <1>0, <1>2 DEF Types, LinkExact, HasExchange, KeysExact
  <2>2. CallsExact' /\ Fresh' /\ UnderWay'
    BY <1>2 DEF CallsExact, TableExact, Fresh, Unissued, UnderWay, Queued
  <2>3. Replies'
    BY <1>0 DEF Replies
  <2>. QED BY <2>1, <2>2, <2>3
<1>3. ASSUME NEW c \in cmds, cmds' = cmds \ {c}, timers' = timers \ {c},
             call' = [call EXCEPT ![c] = Outcome(m.msg)]
      PROVE  IInv'
  <2>1. call[c] = "open" /\ c \in Calls /\ Outcome(m.msg) \in {"ok", "failed"}
    BY DEF CallsExact, Types, Outcome
  <2>2. Types'
    BY <1>0, <1>3, <2>1 DEF Types
  <2>3. LinkExact'
    BY DEF LinkExact, HasExchange
  <2>4. KeysExact'
    BY DEF KeysExact
  <2>5. CallsExact'
    BY <1>3, <2>1 DEF CallsExact, TableExact, Types
  <2>6. Fresh'
    BY <1>3, <2>1 DEF Fresh, Unissued, Types
  <2>7. UnderWay'
    BY <1>3, <2>1, CommandParts, ToSetIn DEF UnderWay, Queued, Types
  <2>8. Replies'
    BY <1>0 DEF Replies
  <2>. QED BY <2>2, <2>3, <2>4, <2>5, <2>6, <2>7, <2>8
<1>. QED BY <1>1, <1>2, <1>3

LEMMA PeerHolds == ASSUME IInv, NEW m \in out, Peer(m) PROVE IInv'
<1>. USE DEF Peer, IInv, linkVars, bindVars, lockVars, lifeVars, tableVars
<1>0. conf' = conf /\ Ours' = Ours /\ Commands' = Commands /\ \A d \in Ours : Id(d)' = Id(d)
  BY SameConf
<1>1. m.call \in Ours /\ m.call \in Calls /\ m.id = Id(m.call)
  BY CommandParts DEF Types
<1>2. \A n \in out \cup Queued : n.call \in Calls
  BY CommandParts, ToSetIn DEF Types, Queued
<1>3. call[m.call] # "none" /\ fate[m.call] = "none" /\ m \notin Queued
      /\ \A n \in out \cup Queued : n.call = m.call => n = m
  BY DEF UnderWay
<1>4. \/ UNCHANGED <<fate, inbox>>
      \/ \E a \in Answers(m.msg.subtype) :
            /\ fate' = [fate EXCEPT ![m.call] = IF CarriedOut(a) THEN "done" ELSE "refused"]
            /\ inbox' = IF Own \in bound THEN inbox \cup {Answer(m, a)} ELSE inbox
  OBVIOUS
<1>5. LinkExact' /\ KeysExact' /\ CallsExact'
  BY DEF LinkExact, HasExchange, KeysExact, CallsExact, TableExact
<1>6. CASE UNCHANGED <<fate, inbox>>
  <2>1. Types'
    BY <1>0, <1>6 DEF Types
  <2>2. Fresh' /\ UnderWay'
    BY <1>6 DEF Fresh, Unissued, UnderWay, Queued
  <2>3. Replies'
    BY <1>0, <1>6 DEF Replies
  <2>. QED BY <1>5, <2>1, <2>2, <2>3
<1>7. ASSUME NEW a \in Answers(m.msg.subtype),
             fate' = [fate EXCEPT ![m.call] = IF CarriedOut(a) THEN "done" ELSE "refused"],
             inbox' = IF Own \in bound THEN inbox \cup {Answer(m, a)} ELSE inbox
      PROVE  IInv'
  <2>1. Types'
    BY <1>0, <1>7, <1>1 DEF Types
  <2>2. Fresh'
    BY <1>3, <1>7, <1>1 DEF Fresh, Unissued, Types
  <2>3. UnderWay'
    BY <1>1, <1>2, <1>3, <1>7 DEF UnderWay, Queued, Types
  <2>4. Replies'
    <3>1. ASSUME NEW n \in inbox PROVE n.call # m.call
      BY <1>3, <3>1 DEF Replies
    <3>2. a.type = "ack" /\ a.subtype = m.msg.subtype
      BY DEF Answers
    <3>3. a \in Answers(a.subtype)
      BY <3>2 DEF Answers
    <3>4. fate'[m.call] = IF CarriedOut(a) THEN "done" ELSE "refused"
      BY <1>7, <1>1 DEF Types
    <3>5. \A n \in inbox : n.call \in Calls /\ fate'[n.call] = fate[n.call]
      BY <1>7, <1>1, <3>1 DEF Types, Replies, Ours
    <3>6. LET n == Answer(m, a) IN n.call = m.call /\ n.id = m.id /\ n.msg = a
      BY DEF Answer
    <3>. QED BY <1>0, <1>1, <1>7, <3>2, <3>3, <3>4, <3>5, <3>6 DEF Replies
  <2>. QED BY <1>5, <2>1, <2>2, <2>3, <2>4
<1>. QED BY <1>4, <1>6, <1>7

-----------------------------------------------------------------------------
(* The connection.                                                         *)

\* What concerns commands is unchanged, or messages were lost or sent.
Moved == /\ UNCHANGED <<conf, tableVars, lifeVars, fate>>
         /\ inbox' \subseteq inbox
         /\ \/ msgqueue' = msgqueue /\ out' \subseteq out
            \/ msgqueue' = <<>> /\ out' = out \cup Queued

LEMMA MovedHolds ==
    ASSUME IInv, Moved, LinkExact', KeysExact', lock' \in {"free", "mine", "stale"},
           conn' \in {"none", "connecting", "exchange", "queue", "binding", "up"},
           ncloses' \in Nat
    PROVE  IInv'
<1>. USE DEF Moved, IInv, tableVars, lifeVars
<1>0. conf' = conf /\ Ours' = Ours /\ Commands' = Commands /\ \A d \in Ours : Id(d)' = Id(d)
  BY SameConf
<1>1. /\ out' \cup Queued' \subseteq out \cup Queued
      /\ out' \cap Queued' = {}
      /\ msgqueue' \in Seq(Commands) /\ out' \subseteq Commands
  <2>1. CASE msgqueue' = msgqueue /\ out' \subseteq out
    BY <2>1 DEF Queued, UnderWay, Types
  <2>2. CASE msgqueue' = <<>> /\ out' = out \cup Queued
    BY <2>2, ToSetEmpty, ToSetIn DEF Queued, Types
  <2>. QED BY <2>1, <2>2
<1>2. Types'
  BY <1>0, <1>1 DEF Types
<1>3. CallsExact' /\ Fresh'
  BY DEF CallsExact, TableExact, Fresh, Unissued
<1>4. UnderWay'
  BY <1>1 DEF UnderWay
<1>5. Replies'
  BY <1>0 DEF Replies
<1>. QED BY <1>2, <1>3, <1>4, <1>5

LEMMA LinkStepHolds == ASSUME IInv, LinkStep PROVE IInv'
<1>. USE DEF LinkStep, IInv, idle, lockVars, lifeVars, tableVars, linkVars, bindVars
<1>1. CASE connSetup
  <2>. USE <1>1 DEF connSetup
  <2>1. Moved
    BY DEF Moved
  <2>2. LinkExact' /\ KeysExact'
    BY DEF LinkExact, HasExchange, KeysExact
  <2>. QED BY <2>1, <2>2, MovedHolds DEF Types
<1>2. CASE ExchangeOpen
  <2>. USE <1>2 DEF ExchangeOpen
  <2>1. Moved
    BY DEF Moved
  <2>2. LinkExact' /\ KeysExact'
    BY DEF LinkExact, HasExchange, KeysExact
  <2>. QED BY <2>1, <2>2, MovedHolds DEF Types
<1>3. CASE queueSetup
  <2>. USE <1>3 DEF queueSetup
  <2>1. Moved
    BY DEF Moved
  <2>2. LinkExact' /\ KeysExact'
    BY DEF LinkExact, HasExchange, KeysExact
  <2>. QED BY <2>1, <2>2, MovedHolds DEF Types
<1>4. CASE Break
  <2>. USE <1>4 DEF Break
  <2>1. Moved
    BY DEF Moved
  <2>2. LinkExact' /\ KeysExact'
    BY DEF LinkExact, HasExchange, KeysExact
  <2>. QED BY <2>1, <2>2, MovedHolds DEF Types
<1>5. ASSUME NEW k \in Keys, Bound(k) PROVE IInv'
  <2>. USE <1>5 DEF Bound
  <2>1. Moved
    BY DEF Moved
  <2>2. LinkExact' /\ KeysExact'
    BY DEF LinkExact, HasExchange, KeysExact
  <2>. QED BY <2>1, <2>2, MovedHolds DEF Types
<1>6. ASSUME NEW k \in Keys, BindDone(k) PROVE IInv'
  <2>. USE <1>6 DEF BindDone
  <2>1. Moved
    BY DEF Moved
  <2>2. LinkExact' /\ KeysExact'
    BY DEF LinkExact, HasExchange, KeysExact
  <2>. QED BY <2>1, <2>2, MovedHolds DEF Types
<1>. QED BY <1>1, <1>2, <1>3, <1>4, <1>5, <1>6

\* flush() publishes everything that waits, and the last binding is made.
LEMMA ConnectedHolds == ASSUME IInv, connected PROVE IInv'
<1>. USE DEF connected, IInv, idle, lockVars, lifeVars, tableVars, linkVars, bindVars
<1>1. PICK k \in Keys : Connected(k)
  OBVIOUS
<1>2. Moved
  <2>1. msgqueue \in Seq(Commands)
    BY DEF Types
  <2>2. out' = out \cup Queued /\ msgqueue' = <<>>
    BY <1>1, <2>1, ToSetReverse DEF Connected, flush, Queued
  <2>. QED BY <1>1, <2>2 DEF Moved, Connected
<1>3. LinkExact'
  BY <1>1 DEF Connected, LinkExact, HasExchange
<1>4. KeysExact'
  BY <1>1 DEF Connected, KeysExact
<1>. QED BY <1>1, <1>2, <1>3, <1>4, MovedHolds DEF Types, Connected

LEMMA DisconnectedHolds == ASSUME IInv, disconnected PROVE IInv'
<1>. USE DEF disconnected, connClosed, IInv, lockVars, lifeVars, tableVars
<1>1. Moved
  BY DEF Moved
<1>2. LinkExact'
  BY DEF LinkExact, HasExchange, Types
<1>3. KeysExact'
  BY DEF KeysExact
<1>. QED BY <1>1, <1>2, <1>3, MovedHolds DEF Types

LEMMA TimersHold == ASSUME IInv, Retries \/ error \/ Restarts \/ ReapQueue PROVE IInv'
<1>. USE DEF IInv, idle, lockVars, lifeVars, tableVars, linkVars, bindVars
<1>1. CASE Retries
  <2>. USE <1>1 DEF Retries, Retry, Connect
  <2>1. Moved
    BY DEF Moved
  <2>2. LinkExact' /\ KeysExact'
    BY DEF LinkExact, HasExchange, KeysExact
  <2>. QED BY <2>1, <2>2, MovedHolds DEF Types
<1>2. CASE error
  <2>. USE <1>2 DEF error, Locked, Ends
  <2>1. Moved
    BY DEF Moved
  <2>2. LinkExact' /\ KeysExact'
    BY DEF LinkExact, HasExchange, KeysExact
  <2>. QED BY <2>1, <2>2, MovedHolds DEF Types
<1>3. CASE Restarts
  <2>. USE <1>3 DEF Restarts, Connect
  <2>1. Moved
    BY DEF Moved
  <2>2. LinkExact' /\ KeysExact'
    BY DEF LinkExact, HasExchange, KeysExact
  <2>. QED BY <2>1, <2>2, MovedHolds DEF Types
<1>4. CASE ReapQueue
  <2>. USE <1>4 DEF ReapQueue, Reaped
  <2>1. Moved
    BY DEF Moved
  <2>2. LinkExact' /\ KeysExact'
    BY DEF LinkExact, HasExchange, KeysExact
  <2>. QED BY <2>1, <2>2, MovedHolds DEF Types
<1>. QED BY <1>1, <1>2, <1>3, <1>4

LEMMA BindKeyHolds == ASSUME IInv, NEW k \in Keys, BindKey(k) PROVE IInv'
<1>. USE DEF BindKey, Bind, IInv, lockVars, lifeVars, tableVars, linkVars
<1>1. Moved
  BY DEF Moved
<1>2. LinkExact'
  BY DEF LinkExact, HasExchange
<1>3. KeysExact'
  BY DEF KeysExact, HasQueue, Types
<1>. QED BY <1>1, <1>2, <1>3, MovedHolds DEF Types

-----------------------------------------------------------------------------
(* stop() and the next life.                                               *)

\* What stop() does to commands, when its callbacks issue those in late.
Stopping(late, k) ==
    /\ late \in {{}, {<<life, cmdid>>}}
    /\ late # {} => cmds # {} /\ cmdid < conf.quota[life]
    /\ k \in conf.kinds
    /\ msgqueue' = msgqueue \o SetToSeq({Command(c, k) : c \in late})
    /\ cmdid' = cmdid + Cardinality(late)
    /\ timers' = late \cap Timed
    /\ call' = [c \in Calls |-> IF c \in cmds THEN "intr"
                                ELSE IF c \in late THEN "open" ELSE call[c]]

LEMMA StopCases == ASSUME stop PROVE \E late \in SUBSET {<<life, cmdid>>}, k \in conf.kinds : Stopping(late, k)
<1>1. PICK late \in SUBSET {<<life, cmdid>>} :
          /\ late # {} => cmds # {} /\ cmdid < conf.quota[life]
          /\ \E k \in conf.kinds : msgqueue' = msgqueue \o SetToSeq({Command(c, k) : c \in late})
          /\ cmdid' = cmdid + Cardinality(late)
          /\ timers' = late \cap Timed
          /\ call' = [c \in Calls |-> IF c \in cmds THEN "intr"
                                      ELSE IF c \in late THEN "open" ELSE call[c]]
  BY Zenon DEF stop
<1>2. PICK k \in conf.kinds : msgqueue' = msgqueue \o SetToSeq({Command(c, k) : c \in late})
  BY <1>1
<1>3. late \in {{}, {<<life, cmdid>>}}
  OBVIOUS
<1>4. Stopping(late, k)
  BY <1>1, <1>2, <1>3, Zenon DEF Stopping
<1>. QED BY <1>4

LEMMA StopHolds == ASSUME IInv, stop PROVE IInv'
<1>1. PICK late, k : Stopping(late, k)
  BY StopCases
<1>. DEFINE c == <<life, cmdid>>
            M == {Command(d, k) : d \in late}
<1>2. /\ alive /\ stopped' /\ closing' = TRUE /\ cmds' = {}
      /\ UNCHANGED <<conf, conn, ncloses, retryTimer, bindVars, out, breaks,
                     keepalive, lockVars, life, alive, inbox, fate>>
  BY DEF stop, Ends
<1>0. conf' = conf /\ Ours' = Ours /\ Commands' = Commands /\ \A d \in Ours : Id(d)' = Id(d)
  BY <1>2, SameConf
<1>3. /\ late \subseteq Ours /\ late \subseteq Calls /\ cmdid' \in Nat /\ cmdid' >= cmdid
      /\ \A d \in late : Unissued(d) /\ d = c /\ cmdid' = cmdid + 1
  <2>1. CASE late = {}
    BY <1>1, <2>1, FS_EmptySet DEF Stopping, IInv, Types
  <2>2. CASE late = {c}
    <3>1. c \in Ours
      BY <1>1, <2>2, NextIsOurs DEF Stopping, IInv, Types
    <3>2. Cardinality(late) = 1
      BY <2>2, FS_Singleton
    <3>3. Unissued(c)
      BY DEF Unissued, IInv, Types
    <3>. QED BY <1>1, <2>2, <3>1, <3>2, <3>3 DEF Stopping, Ours, IInv, Types
  <2>. QED BY <1>1, <2>1, <2>2 DEF Stopping
<1>4. \A d \in late : call[d] = "none" /\ fate[d] = "none"
  BY <1>3 DEF IInv, Fresh
<1>5. M \subseteq Commands /\ M \in {{}, {Command(c, k)}} /\ \A m \in M : m.call \in late
  <2>1. k \in conf.kinds /\ late \in {{}, {c}}
    BY <1>1 DEF Stopping
  <2>2. \A d \in late : Command(d, k) \in Commands
    BY <1>3, <2>1 DEF Commands
  <2>3. \A d : Command(d, k).call = d
    BY DEF Command
  <2>. QED BY <2>1, <2>2, <2>3
<1>6. msgqueue' \in Seq(Commands) /\ Queued' = Queued \cup M
  <2>1. msgqueue \in Seq(Commands)
    BY DEF IInv, Types
  <2>2. msgqueue' = msgqueue \o SetToSeq(M)
    BY <1>1 DEF Stopping
  <2>. DEFINE m == Command(c, k)
  <2>. HIDE DEF M, m, c
  <2>3. CASE M = {}
    <3>1. msgqueue' = msgqueue
      BY <2>1, <2>2, <2>3, NoneInSeq, ConcatEmptySeq
    <3>. QED BY <2>1, <2>3, <3>1 DEF Queued
  <2>4. CASE M = {m}
    <3>1. m \in Commands
      BY <1>5, <2>4
    <3>2. msgqueue' = msgqueue \o <<m>>
      BY <2>2, <2>4, OneInSeq
    <3>3. msgqueue' = Append(msgqueue, m)
      BY <2>1, <3>1, <3>2, AppendIsConcat
    <3>4. Append(msgqueue, m) \in Seq(Commands)
          /\ ToSet(Append(msgqueue, m)) = ToSet(msgqueue) \cup {m}
      BY <2>1, <3>1, ToSetAppend
    <3>. QED BY <2>4, <3>3, <3>4 DEF Queued
  <2>. QED BY <1>5, <2>3, <2>4 DEF m
<1>7. call' \in [Calls -> {"none", "open", "ok", "failed", "timedout", "intr", "gone"}]
      /\ \A d \in Calls : call'[d] = IF d \in cmds THEN "intr" ELSE IF d \in late THEN "open" ELSE call[d]
  BY <1>1 DEF Stopping, IInv, Types
<1>8. \A d \in cmds : d \in Calls /\ call[d] = "open" /\ fate[d] = fate'[d]
  BY <1>2 DEF IInv, CallsExact
<1>. HIDE DEF M
<1>9. Types'
  <2>1. timers' \subseteq Ours
    BY <1>1, <1>3 DEF Stopping
  <2>. QED BY <1>0, <1>2, <1>3, <1>6, <1>7, <2>1 DEF IInv, Types, bindVars
<1>10. LinkExact' /\ KeysExact'
  BY <1>2 DEF IInv, LinkExact, KeysExact, HasExchange, bindVars, lockVars
<1>11. CallsExact'
  <2>1. \A d \in Calls : call'[d] = "open" => alive' /\ d[1] = life'
    BY <1>2, <1>3, <1>7 DEF IInv, CallsExact
  <2>2. timers' \subseteq {d \in Calls : call'[d] = "open"}
    BY <1>1, <1>3, <1>4, <1>7, <1>8 DEF Stopping
  <2>. QED BY <1>2, <2>1, <2>2 DEF CallsExact, TableExact
<1>12. Fresh'
  <2>1. ASSUME NEW d \in Calls, Unissued(d)'
        PROVE  Unissued(d) /\ d \notin late /\ d \notin cmds
    <3>1. d[1] \in Nat /\ d[2] \in Nat /\ life \in Nat /\ cmdid \in Nat
      BY CallsArePairs, Configured DEF IInv, Types
    <3>2. d[1] > life \/ (d[1] = life /\ d[2] >= cmdid')
      BY <1>2, <2>1 DEF Unissued
    <3>3. Unissued(d)
      BY <1>3, <3>1, <3>2 DEF Unissued
    <3>4. d \notin late
      BY <1>3, <3>1, <3>2
    <3>. QED BY <1>8, <3>3, <3>4 DEF IInv, Fresh
  <2>. QED BY <1>2, <1>7, <2>1 DEF IInv, Fresh
<1>13. UnderWay'
  <2>1. \A m \in out \cup Queued : m.call \in Calls /\ m.call \notin late /\ m \notin M
    BY <1>4, <1>5, CommandParts, ToSetIn DEF IInv, Types, UnderWay, Queued
  <2>2. \A m \in out' \cup Queued' : call'[m.call] # "none" /\ fate'[m.call] = "none"
    BY <1>2, <1>3, <1>4, <1>5, <1>6, <1>7, <2>1 DEF IInv, UnderWay
  <2>3. \A m, n \in out' \cup Queued' : m.call = n.call => m = n
    BY <1>2, <1>5, <1>6, <2>1 DEF IInv, UnderWay
  <2>4. out' \cap Queued' = {}
    BY <1>2, <1>6, <2>1 DEF IInv, UnderWay
  <2>. QED BY <2>2, <2>3, <2>4 DEF UnderWay
<1>14. Replies'
  BY <1>0, <1>2 DEF IInv, Replies
<1>. QED BY <1>9, <1>10, <1>11, <1>12, <1>13, <1>14 DEF IInv

LEMMA RespawnHolds == ASSUME IInv, Respawn PROVE IInv'
<1>. USE DEF Respawn, IInv, bindVars, lockVars
<1>0. conf' = conf /\ Ours' = Ours /\ Commands' = Commands /\ \A d \in Ours : Id(d)' = Id(d)
  BY SameConf
<1>1. life \in Nat /\ life + 1 \in DOMAIN conf.pids
  BY Configured DEF Types
<1>2. Types'
  BY <1>0, <1>1 DEF Types
<1>3. LinkExact' /\ KeysExact'
  BY DEF LinkExact, KeysExact, HasExchange
<1>4. CallsExact'
  BY DEF CallsExact, TableExact, Types
<1>5. Fresh'
  <2>1. ASSUME NEW d \in Calls, Unissued(d)' PROVE Unissued(d)
    BY <1>1, <2>1, CallsArePairs DEF Unissued
  <2>. QED BY <2>1 DEF Fresh
<1>6. UnderWay'
  BY DEF UnderWay, Queued
<1>7. Replies'
  BY DEF Replies
<1>. QED BY <1>2, <1>3, <1>4, <1>5, <1>6, <1>7

LEMMA StutterHolds == ASSUME IInv, UNCHANGED vars PROVE IInv'
<1>. USE DEF IInv, vars, amqpVars, linkVars, bindVars, tableVars, lockVars, lifeVars
<1>0. conf' = conf /\ Ours' = Ours /\ Commands' = Commands /\ \A d \in Ours : Id(d)' = Id(d)
  BY SameConf
<1>1. Types' /\ LinkExact' /\ KeysExact'
  BY <1>0 DEF Types, LinkExact, KeysExact, HasExchange
<1>2. CallsExact' /\ Fresh' /\ UnderWay'
  BY DEF CallsExact, TableExact, Fresh, Unissued, UnderWay, Queued
<1>3. Replies'
  BY <1>0 DEF Replies
<1>. QED BY <1>1, <1>2, <1>3

\* The ways in which the process ends.
LEMMA Deaths ==
    ASSUME fatal \/ FlushFails \/ errorAgain \/ AssertStart \/ stopUnconnected \/ Crash \/ Exit
    PROVE  Die
BY DEF fatal, FlushFails, errorAgain, AssertStart, stopUnconnected, Crash, Exit

LEMMA NextHolds == IInv /\ [Next]_vars => IInv'
<1>. SUFFICES ASSUME IInv, [Next]_vars PROVE IInv'
  OBVIOUS
<1>1. ASSUME NEW k \in conf.kinds, Issue(k) PROVE IInv'
  BY <1>1, IssueHolds
<1>2. ASSUME NEW k \in Keys, BindKey(k) PROVE IInv'
  BY <1>2, BindKeyHolds
<1>3. ASSUME NEW c \in Calls, TimedOut(c) PROVE IInv'
  BY <1>3, TimedOutHolds
<1>4. ASSUME NEW m \in inbox, receive(m) PROVE IInv'
  BY <1>4, ReceiveHolds
<1>5. ASSUME NEW m \in out, Peer(m) PROVE IInv'
  BY <1>5, PeerHolds
<1>6. CASE Link \/ ReapQueue
  BY <1>6, LinkStepHolds, ConnectedHolds, DisconnectedHolds, TimersHold, Deaths, Dies DEF Link
<1>7. CASE stop
  BY <1>7, StopHolds
<1>8. CASE stopUnconnected \/ Crash \/ Exit
  BY <1>8, Deaths, Dies
<1>9. CASE Respawn
  BY <1>9, RespawnHolds
<1>10. CASE UNCHANGED vars
  BY <1>10, StutterHolds
<1>. QED BY <1>1, <1>2, <1>3, <1>4, <1>5, <1>6, <1>7, <1>8, <1>9, <1>10 DEF Next

-----------------------------------------------------------------------------
(* What holds in every state.                                              *)

\* The inductive invariant above holds in every state of the command layer and
\* its connection, whatever is sent, lost, answered or restarted.
THEOREM Invariant == Spec => []IInv
<1>. QED BY InitHolds, NextHolds, PTL DEF Spec

\* The state has its types, the keepalive timer runs only while the connection
\* is up, and at most one timer is about to call start(): never both that of
\* connClosed and that of error().
THEOREM TypeCorrect == Spec => []TypeOK
<1>1. ASSUME IInv PROVE TypeOK
  <2>1. \A m \in out \cup Queued : m.call \in Calls
    BY <1>1, CommandParts, ToSetIn DEF IInv, Types, Queued
  <2>2. cmds \subseteq {c \in Calls : c[1] = life}
    BY <1>1 DEF IInv, CallsExact
  <2>. QED BY <1>1, <2>1, <2>2 DEF IInv, Types, LinkExact, KeysExact, TypeOK, Queued
<1>. QED BY <1>1, Invariant, PTL

\* While the connection is up, every key of which a consumer was told that it
\* is bound is bound, across reconnects, early calls of bind() and restarts.
THEOREM KeysStayBound == Spec => []BoundWhenUp
<1>1. ASSUME IInv PROVE BoundWhenUp
  BY <1>1 DEF IInv, KeysExact, BoundWhenUp
<1>. QED BY <1>1, Invariant, PTL

\* Until stop() is called the table of commands holds exactly those whose
\* callback has not been called, and timers run only for them.
THEOREM TableIsExact == Spec => []TableExact
<1>1. ASSUME IInv PROVE TableExact
  BY <1>1 DEF IInv, CallsExact
<1>. QED BY <1>1, Invariant, PTL

-----------------------------------------------------------------------------
(* The layer implements the specification of a command.                    *)

LEMMA IdsDiffer ==
    ASSUME DistinctIds, conf \in Confs, NEW c \in Ours, NEW d \in Ours, Id(c) = Id(d)
    PROVE  c = d
BY DEF DistinctIds, Ours, Id

\* A cmd function takes exactly the acknowledgements that say so for a success.
LEMMA Verdicts ==
    ASSUME NEW subtype, NEW a \in Answers(subtype)
    PROVE  Outcome(a) = IF CarriedOut(a) THEN "ok" ELSE "failed"
<1> DEFINE Of(s, v) == [type |-> "ack", subtype |-> s, says |-> v]
<1>1. a \in Built /\ a.type = "ack"
  BY DEF Answers
<1>2. a \in UNION {RangeOf(NotifySenders), RangeOf(AggSenders), RangeOf(InstSenders),
                   RangeOf(ControlSenders), RangeOf(DataSenders)}
  BY <1>1 DEF Built
<1>3. CASE a \in RangeOf(NotifySenders)
  BY <1>1, <1>3 DEF RangeOf, NotifySenders, Notify, Msg
<1>4. CASE a \in RangeOf(AggSenders)
  BY <1>1, <1>4 DEF RangeOf, AggSenders, Cmd, Ack, Msg, Outcome, Demands, CarriedOut
<1>5. CASE a \in RangeOf(InstSenders)
  BY <1>1, <1>5 DEF RangeOf, InstSenders, Cmd, Ack, Msg, Outcome, Demands, CarriedOut
<1>6. CASE a \in RangeOf(ControlSenders)
  BY <1>1, <1>6 DEF RangeOf, ControlSenders, Cmd, Ack, Msg, Outcome, Demands, CarriedOut, None
<1>7. CASE a \in RangeOf(DataSenders)
  BY <1>1, <1>7 DEF RangeOf, DataSenders, Cmd, Ack, Notify, Msg, Outcome, Demands, CarriedOut, None
<1>. QED BY <1>2, <1>3, <1>4, <1>5, <1>6, <1>7

\* What a step does to one command.
Step(c) == \/ Abstract!Issue(c) \/ Abstract!Decide(c)
           \/ Abstract!Return(c) \/ Abstract!Same(c)

LEMMA IdleSteps == ASSUME UNCHANGED <<call, fate>> PROVE \A c \in Calls : Step(c)
BY DEF Step, Abstract!Same

LEMMA DieSteps == ASSUME IInv, Die PROVE \A c \in Calls : Step(c)
<1>1. \A c \in Calls : fate'[c] = fate[c] /\ call'[c] = IF call[c] = "open" THEN "gone" ELSE call[c]
  BY DEF Die
<1>. QED BY <1>1 DEF Step, Abstract!Return, Abstract!Same

LEMMA IssueSteps == ASSUME IInv, NEW k \in conf.kinds, Issue(k) PROVE \A c \in Calls : Step(c)
<1> DEFINE n == <<life, cmdid>>
<1>1. n \in Calls /\ call[n] = "none" /\ fate[n] = "none"
  <2>1. n \in Ours
    BY NextIsOurs DEF Issue, IInv, Types
  <2>2. n \in Calls /\ Unissued(n)
    BY <2>1 DEF Ours, Unissued, IInv, Types
  <2>. QED BY <2>2 DEF IInv, Fresh
<1>2. \A c \in Calls : fate'[c] = fate[c] /\ call'[c] = IF c = n THEN "open" ELSE call[c]
  BY <1>1 DEF Issue, IInv, Types
<1>. HIDE DEF n
<1>. QED BY <1>1, <1>2 DEF Step, Abstract!Issue, Abstract!Same

LEMMA TimedOutSteps == ASSUME IInv, NEW d \in Calls, TimedOut(d) PROVE \A c \in Calls : Step(c)
<1>1. call[d] = "open"
  BY DEF TimedOut, IInv, CallsExact
<1>2. \A c \in Calls : fate'[c] = fate[c] /\ call'[c] = IF c = d THEN "timedout" ELSE call[c]
  BY DEF TimedOut, IInv, Types
<1>. QED BY <1>1, <1>2 DEF Step, Abstract!Return, Abstract!Same

LEMMA ReceiveSteps ==
    ASSUME DistinctIds, IInv, NEW m \in inbox, receive(m)
    PROVE  \A c \in Calls : Step(c)
<1>1. CASE UNCHANGED <<call, fate>>
  BY <1>1, IdleSteps
<1>2. CASE ~UNCHANGED <<call, fate>>
  <2>1. fate' = fate
    BY DEF receive
  <2>2. PICK d \in cmds : Id(d) = m.id /\ call' = [call EXCEPT ![d] = Outcome(m.msg)]
    BY <1>2, <2>1 DEF receive, ack, Waiting
  <2>3. /\ m.call \in Ours /\ Id(m.call) = m.id /\ m.msg \in Answers(m.msg.subtype)
        /\ fate[m.call] = IF CarriedOut(m.msg) THEN "done" ELSE "refused"
    BY DEF IInv, Replies
  <2>4. d \in Ours /\ d \in Calls /\ call[d] = "open" /\ conf \in Confs
    BY DEF IInv, Types, CallsExact
  <2>5. d = m.call
    BY <2>2, <2>3, <2>4, IdsDiffer
  <2>6. Outcome(m.msg) = IF CarriedOut(m.msg) THEN "ok" ELSE "failed"
    BY <2>3, Verdicts
  <2>7. \A c \in Calls : fate'[c] = fate[c] /\ call'[c] = IF c = d THEN Outcome(m.msg) ELSE call[c]
    BY <2>1, <2>2, <2>4 DEF IInv, Types
  <2>8. Abstract!Return(d)
    BY <2>3, <2>4, <2>5, <2>6, <2>7 DEF Abstract!Return
  <2>. QED BY <2>7, <2>8 DEF Step, Abstract!Same
<1>. QED BY <1>1, <1>2

LEMMA PeerSteps == ASSUME IInv, NEW m \in out, Peer(m) PROVE \A c \in Calls : Step(c)
<1>1. CASE UNCHANGED <<call, fate>>
  BY <1>1, IdleSteps
<1>2. CASE ~UNCHANGED <<call, fate>>
  <2>1. call' = call
    BY DEF Peer, tableVars
  <2>2. PICK v \in {"done", "refused"} : fate' = [fate EXCEPT ![m.call] = v]
    BY <1>2, <2>1 DEF Peer
  <2>3. m.call \in Calls /\ call[m.call] # "none" /\ fate[m.call] = "none"
    BY CommandParts DEF IInv, Types, UnderWay
  <2>4. \A c \in Calls : call'[c] = call[c] /\ fate'[c] = IF c = m.call THEN v ELSE fate[c]
    BY <2>1, <2>2, <2>3 DEF IInv, Types
  <2>. QED BY <2>3, <2>4 DEF Step, Abstract!Decide, Abstract!Same
<1>. QED BY <1>1, <1>2

LEMMA StopSteps == ASSUME IInv, stop PROVE \A c \in Calls : Step(c)
<1>1. PICK late, k : Stopping(late, k)
  BY StopCases
<1>2. fate' = fate
  BY DEF stop
<1>3. \A d \in late : d \in Calls /\ call[d] = "none" /\ fate[d] = "none"
  <2>1. ASSUME NEW d \in late PROVE d \in Ours /\ d[1] = life /\ d[2] = cmdid
    BY <1>1, <2>1, NextIsOurs DEF Stopping, IInv, Types
  <2>2. \A d \in late : d \in Calls /\ Unissued(d)
    BY <2>1 DEF Ours, Unissued, IInv, Types
  <2>. QED BY <2>2 DEF IInv, Fresh
<1>4. \A d \in cmds : d \in Calls /\ call[d] = "open"
  BY DEF IInv, CallsExact
<1>5. \A d \in Calls : /\ fate'[d] = fate[d]
                       /\ call'[d] = IF d \in cmds THEN "intr" ELSE IF d \in late THEN "open" ELSE call[d]
  BY <1>1, <1>2 DEF Stopping
<1>. QED BY <1>3, <1>4, <1>5 DEF Step, Abstract!Issue, Abstract!Return, Abstract!Same

\* Every step of the layer does to each command what its specification allows.
LEMMA NextSteps ==
    ASSUME DistinctIds, IInv, [Next]_vars
    PROVE  \A c \in Calls : Step(c)
<1>1. ASSUME NEW k \in conf.kinds, Issue(k) PROVE \A c \in Calls : Step(c)
  BY <1>1, IssueSteps
<1>2. ASSUME NEW k \in Keys, BindKey(k) PROVE \A c \in Calls : Step(c)
  BY <1>2, IdleSteps DEF BindKey, tableVars
<1>3. ASSUME NEW c \in Calls, TimedOut(c) PROVE \A d \in Calls : Step(d)
  BY <1>3, TimedOutSteps
<1>4. ASSUME NEW m \in inbox, receive(m) PROVE \A c \in Calls : Step(c)
  BY <1>4, ReceiveSteps
<1>5. ASSUME NEW m \in out, Peer(m) PROVE \A c \in Calls : Step(c)
  BY <1>5, PeerSteps
<1>6. CASE LinkStep \/ connected \/ disconnected \/ Retries \/ error \/ Restarts \/ ReapQueue
  BY <1>6, IdleSteps
     DEF LinkStep, connected, disconnected, Retries, error, Restarts, ReapQueue, idle, tableVars
<1>7. CASE fatal \/ FlushFails \/ errorAgain \/ AssertStart \/ stopUnconnected \/ Crash \/ Exit
  BY <1>7, Deaths, DieSteps
<1>8. CASE stop
  BY <1>8, StopSteps
<1>9. CASE Respawn
  BY <1>9, IdleSteps DEF Respawn
<1>10. CASE UNCHANGED vars
  BY <1>10, IdleSteps DEF vars, tableVars
<1>. QED BY <1>1, <1>2, <1>3, <1>4, <1>5, <1>6, <1>7, <1>8, <1>9, <1>10 DEF Next, Link

\* A command is carried out at most once, its callback is called at most once,
\* and what it is told is what has become of the command: the safety part of
\* the specification of a command (RemoteCalls without its last conjunct).
THEOREM CommandsAreHonest == ASSUME DistinctIds PROVE Spec => Abstract!Safety
<1>1. Init => Abstract!Init
  BY DEF Init, Abstract!Init
<1>2. ASSUME IInv, IInv', [Next]_vars PROVE [Abstract!Next]_(Abstract!vars)
  <2>1. \A c \in Calls : Step(c)
    BY <1>2, NextSteps
  <2>2. Abstract!TypeOK'
    BY <1>2 DEF IInv, Types, Abstract!TypeOK
  <2>. QED BY <2>1, <2>2 DEF Step, Abstract!Next
<1>. QED BY <1>1, <1>2, Invariant, PTL DEF Spec, Abstract!Safety

=============================================================================
