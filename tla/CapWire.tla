------------------------------- MODULE CapWire -------------------------------
(***************************************************************************)
(* The messages of the Cloud Analytics protocol (lib/ca/ca-amqp-cap.js):   *)
(* what each send function puts into a message, what a receiver requires   *)
(* before it hands the message on, and what each cmd function takes for a  *)
(* success.  A message is a record of its type, its subtype, the verdict   *)
(* its status field carries, and the common fields it has been given.      *)
(***************************************************************************)
EXTENDS Naturals, FiniteSets

None == "none"

\* What a send function builds: kind of message, and the verdict it states.
Msg(type, subtype, says) == [type |-> type, subtype |-> subtype, says |-> says]
Cmd(subtype) == Msg("cmd", subtype, None)
Notify(subtype) == Msg("notify", subtype, None)
Ack(subtype, says) == Msg("ack", subtype, says)

NotifySenders ==
    [sendNotifyCfgOnline  |-> Notify("configsvc_online"),
     sendNotifyCfgReset   |-> Notify("config_reset"),
     sendNotifyInstOnline |-> Notify("instrumenter_online"),
     sendNotifyAggOnline  |-> Notify("aggregator_online")]

AggSenders ==
    [sendCmdEnableAgg         |-> Cmd("enable_aggregation"),
     sendCmdAckEnableAggSuc   |-> Ack("enable_aggregation", "enabled"),
     sendCmdAckEnableAggFail  |-> Ack("enable_aggregation", "enable_failed"),
     sendCmdDisableAgg        |-> Cmd("disable_aggregation"),
     sendCmdAckDisableAggSuc  |-> Ack("disable_aggregation", "disabled"),
     sendCmdAckDisableAggFail |-> Ack("disable_aggregation", "disable_failed")]

InstSenders ==
    [sendCmdEnableInst         |-> Cmd("enable_instrumentation"),
     sendCmdAckEnableInstSuc   |-> Ack("enable_instrumentation", "enabled"),
     sendCmdAckEnableInstFail  |-> Ack("enable_instrumentation", "enable_failed"),
     sendCmdDisableInst        |-> Cmd("disable_instrumentation"),
     sendCmdAckDisableInstFail |-> Ack("disable_instrumentation", "disable_failed"),
     sendCmdAckDisableInstSuc  |-> Ack("disable_instrumentation", "disabled"),
     sendData                  |-> Msg("data", None, None)]

ControlSenders ==
    [sendCmdAbort     |-> Cmd("abort"),
     sendCmdAckAbort  |-> Ack("abort", "ok"),
     sendCmdPing      |-> Cmd("ping"),
     sendCmdAckPing   |-> Ack("ping", None),
     sendCmdStatus    |-> Cmd("status"),
     sendCmdAckStatus |-> Ack("status", None)]

DataSenders ==
    [sendCmdDataPut       |-> Cmd("data_put"),
     sendCmdAckDataPut    |-> Ack("data_put", None),
     sendCmdDataGet       |-> Cmd("data_get"),
     sendCmdAckDataGet    |-> Ack("data_get", None),
     sendCmdDataDelete    |-> Cmd("data_delete"),
     sendCmdAckDataDelete |-> Ack("data_delete", None),
     sendNotifyLog        |-> Notify("log"),
     sendNotifyInstError  |-> Notify("instrumenter_error")]

RangeOf(f) == {f[x] : x \in DOMAIN f}
Built == UNION {RangeOf(NotifySenders), RangeOf(AggSenders), RangeOf(InstSenders),
                RangeOf(ControlSenders), RangeOf(DataSenders)}
-----------------------------------------------------------------------------
(* The receiving side: capMessageTypes, capValidate, receive.              *)

\* Subtypes of commands and acknowledgements whose version is not checked,
\* and those for which it is.
Direct == {"disable_instrumentation", "enable_instrumentation",
           "enable_aggregation", "disable_aggregation"}
Checked == {"ping", "status", "abort", "data_delete", "data_get", "data_put"}
Notices == {"aggregator_online", "configsvc_online", "config_reset",
            "instrumenter_online", "log"}

Subtypes(type) == CASE type \in {"cmd", "ack"} -> Direct \cup Checked
                    [] type = "notify" -> Notices \cup {"instrumenter_error"}

\* Whether a message is handled by capValidate and must state its version.
Validated(m) == m.subtype \in Checked \cup Notices

\* send(): the fields every message gets, and the version only where the
\* receiver will ask for it.
Common == {"ca_source", "ca_hostname", "ca_time"}
Fields(m) == Common \cup (IF m.type \in {"cmd", "ack"} THEN {"ca_id"} ELSE {})
                    \cup (IF m.type # "data" /\ Validated(m) THEN {"ca_major"} ELSE {})

\* receive(): whether a message with these fields reaches its consumer,
\* which speaks the same major version or another.  Data are not looked at.
Received(m, fields, sameMajor) ==
    \/ m.type = "data"
    \/ /\ m.type \in {"cmd", "ack", "notify"}
       /\ m.type = "cmd" => "ca_id" \in fields
       /\ {"ca_time", "ca_hostname", "ca_source"} \subseteq fields
       /\ m.subtype \in Subtypes(m.type)
       /\ Validated(m) => "ca_major" \in fields /\ sameMajor

\* What a cmd function demands of the acknowledgement of its command.
Demands(subtype) ==
    CASE subtype \in {"enable_aggregation", "enable_instrumentation"} -> "enabled"
      [] subtype \in {"disable_aggregation", "disable_instrumentation"} -> "disabled"
      [] subtype = "abort" -> "ok"
      [] OTHER -> None

\* The outcome a cmd function reports to its caller.
\* (Seeded fault: MOutcome takes any acknowledgement for a success.)
MOutcome(ack) == "ok"
Outcome(ack) == IF ack.says = Demands(ack.subtype) THEN "ok" ELSE "failed"

\* Acknowledgements that a receiver of the command may send, and whether one
\* of them says that the command has been carried out.
Answers(subtype) == {m \in Built : m.type = "ack" /\ m.subtype = subtype}
CarriedOut(ack) == ack.says \notin {"enable_failed", "disable_failed"}
=============================================================================
