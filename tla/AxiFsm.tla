------------------------------- MODULE AxiFsm -------------------------------
(***************************************************************************)
(* The AXI/ACE protocol state machine of axi/fsm: the states and reactions *)
(* of protocol_fsm.h and the mapping from protocol time points to          *)
(* state-machine events of base::react in base.cpp.  Everything here is    *)
(* constant-level: the protocol engines keep one state per transaction and *)
(* use these operators in their actions.                                   *)
(***************************************************************************)

\* enum protocol_time_point_e without its terminator CB_CNT.
TimePoints ==
  {"RequestPhaseBeg", "WValidE", "WReadyE", "BegPartReqE", "EndPartReqE",
   "BegReqE", "EndReqE", "ResponsePhaseBeg", "BegPartRespE", "EndPartRespE",
   "BegRespE", "EndRespE", "Ack"}

\* The initial value of an empty stall slot is the terminator of the enum.
CB_CNT == "CB_CNT"

\* The boost::statechart states.
FsmStates ==
  {"Idle", "ATrans", "PartialRequest", "WriteIdle", "Request",
   "WaitForResponse", "PartialResponse", "ReadIdle", "Response", "WaitAck"}

\* The reaction tables: state -> event -> successor state.
Reactions ==
  [Idle            |-> [BegPartReq |-> "PartialRequest", BegReq |-> "Request",
                        WReq |-> "ATrans"],
   ATrans          |-> [BegPartReq |-> "PartialRequest", BegReq |-> "Request"],
   PartialRequest  |-> [EndPartReq |-> "WriteIdle"],
   WriteIdle       |-> [BegPartReq |-> "PartialRequest", BegReq |-> "Request"],
   Request         |-> [EndReq |-> "WaitForResponse", BegResp |-> "Response",
                        BegPartResp |-> "PartialResponse"],
   WaitForResponse |-> [BegPartResp |-> "PartialResponse",
                        BegResp |-> "Response"],
   PartialResponse |-> [EndPartResp |-> "ReadIdle"],
   ReadIdle        |-> [BegPartResp |-> "PartialResponse",
                        BegResp |-> "Response"],
   Response        |-> [EndResp |-> "Idle", EndRespNoAck |-> "WaitAck"],
   WaitAck         |-> [AckRecv |-> "Idle"]]

\* A state handles an event iff its reaction list names it; boost::statechart
\* silently discards every other event.
Accepts(s, ev) == ev \in DOMAIN Reactions[s]

\* The state after process_event(ev) in state s.
After(s, ev) == IF Accepts(s, ev) THEN Reactions[s][ev] ELSE s

\* base::react: the event a time point stands for.  "coherent" is the engine's
\* flag (it decides whether the response is followed by an acknowledge),
\* "burstWrite" says that the payload is a write burst with data.
EventOf(tp, coherent, burstWrite) ==
  CASE tp \in {"RequestPhaseBeg", "WReadyE"} ->
         IF burstWrite THEN "BegPartReq" ELSE "BegReq"
    [] tp = "WValidE"      -> "WReq"
    [] tp = "BegPartReqE"  -> "BegPartReq"
    [] tp = "EndPartReqE"  -> "EndPartReq"
    [] tp = "BegReqE"      -> "BegReq"
    [] tp = "EndReqE"      -> "EndReq"
    [] tp = "BegPartRespE" -> "BegPartResp"
    [] tp = "EndPartRespE" -> "EndPartResp"
    [] tp = "BegRespE"     -> "BegResp"
    [] tp = "EndRespE"     -> IF coherent THEN "EndRespNoAck" ELSE "EndResp"
    [] tp = "Ack"          -> "AckRecv"
=============================================================================
