-------------------------- MODULE SimpleInitiator --------------------------
(***************************************************************************)
(* The request side of simple_initiator_b: a call of transport(trans,      *)
(* false) waits for the address channel of its command, starts the state   *)
(* machine of its payload and sleeps until its callbacks have taken the    *)
(* transaction through the protocol.  (SimpleSnoops has the snoop side,    *)
(* whose payloads and channels are others.)                                *)
(*                                                                         *)
(* Delays are not counted: a time point that is scheduled is due after any *)
(* time.  The target returns TLM_ACCEPTED from every call.                 *)
(***************************************************************************)
EXTENDS AxiChannel, AxiFsm

VARIABLES
  ackPhase,  (* base::coherent: a response is followed by an acknowledge,  *)
             (* which the ace_target_pe in the path does not hand on.      *)
  call,      (* call[t]: where transport is.                               *)
  port,      (* rd and wr, ordered semaphores: who holds or waits for one. *)
  oActive,   (* The payloads that have a handle.                           *)
  oFsm,      (* oFsm[t]: the state of the payload's state machine.         *)
  oBeat,     (* fsm_handle::beat_count.                                    *)
  oDue,      (* oDue[t]: scheduled time points, in order.                  *)
  oAlarm     (* History: events without a handle, not expected or early.   *)

ownVars == <<ackPhase, call, port, oActive, oFsm, oBeat, oDue, oAlarm>>

OwnTypeOK ==
  /\ ackPhase \in BOOLEAN
  /\ call \in [Tx -> {"idle", "port", "run"}]
  /\ port \in [Cmds -> Seq(Tx)]
  /\ oActive \subseteq Tx /\ oFsm \in [Tx -> FsmStates]
  /\ \A t \in Tx : oBeat[t] \in 0 .. BurstLen[t] - 1
  /\ oDue \in [Tx -> Seq(TimePoints)]
  /\ oAlarm \subseteq {"NoFsm", "Discarded", "EarlyResponse"}

OwnInit ==
  /\ ackPhase \in BOOLEAN
  /\ call = [t \in Tx |-> "idle"]
  /\ port = [c \in Cmds |-> << >>]
  /\ oActive = {} /\ oFsm = [t \in Tx |-> "Idle"]
  /\ oBeat = [t \in Tx |-> 0] /\ oDue = [t \in Tx |-> << >>]
  /\ oAlarm = {}

\* transport() creates the handle and asks for the address channel.
CallTransport(t) ==
  /\ call[t] = "idle"
  /\ call' = [call EXCEPT ![t] = "port"]
  /\ port' = [port EXCEPT ![Cmd[t]] = Append(@, t)]
  /\ oActive' = oActive \union {t}
  /\ UNCHANGED <<linkVars, ackPhase, oFsm, oBeat, oDue, oAlarm>>

\* Mutant: the channel is not waited for.
HoldsPortMutant(t) == port[Cmd[t]] # << >>

\* t holds the address channel of its command.
HoldsPort(t) == port[Cmd[t]] # << >> /\ Head(port[Cmd[t]]) = t

\* A clock edge later (END_RESP of the payload's last use has arrived) the
\* state machine leaves Idle and announces the first beat.
StartRequest(t) ==
  LET event == EventOf("RequestPhaseBeg", FALSE,
                       Cmd[t] = "wr" /\ BurstLen[t] > 1)
  IN
  /\ call[t] = "port" /\ HoldsPort(t) /\ fw[t] = << >>
  /\ call' = [call EXCEPT ![t] = "run"]
  /\ oFsm' = [oFsm EXCEPT ![t] = After("Idle", event)]
  /\ oBeat' = [oBeat EXCEPT ![t] = 0]
  /\ fw' = Put(fw, t, IF event = "BegReq" THEN "BEGIN_REQ"
                      ELSE "BEGIN_PARTIAL_REQ")
  /\ UNCHANGED <<bw, ackPhase, port, oActive, oDue, oAlarm>>

-----------------------------------------------------------------------------
(* The callbacks.  q is what is left of the scheduled time points of t.    *)

Announce(t, phase) == fw' = Put(fw, t, phase)
ScheduleNext(t, tp, q) == oDue' = [oDue EXCEPT ![t] = Append(q, tp)]
NothingNew(t, q) == oDue' = [oDue EXCEPT ![t] = q]

\* The request beat after the first n ones.
NextRequest(t, n) == IF n < BurstLen[t] - 1 THEN "BegPartReqE" ELSE "BegReqE"

EndPartReq(t, q) ==
  /\ oBeat' = [oBeat EXCEPT ![t] = @ + 1]
  /\ ScheduleNext(t, NextRequest(t, oBeat[t] + 1), q)
  /\ UNCHANGED <<fw, call, port, oActive>>

BeginBeat(t, tp, q) ==
  /\ Announce(t, IF tp = "BegReqE" THEN "BEGIN_REQ" ELSE "BEGIN_PARTIAL_REQ")
  /\ NothingNew(t, q)
  /\ UNCHANGED <<call, port, oActive, oBeat>>

\* Mutant: the channel is not given back.
PassPortMutant(c) == port

\* rd.post() or wr.post().
PassPort(c) == [port EXCEPT ![c] = Tail(@)]

EndRequest(t, q) ==
  /\ port' = PassPort(Cmd[t])
  /\ NothingNew(t, q)
  /\ UNCHANGED <<fw, call, oActive, oBeat>>

\* A response beat is accepted after rd_data_accept_delay or
\* wr_resp_accept_delay.
EndOf(tp) == IF tp = "BegRespE" THEN "EndRespE" ELSE "EndPartRespE"

BeginResponse(t, tp, q) ==
  /\ ScheduleNext(t, EndOf(tp), q)
  /\ UNCHANGED <<fw, call, port, oActive, oBeat>>

EndPartResp(t, q) ==
  /\ Announce(t, "END_PARTIAL_RESP")
  /\ oBeat' = [oBeat EXCEPT ![t] = @ + 1]
  /\ NothingNew(t, q)
  /\ UNCHANGED <<call, port, oActive>>

\* The handle is freed and transport returns ...
Returns(t) ==
  /\ call' = [call EXCEPT ![t] = "idle"]
  /\ oActive' = oActive \ {t}

\* ... or, with an acknowledge phase, the acknowledge is due.
EndResponse(t, q) ==
  /\ Announce(t, "END_RESP")
  /\ IF ackPhase THEN ScheduleNext(t, "Ack", q) /\ UNCHANGED <<call, oActive>>
     ELSE Returns(t) /\ NothingNew(t, q)
  /\ UNCHANGED <<port, oBeat>>

\* The ACK ends at the ace_target_pe.
Acknowledge(t, q) ==
  /\ Returns(t) /\ NothingNew(t, q)
  /\ UNCHANGED <<fw, port, oBeat>>

\* base::react for a time point of t.
OwnReact(t, tp, q) ==
  LET event == EventOf(tp, ackPhase, FALSE)
      alarm == IF t \notin oActive THEN "NoFsm"
               ELSE IF ~Accepts(oFsm[t], event) THEN "Discarded"
               ELSE IF oFsm[t] = "Request" /\ tp # "EndReqE" THEN "EarlyResponse"
               ELSE "none"
  IN
  /\ oFsm' = [oFsm EXCEPT ![t] = After(@, event)]
  /\ IF alarm # "none"
       THEN /\ oAlarm' = oAlarm \union {alarm} /\ NothingNew(t, q)
            /\ UNCHANGED <<fw, call, port, oActive, oBeat>>
       ELSE /\ UNCHANGED oAlarm
            /\ \/ tp = "EndPartReqE"  /\ EndPartReq(t, q)
               \/ tp \in {"BegPartReqE", "BegReqE"} /\ BeginBeat(t, tp, q)
               \/ tp = "EndReqE"      /\ EndRequest(t, q)
               \/ tp \in {"BegPartRespE", "BegRespE"} /\ BeginResponse(t, tp, q)
               \/ tp = "EndPartRespE" /\ EndPartResp(t, q)
               \/ tp = "EndRespE"     /\ EndResponse(t, q)
               \/ tp = "Ack"          /\ Acknowledge(t, q)
  /\ UNCHANGED ackPhase

\* nb_transport_bw and process_fsm_event: a phase of the target.
OwnPhase(t) ==
  /\ bw[t] # << >>
  /\ bw' = Drop(bw, t)
  /\ OwnReact(t, [END_PARTIAL_REQ |-> "EndPartReqE", END_REQ |-> "EndReqE",
                  BEGIN_PARTIAL_RESP |-> "BegPartRespE",
                  BEGIN_RESP |-> "BegRespE"][Head(bw[t])], oDue[t])

\* process_fsm_event and process_fsm_clk_queue: a time point is due.
OwnTimePoint(t) ==
  /\ oDue[t] # << >>
  /\ UNCHANGED bw
  /\ OwnReact(t, Head(oDue[t]), Tail(oDue[t]))

OwnNext == \E t \in Tx :
  CallTransport(t) \/ StartRequest(t) \/ OwnPhase(t) \/ OwnTimePoint(t)

\* What is due happens; nobody is obliged to call transport.
OwnFairness == \A t \in Tx :
  /\ WF_<<linkVars, ownVars>>(StartRequest(t))
  /\ WF_<<linkVars, ownVars>>(OwnPhase(t))
  /\ WF_<<linkVars, ownVars>>(OwnTimePoint(t))
=============================================================================
